SPECIFICATION FairSpec
CONSTANTS
    MaxInvocations = 3
    MaxFaults = 2
    Parts = {"certificates", "apps", "logs", "time", "policies", "methods", "info", "boundary", "schemas", "mdm", "syncml"}
    StoreOrder <- MCStoreOrder
    MyUser = "My_User"
    MySystem = "My_System"
    Thumbprints = {"c1", "c2"}
    Blobs = {"b1", "b2", "b3"}
    FileNames = {"f1", "f2"}
    FileNameOf <- MCFileNameOf
    HeldBy <- MCHeldBy
    CertificateSections <- MCCertificateSections
    AppOrder <- MCAppOrder
    MaxVersion = 2
    AppSections <- MCAppSections
    CollectorOrder <- MCCollectorOrder
    NamePartOf <- MCNamePartOf
    LogSettings = {"circular", "sequential"}
    TraceProviders = {"p1", "p2"}
    EtlFiles = {"shared", "own"}
    LogSections <- MCLogSections
    TimeZoneFields = {"bias", "standardDate", "daylightDate"}
    StandardDate = "standardDate"
    DaylightDate = "daylightDate"
    TimeValues = {"v1", "v2"}
    TimeChanges <- MCTimeChanges
    SettingOrder <- MCSettingOrder
    PolicyValues = {"low", "high"}
    PolicyHandlers <- MCPolicyHandlers
    PolicySections <- MCPolicySections
    MethodCalls <- MCMethodCalls
    FilesInUse = {"log2"}
    InfoOrder <- MCInfoOrder
    InfoSections <- MCInfoSections
    PluginHandlerIds = {"h1"}
    MaxCallbacks = 1
    SchemaOrder <- MCSchemaOrder
    SelfId = "schemas"
    InPlugin = {"h1", "h2"}
    ConfiguredHandlers = {"h1"}
    SchemaTags <- MCSchemaTags
    SchemaSections <- MCSchemaSections
    MdmCallers = {t1, t2, t3}
    NoCaller = NoCaller
    MaxCommands = 2
    MdmFolder <- MCMdmFolder
    MdmNameOrder <- MCMdmNameOrder
    MdmValues = {"5", "4294967295", "True"}
    SuccessCodes = {"200"}
    FailureCodes = {"300"}
    Stoi <- MCStoi
INVARIANTS
    CertificatesConsistent
    AppsApplied
    CollectorsApplied
    SettingsApplied
    ReportsAnswerRequest
    BoundaryIsTransparent
    CommandsMeanWhatTheyReturn
PROPERTIES
    ForegroundRemovedLast
    MethodsKeepPromise
    CommandIsSynchronousCall
    CommandsAnswered
CHECK_DEADLOCK FALSE
