SPECIFICATION Spec
CONSTANTS
    MaxInvocations = 3
    MaxFaults = 2
    Parts = {"apps"}
    StoreOrder <- MCStoreOrder
    MyUser = "My_User"
    MySystem = "My_System"
    Thumbprints = {"c1", "c2"}
    Blobs = {"b1", "b2", "b3"}
    FileNames = {"f1", "f2"}
    FileNameOf <- MCFileNameOf
    HeldBy <- MCHeldBy
    CertificateSections <- MCCertificateSections
    AppOrder <- MCAppOrder
    MaxVersion = 2
    AppSections <- MCAppSections
    CollectorOrder <- MCCollectorOrder
    NamePartOf <- MCNamePartOf
    LogSettings = {"circular", "sequential"}
    TraceProviders = {"p1", "p2"}
    EtlFiles = {"shared", "own"}
    LogSections <- MCLogSections
    TimeZoneFields = {"bias", "standardDate", "daylightDate"}
    StandardDate = "standardDate"
    DaylightDate = "daylightDate"
    TimeValues = {"v1", "v2"}
    TimeChanges <- MCTimeChanges
    SettingOrder <- MCSettingOrder
    PolicyValues = {"low", "high"}
    PolicyHandlers <- MCPolicyHandlers
    PolicySections <- MCPolicySections
    MethodCalls <- MCMethodCalls
    FilesInUse = {"log2"}
    InfoOrder <- MCInfoOrder
    InfoSections <- MCInfoSections
    PluginHandlerIds = {"h1"}
    MaxCallbacks = 1
    SchemaOrder <- MCSchemaOrder
    SelfId = "schemas"
    InPlugin = {"h1", "h2"}
    ConfiguredHandlers = {"h1"}
    SchemaTags <- MCSchemaTags
    SchemaSections <- MCSchemaSections
    MdmCallers = {t1, t2, t3}
    NoCaller = NoCaller
    MaxCommands = 2
    MdmFolder <- MCMdmFolder
    MdmNameOrder <- MCMdmNameOrder
    MdmValues = {"5", "4294967295", "True"}
    SuccessCodes = {"200"}
    FailureCodes = {"300"}
    Stoi <- MCStoi
PROPERTY ForegroundNotUninstalled
CHECK_DEADLOCK FALSE
