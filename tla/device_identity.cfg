SPECIFICATION FairAllSpec
CONSTANTS
    device = device
    module = module
    h1 = h1
    h2 = h2
    Slots = {device, module}
    Hubs = {h1, h2}
    None = None
    Processes <- AllProcesses
    Scenarios <- AllScenarios
    DeviceSlot = device
    DmSlot = module
    Modules <- TheModules
    Algorithms = {"RSA", "ECDSA"}
    MaxKeys = 2
    MaxSecrets = 2
    MaxClears = 1
INVARIANTS
    UriHasKey
    TokenIsConsistent
    RegisteredMeansUsable
    CertificatesNameTheirKey
    DestroyedLeavesNothing
PROPERTIES
    Connects
    EncryptsUnderSavedSecret
CHECK_DEADLOCK FALSE
