SPECIFICATION FairSpec
CONSTANTS
    clear = clear
    app = app
    time = time
    MapOrder <- InTheMap
    ClearReported = clear
    Builtin = {clear}
    ReportOnConnect = {time}
    DependencyMaps <- Manifests
    Updates <- CloudUpdates
    MaxCallbacks = 2
    MaxFailures = 1
INVARIANTS
    PendingOnlyIfUnfinished
    NoOldOutcomeShown
    LastOutcomeShown
    SummaryMatchesTwin
PROPERTY
    CallbacksReturn
CHECK_DEADLOCK FALSE
