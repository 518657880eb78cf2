SPECIFICATION MCSpec
CONSTANTS
    Callers = {c1, c2}
    c1 = c1
    c2 = c2
    Monitor = Monitor
    NoThread = NoThread
    ReplayMessages = 2
    MayCrash = TRUE
    MayTimeOut = TRUE
    MayUnload = TRUE
    MayFailLaunch = TRUE
    QuietLoad = FALSE
INVARIANTS
    MonitorClosesOnlyDeadHost
    ShutdownWaitsForCalls
    WaitsOnOpenEvents
PROPERTIES
    OneHostAtATime
    UndisturbedOperationsEnd
CHECK_DEADLOCK FALSE
