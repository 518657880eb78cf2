SPECIFICATION MCSpec
CONSTANTS
    Callers = {c1, c2}
    c1 = c1
    c2 = c2
    Monitor = Monitor
    NoThread = NoThread
    ReplayMessages = 2
    MayCrash = TRUE
    MayTimeOut = FALSE
    MayUnload = FALSE
    MayFailLaunch = FALSE
    QuietLoad = TRUE
PROPERTIES
    OperationsEnd
CHECK_DEADLOCK FALSE
