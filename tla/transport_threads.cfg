SPECIFICATION Spec
CONSTANTS
    AgentCallers = {a1, a2}
    HostCallers = {h1}
    AgentRP = AgentRP
    HostRP = HostRP
    MaxPayloadSize = 2
    Sizes = {1, 2}
    PipeCapacity = 2
    CallIds = 2
    NoThread = NoThread
    NoMessage = NoMessage
    a1 = a1
    a2 = a2
    h1 = h1
INVARIANTS
    WakeupsAreBacked
    AgentReplyIsOwn
SYMMETRY Symmetry
CHECK_DEADLOCK FALSE
