SPECIFICATION FairSpec
CONSTANTS
    AgentCallers = {a1, a2}
    HostCallers = {}
    AgentRP = AgentRP
    HostRP = HostRP
    MaxPayloadSize = 2
    Sizes = {1, 2, 5}
    PipeCapacity = 2
    CallIds = 3
    NoThread = NoThread
    NoMessage = NoMessage
    a1 = a1
    a2 = a2
INVARIANTS
    HostReplyIsOwn
    QueuedMessagesIntact
PROPERTIES
    CallsReturn
    ImplementsSynchronousCall
