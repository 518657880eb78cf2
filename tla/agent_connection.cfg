SPECIFICATION BridgedSpec
CONSTANTS
    Handles = {h1, h2, h3}
    h1 = h1
    h2 = h2
    h3 = h3
    NoHandle = NoHandle
    Apps = {a1, a2}
    a1 = a1
    a2 = a2
    ScopeIds = {"s1", ""}
    DpsSettings = {TRUE, FALSE}
    Failures = {"setup", "platform", "client", "notifications", "provisioning", "stop"}
INVARIANTS
    ConnectionHeldAndUsed
    StopSeenBeforeConnecting
    CallsFindAccess
    ScopeIdEndsWait
CONSTRAINT SettersTogether
SYMMETRY Symmetry
CHECK_DEADLOCK FALSE
