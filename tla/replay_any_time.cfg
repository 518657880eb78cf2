SPECIFICATION Spec
CONSTANTS
    N = 3
    Inactive = {2}
    Failing = {3}
INVARIANTS
    HostAgreesWithRecord
CHECK_DEADLOCK FALSE
