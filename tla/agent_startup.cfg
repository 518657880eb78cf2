SPECIFICATION StartupSpec
CONSTANTS
    N = 3
    MaxDependencies = 2
    Manifests = 2
    Static = {2}
INVARIANTS
    SequenceServesHandlers
CHECK_DEADLOCK FALSE
