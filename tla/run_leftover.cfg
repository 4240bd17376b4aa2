SPECIFICATION Spec
CONSTANTS
    Images = {A, B}
    Faults <- ErrorOnly
    MaxUpdates = 1
    MaxCrashes = 0
CHECK_DEADLOCK FALSE
INVARIANT NoLeftover
