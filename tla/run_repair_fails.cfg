SPECIFICATION Spec
CONSTANTS
    Images = {A, B}
    Faults <- CrashOnly
    MaxUpdates = 1
    MaxCrashes = 1
CHECK_DEADLOCK FALSE
INVARIANT RepairNeverFails
