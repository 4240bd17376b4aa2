SPECIFICATION FairSpec
CONSTANTS
    Images = {A, B, C}
    None = None
    Faults <- AllFaults
    MaxUpdates = 3
    MaxCrashes = 2
INVARIANTS
    TypeOK
    OutcomeIsTrue
    DownIsCovered
PROPERTIES
    RepairCompletes
    CleanRepairKeepsVerified
    KeepsContract
\* The program really may stop: without a container there is nothing to update.
CHECK_DEADLOCK FALSE
