\* Any Docker call may fail, with or without its effect, and the process may die.
SPECIFICATION Spec
CONSTANTS
    Images = {A, B}
    Faults <- DockerFaults
    MaxUpdates = 3
    MaxCrashes = 2
\* A failed rollback can leave no container under the name of the service.
CHECK_DEADLOCK FALSE
INVARIANTS
    TypeOK
    AtMostOneRunning
    KnownGoodSurvives
    OutcomeIsTrue
