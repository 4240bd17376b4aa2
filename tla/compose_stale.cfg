SPECIFICATION Spec
CONSTANTS
    Images = {A, B, C}
    None = None
    Faults <- AllFaults
    MaxUpdates = 2
    MaxCrashes = 1
PROPERTIES
    VerifiedStays

\* The program really may stop: without a container there is nothing to update.
CHECK_DEADLOCK FALSE
