SPECIFICATION Spec
CONSTANTS
    Containers <- Web
    Protected <- NoOne
    Digests <- Images
    None = None
    VersionOf <- Labels
    Releases <- Notes
    Flagged <- NoOne
    MaxPublishes = 2
    MaxRequests = 1
    MaxOutages = 1
    MaxCrashes = 1
INVARIANTS
    TypeOK
    ReplacesWhatItSaw
    AnnouncedOnce
    RecordedWasTold
    TriedOnce
PROPERTIES
    QuietCycleIsSafe
