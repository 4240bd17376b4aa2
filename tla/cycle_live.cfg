SPECIFICATION FairSpec
CONSTANTS
    Containers <- Web
    Protected <- NoOne
    Digests <- Two
    None = None
    VersionOf <- TwoLabels
    Releases <- Notes
    Flagged <- NoOne
    MaxPublishes = 1
    MaxRequests = 1
    MaxOutages = 1
    MaxCrashes = 1
PROPERTIES
    EventuallyHandled
    TablesConverge
