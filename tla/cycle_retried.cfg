SPECIFICATION Spec
CONSTANTS
    Containers <- Web
    Protected <- NoOne
    Digests <- Images
    None = None
    VersionOf <- Labels
    Releases <- Notes
    Flagged <- NoOne
    MaxPublishes = 2
    MaxRequests = 0
    MaxOutages = 0
    MaxCrashes = 0
PROPERTIES
    FailedNotRetried
