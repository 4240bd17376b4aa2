\* The adapter for docker run with crashes, or one of the seven parts.
SPECIFICATION RunPartsSpec
CONSTANTS
    Images = {A, B}
    Faults <- CrashOnly
    MaxUpdates = 2
    MaxCrashes = 2
    Services = {"web", "app"}
    ComposeServices = {"web"}
    ImageIds = {X, Y, Z}
    NoImage = NoImage
    Retention = 1
    MaxJobs = 3
    Browsers = {b1, b2}
    Remotes = {"lan"}
    RemoteOf <- HomeOf
    Names = {"ann", "bob"}
    MaxFails = 2
    Window = 2
    Handlers = {h1, h2}
    JobKeys = {"web", "check"}
    CheckKey = "check"
    NoOne = NoOne
    Editors = {e1, e2}
    NotifierIds = {"n1"}
    Secrets = {"s", "t"}
    Mask = Mask
    Endpoints = {"p"}
    Askers = {a1, a2}
    MaxStarts = 4
    MaxTokens = 4
    Windows = {1, 3}
    BaseWindow = 1
    MaxRestarts = 2
    Slack = 1
    MaxDeaths = 3
    Callers = {c1, c2}
    MaxReleases = 2
INVARIANTS
    JournalCoversDamage
    RepairFailsOnlyOnOrphan
    TypesOK
    UndoImageKept
    RollbackStaysPossible
    FailuresBounded
    OneAccountUnlessLate
    ExitLeavesNoWork
    SecretIsLastTyped
    EveryoneTold
    KeysMatch
    TokensBounded
    VerdictInTime
    NotesWereCurrent
PROPERTIES
    RepairCompletes
    KeepsContract
    OldImagesGo
    LockEnds
    ShutdownEnds
    DeletedStaysDeleted
    GoneIsForgotten
    KeysStay
\* The process ends, updates and releases are bounded, and so are starts.
CHECK_DEADLOCK FALSE
