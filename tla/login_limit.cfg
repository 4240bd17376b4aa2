\* Two browsers of one address.
SPECIFICATION AccountsSpec
CONSTANTS
    Browsers = {b1, b2}
    Remotes = {"lan"}
    RemoteOf <- HomeOf
    Names = {"ann", "bob"}
    MaxFails = 2
    Window = 2
INVARIANTS
    FailuresLimited
