SPECIFICATION FairSpec
CONSTANTS
    home = home
    shop = shop
    s1 = s1
    s2 = s2
    NoSsid = NoSsid
    Nets <- MCNets
    SsidOf <- MCTwoSsids
    CredMax = 2
    RetryMax = 2
    PinMax = 1
    MaxBurst = 2
    ApIdle = TRUE
INVARIANTS
    JoinUsesACredential
    SocketsFollowState
    ConfirmedWasAcked
    OneEntryPerNetwork
    MemoryMatchesFlash
    OnlyTheAuthenticatedConfigures
PROPERTIES
    JoinTerminates
    WindowIsEnforced
