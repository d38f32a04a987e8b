CONSTANTS
    Size = 2
    Host <- MCHost
    BasePort = 7000
    Range = 2
    Envs = {"fd", "port", "portOnly", "alone"}
SPECIFICATION FairSpec
INVARIANTS
    IdentityKept
    TablesRight
    EndpointsDistinct
    AbortOnlyIfManagerLost
    AloneNeverReady
PROPERTIES
    ImplementsExchange
    Resolved
CHECK_DEADLOCK FALSE
