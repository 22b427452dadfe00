SPECIFICATION Spec
CONSTANTS
    Names = {"old", "oldchain", "new", "newchain", "other"}
    NoName = "-"
    Callers = {"c1"}
    Clients = {"client"}
    Explicit = {}
    ClientOf <- OneClient
    NoCaller = "nobody"
    Templates = {"web", "api", "fresh"}
    Requests <- AloneRequests
    InitialConfigs <- AloneConfigs
    OperatorBindings = {}
    Coordinated = TRUE
    Foreign = {}
    Limit <- AloneLimit
INVARIANTS
    TypeOK
    NoDanglingReference
    CompletedMeansRotated
    RolledBackMeansRestored
    CleanupSparesStartup
PROPERTY ImplementsStore
