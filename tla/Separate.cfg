SPECIFICATION Spec
CONSTANTS
    Names = {"old", "oldchain", "new", "newchain", "own"}
    NoName = "-"
    Callers = {"c1", "c2", "c3"}
    Clients = {"session", "client"}
    Explicit = {"session"}
    ClientOf <- SeparateClients
    NoCaller = "nobody"
    Templates = {"web", "api"}
    Requests <- SeparateRequests
    InitialConfigs <- SharedConfigs
    OperatorBindings = {}
    Coordinated = TRUE
    Foreign = {}
    Limit <- SeparateLimit
INVARIANTS
    ManagedWritesExclusive
    RolledBackMeansRestored
    StagedMaterialStays
PROPERTY ImplementsStore
