SPECIFICATION FairSpec
CONSTANTS
    Names = {"old", "oldchain", "new", "newchain"}
    NoName = "-"
    Callers = {"c1", "c2"}
    Clients = {"client"}
    Explicit = {}
    ClientOf <- OneClient
    NoCaller = "nobody"
    Templates = {"web", "api"}
    Requests <- SharedRequests
    InitialConfigs <- SharedConfigs
    OperatorBindings = {}
    Coordinated = TRUE
    Foreign = {}
    Limit <- SharedLimit
INVARIANTS
    ManagedWritesExclusive
    NoDanglingReference
    NothingLeftBehind
    StagedMaterialStays
 
