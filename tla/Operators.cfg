SPECIFICATION Spec
CONSTANTS
    Names = {"old", "oldchain", "new", "newchain", "other"}
    NoName = "-"
    Callers = {"c1"}
    Clients = {"client"}
    Explicit = {}
    ClientOf <- OneClient
    NoCaller = "nobody"
    Templates = {"web"}
    Requests <- OperatorsRequests
    InitialConfigs <- OperatorsConfigs
    OperatorBindings <- OperatorsBindings
    Coordinated = FALSE
    Foreign = {}
    Limit <- OperatorsLimit
INVARIANT
    KeptReferencesStay
PROPERTIES
    ConflictStops
    PinnedCourse
