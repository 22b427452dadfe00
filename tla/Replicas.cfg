SPECIFICATION Spec
CONSTANTS
    Names = {"old", "oldchain", "new", "newchain"}
    NoName = "-"
    Callers = {"c1", "c2"}
    Clients = {"c1", "c2"}
    Explicit = {}
    ClientOf <- OwnClient
    NoCaller = "nobody"
    Templates = {"web"}
    Requests <- ReplicaRequests
    InitialConfigs <- SharedConfigs
    OperatorBindings = {}
    Coordinated = TRUE
    Foreign = {}
    Limit <- NoFault
INVARIANT NoDanglingReference
