SPECIFICATION Spec
CONSTANTS
    Names = {"old", "oldchain", "new", "newchain"}
    NoName = "-"
    Callers = {"c1"}
    Clients = {"client"}
    Explicit = {}
    ClientOf <- OneClient
    NoCaller = "nobody"
    Templates = {"web"}
    Requests <- WebRequests
    InitialConfigs <- SharedConfigs
    OperatorBindings = {}
    Coordinated = TRUE
    Foreign = {}
    Limit <- OneFault
INVARIANT CompletedIsPersisted
