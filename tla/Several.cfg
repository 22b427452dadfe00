SPECIFICATION FairSpec
CONSTANTS
    Names = {"old", "oldchain", "new", "newchain", "other"}
    NoName = "-"
    Callers = {"c1"}
    Clients = {"client"}
    Explicit = {}
    ClientOf <- OneClient
    NoCaller = "nobody"
    Templates = {"web"}
    Requests <- SeveralRequests
    InitialConfigs <- SeveralConfigs
    OperatorBindings = {}
    Coordinated = TRUE
    Foreign = {}
    Limit <- OneFault
PROPERTY Converges
