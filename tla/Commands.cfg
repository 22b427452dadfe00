SPECIFICATION Spec
CONSTANTS
    Names = {"a", "a-chain", "old", "oldkey"}
    NoName = "-"
    Shells = {"s1", "s2"}
    Templates = {"web"}
    Bundles = {"b0", "b1", "b2"}
    ChainName <- ChainNames
    Absent = absent
    Scripts <- TwoShells
    InitialConfigs <- Initially
    Releases = {TRUE, FALSE}
    Limit <- OneOfEach
INVARIANTS TypeOK KeyComesFirst
PROPERTIES ExitZeroIsDone MissingMeansChanged UnsupportedUntouched ImplementsStore
