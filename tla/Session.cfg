SPECIFICATION FairSpec
CONSTANTS
    Users = {"u1", "u2", "u3"}
    Nobody = "nobody"
    Partitions = {"number", "unknown"}
    MaxID = 7
    Spelling <- MCSpelling
    Shared = "shared"
    Inventory <- NumberedPartition
    Configurations <- AnyPartition
    Length = 2
INVARIANTS
    TypeOK
    LogoffNeverRaces
    LogoffOnce
    RequestsInPartition
    FailedStartLogsOff
PROPERTY CallsReturn
