SPECIFICATION Spec
CONSTANTS
    web = web
    long = long
    manual = manual
    chain = chain
    odd = odd
    k1 = k1
    k2 = k2
    kI = kI
    kR = kR
    kX = kX
    none = none
    secret = secret
    Word = {web, long, manual, chain}
    Odd = odd
    Chain = chain
    Certificate <- Certificates
    NoLock = none
    Inputs <- ChainInputs
    NamePrefixes <- ClashingPrefixes
    ImportNames <- Names
    NameLimit = 3
    MaxTime = 1
    Limit <- MaterialLimit
INVARIANTS TypeOK  NamesIdentify StagedVerifies
CHECK_DEADLOCK FALSE
