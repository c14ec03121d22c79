\* Callers follow the contract, without a tunnel.
CONSTANTS
    k1 = k1  k2 = k2  d1 = d1  d2 = d2  c1 = c1  c2 = c2  c3 = c3  o1 = o1
    None = None
    Keys <- TwoKeys
    Dbs <- TwoDbs
    Calls <- ThreeCalls
    Ops <- OneOp
    Ssh = FALSE
    MayInterrupt = FALSE
    MayReuse = FALSE
SPECIFICATION ApiFairSpec
CHECK_DEADLOCK FALSE
INVARIANTS OpenIsOwned ScriptsLoseTheirAdapter
PROPERTIES ContractFairSpec OperationsReachOpen
