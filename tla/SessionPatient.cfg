\* Callers wait for connect() and drop forgotten Databases, with a tunnel.
CONSTANTS
    k1 = k1  k2 = k2  d1 = d1  d2 = d2  d3 = d3  c1 = c1  c2 = c2  c3 = c3
    None = None
    Keys <- TwoKeys
    Dbs <- ThreeDbs
    Calls <- TwoCalls
    Ssh = TRUE
    MayInterrupt = FALSE
    MayReuse = FALSE
SPECIFICATION Spec
SYMMETRY Symmetry
CHECK_DEADLOCK FALSE
INVARIANTS OneAttemptPerDatabase ResolvedIsOwned
PROPERTIES ContractSpec
