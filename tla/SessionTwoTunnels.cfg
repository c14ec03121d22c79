\* Two Databases that connect at the same time.
CONSTANTS
    k1 = k1  k2 = k2  d1 = d1  d2 = d2  d3 = d3  c1 = c1  c2 = c2  c3 = c3
    None = None
    Keys <- TwoKeys
    Dbs <- TwoDbs
    Calls <- TwoCalls
    Ssh = TRUE
    MayInterrupt = FALSE
    MayReuse = FALSE
SPECIFICATION Spec
CHECK_DEADLOCK FALSE
INVARIANTS ListeningIsKept
