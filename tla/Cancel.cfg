\* Both adapters: two queries, executed again, two cancels, a pool of two.
CONSTANTS
    q1 = q1  q2 = q2  r1 = r1  r2 = r2  k1 = k1  k2 = k2
    b1 = b1  b2 = b2  b3 = b3  b4 = b4
    None = None
    Queries <- TwoQueries
    Runs <- TwoRuns
    Cancels <- TwoCancels
    Conns <- FourConns
    PoolSize = 2
    Adapters <- Both
    Reexecute = TRUE
SPECIFICATION FairSpec
CHECK_DEADLOCK FALSE
INVARIANTS TypeOK PoolConserved CanceledIsHonest CancelingIsMeant
PROPERTIES AcceptedEndsRun CancelSettles
