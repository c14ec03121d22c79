\* PostgreSQL: the connection of the canceled query serves another one by the time of the kill.
CONSTANTS
    q1 = q1  q2 = q2  r1 = r1  r2 = r2  k1 = k1  k2 = k2
    b1 = b1  b2 = b2  b3 = b3  b4 = b4
    None = None
    Queries <- TwoQueries
    Runs <- TwoRuns
    Cancels <- OneCancel
    Conns <- TwoConns
    PoolSize = 2
    Adapters <- Postgresql
    Reexecute = FALSE
SPECIFICATION Spec
CHECK_DEADLOCK FALSE
PROPERTIES KillsOnlyItsQuery
