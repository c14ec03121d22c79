\* All adapters, three tables, old and new PostgreSQL servers.
CONSTANTS
    t1 = t1  t2 = t2  t3 = t3
    Tables <- ThreeTables
    ServerVersions <- Reported
SPECIFICATION Spec
CHECK_DEADLOCK FALSE
INVARIANTS TypeOK ResolvedIsClean AllOrNothing PoolIsClean CascadesIfSupported
