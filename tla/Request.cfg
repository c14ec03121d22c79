\* SQL Server and SQLite: two executions of a text of one to three statements, two cancels.
CONSTANTS
    r1 = r1  r2 = r2  k1 = k1  k2 = k2
    None = None
    Runs <- TwoRuns
    Cancels <- TwoCancels
    Size = 3
SPECIFICATION FairSpec
CHECK_DEADLOCK FALSE
INVARIANTS TypeOK OutcomesAreMeant
PROPERTIES NothingAfterCancel CancelSettlesRequest HandlesClose
