---------------------------- MODULE RequestCancel ----------------------------
(***************************************************************************)
(* query(), execute() and cancel() of the SQL Server and SQLite adapters,  *)
(* for one query object whose text has several statements.                 *)
(*                                                                         *)
(* Neither adapter needs a second connection to cancel.  SQL Server's      *)
(* driver sends the text as one request, which cancel() marks while it     *)
(* waits for a connection and interrupts by an attention when it runs.     *)
(* SQLite opens a handle for each execute(), issues all statements at      *)
(* once, and cancel() interrupts the one the handle is executing.          *)
(*                                                                         *)
(* The statements of a run are numbered; `at` is the one that is being     *)
(* executed or comes next.                                                 *)
(***************************************************************************)
EXTENDS Naturals

CONSTANTS
    Runs,       \* calls of execute()
    Cancels,    \* calls of cancel()
    Size,       \* the most statements the text has
    None

ASSUME RequestAssumption ==
    /\ Size \in Nat \ {0}
    /\ None \notin Runs

VARIABLES
    adapter,    \* "sqlserver" or "sqlite"
    size,       \* how many statements the text has
    current,    \* queryRequest, queryConnection: named by the run that made it
    pc,         \* where the request or the handle of a run is
    outcome,    \* how the promise of execute() settled
    at,         \* the statement of a run
    executing,  \* the database is executing this statement
    failed,     \* a statement of the run has failed
    stop,       \* its request is marked or its attention sent, its handle interrupted
    answer,     \* what a call of cancel() got
    of          \* the run it was meant for

config     == <<adapter, size>>
runVars    == <<pc, outcome, at, executing, failed, stop>>
cancelVars == <<answer, of>>
vars       == <<config, current, runVars, cancelVars>>

Over(r) == at[r] > size

\* The promise of a run takes the first result that is offered.
Settles(r, result) ==
    outcome' = [outcome EXCEPT ![r] = IF outcome[r] = "none" THEN result ELSE outcome[r]]

-----------------------------------------------------------------------------
(* The callers.                                                            *)

\* execute() of SQL Server creates its request at once and waits for a connection
\* of the pool.  SQLite opens a handle first, and until then cancel() gets what an
\* earlier execute() left.
Execute(r) ==
    /\ pc[r] = "idle"
    /\ pc' = [pc EXCEPT ![r] = "opening"]
    /\ current' = IF adapter = "sqlserver" THEN r ELSE current
    /\ UNCHANGED <<config, outcome, at, executing, failed, stop, cancelVars>>

CancelRefused(k) ==
    /\ answer[k] = "none" /\ current = None
    /\ answer' = [answer EXCEPT ![k] = "refused"]
    /\ UNCHANGED <<config, current, runVars, of>>

\* Request.cancel() marks a request that waits, interrupts one that runs, and does
\* nothing to one that has ended.  The mutant only marks.
RequestMarks(r) == pc[r] = "opening"
RequestStops(r) == pc[r] \in {"opening", "open"}

CancelRequest(k) ==
    /\ adapter = "sqlserver"
    /\ answer[k] = "none" /\ current # None
    /\ answer' = [answer EXCEPT ![k] = "accepted"]
    /\ of' = [of EXCEPT ![k] = current]
    /\ stop' = [stop EXCEPT ![current] = stop[current] \/ RequestStops(current)]
    /\ UNCHANGED <<config, current, pc, outcome, at, executing, failed>>

\* Database.interrupt() throws on a closed handle, and reaches a statement that is
\* being executed: between two statements it is lost.
Interrupt(k) ==
    /\ adapter = "sqlite"
    /\ answer[k] = "none" /\ current # None
    /\ of' = [of EXCEPT ![k] = current]
    /\ IF pc[current] = "closed"
       THEN /\ answer' = [answer EXCEPT ![k] = "error"]
            /\ UNCHANGED stop
       ELSE /\ answer' = [answer EXCEPT ![k] = "accepted"]
            /\ stop' = [stop EXCEPT ![current] = stop[current] \/ executing[current]]
    /\ UNCHANGED <<config, current, pc, outcome, at, executing, failed>>

-----------------------------------------------------------------------------
(* The drivers and the databases.                                          *)

\* The pool has a connection for the request, which may have been canceled.
Acquired(r) ==
    /\ adapter = "sqlserver" /\ pc[r] = "opening"
    /\ IF stop[r]
       THEN pc' = [pc EXCEPT ![r] = "closed"] /\ Settles(r, "canceled")
       ELSE pc' = [pc EXCEPT ![r] = "open"] /\ UNCHANGED outcome
    /\ UNCHANGED <<config, current, at, executing, failed, stop, cancelVars>>

\* The handle is open, and cancel() gets to know it.
Opened(r) ==
    /\ adapter = "sqlite" /\ pc[r] = "opening"
    /\ pc' = [pc EXCEPT ![r] = "open"]
    /\ current' = r
    /\ UNCHANGED <<config, outcome, at, executing, failed, stop, cancelVars>>

\* The pool gives no connection, the file cannot be opened.
OpenFails(r) ==
    /\ pc[r] = "opening"
    /\ pc' = [pc EXCEPT ![r] = "closed"]
    /\ Settles(r, "error")
    /\ UNCHANGED <<config, current, at, executing, failed, stop, cancelVars>>

Begin(r) ==
    /\ pc[r] = "open" /\ ~executing[r] /\ ~Over(r)
    /\ executing' = [executing EXCEPT ![r] = TRUE]
    /\ UNCHANGED <<config, current, pc, outcome, at, failed, stop, cancelVars>>

\* SQL Server has executed a statement; some errors end the whole batch.
RequestStep(r) ==
    /\ adapter = "sqlserver" /\ executing[r]
    /\ executing' = [executing EXCEPT ![r] = FALSE]
    /\ \/ /\ at' = [at EXCEPT ![r] = @ + 1]
          /\ UNCHANGED failed
       \/ \E next \in {at[r] + 1, size + 1} :
            /\ at' = [at EXCEPT ![r] = next]
            /\ failed' = [failed EXCEPT ![r] = TRUE]
    /\ UNCHANGED <<config, current, pc, outcome, stop, cancelVars>>

\* The error code says whether the run was canceled; one mutant marks every error,
\* the other passes the code on.
MarkCode(canceled)  == IF canceled THEN "ECANCEL" ELSE "error"
MarkEvery(canceled) == IF canceled \in BOOLEAN THEN "canceled" ELSE "error"
Mark(canceled)      == IF canceled THEN "canceled" ELSE "error"

\* The response is complete.  The driver may have sent an attention meanwhile, and
\* reports the cancellation then.
RequestEnds(r) ==
    /\ adapter = "sqlserver" /\ pc[r] = "open" /\ Over(r)
    /\ pc' = [pc EXCEPT ![r] = "closed"]
    /\ \/ Settles(r, IF failed[r] THEN Mark(FALSE) ELSE "rows")
       \/ stop[r] /\ Settles(r, Mark(TRUE))
    /\ UNCHANGED <<config, current, at, executing, failed, stop, cancelVars>>

\* The attention reaches the server, which gives up the batch; in the mutant it
\* gives up a statement.
AttentionSkips(r) ==
    /\ adapter = "sqlserver" /\ pc[r] = "open" /\ stop[r] /\ ~Over(r)
    /\ executing' = [executing EXCEPT ![r] = FALSE]
    /\ at' = [at EXCEPT ![r] = @ + 1]
    /\ Settles(r, Mark(TRUE))
    /\ UNCHANGED <<config, current, pc, failed, stop, cancelVars>>
Attention(r) ==
    /\ adapter = "sqlserver" /\ pc[r] = "open" /\ stop[r] /\ ~Over(r)
    /\ executing' = [executing EXCEPT ![r] = FALSE]
    /\ pc' = [pc EXCEPT ![r] = "closed"]
    /\ Settles(r, Mark(TRUE))
    /\ UNCHANGED <<config, current, at, failed, stop, cancelVars>>

\* SQLite has executed a statement: Promise.all has its results when it was the
\* last one.  An interrupt may come too late for it.
StatementEnds(r) ==
    /\ adapter = "sqlite" /\ executing[r]
    /\ executing' = [executing EXCEPT ![r] = FALSE]
    /\ at' = [at EXCEPT ![r] = @ + 1]
    /\ stop' = [stop EXCEPT ![r] = FALSE]
    /\ IF at[r] = size THEN Settles(r, "rows") ELSE UNCHANGED outcome
    /\ UNCHANGED <<config, current, pc, failed, cancelVars>>

\* A statement fails or is interrupted: the promise is rejected, and the statements
\* after it, which have been issued, are executed all the same.
StatementFails(r) ==
    /\ adapter = "sqlite" /\ executing[r]
    /\ executing' = [executing EXCEPT ![r] = FALSE]
    /\ at' = [at EXCEPT ![r] = @ + 1]
    /\ stop' = [stop EXCEPT ![r] = FALSE]
    /\ failed' = [failed EXCEPT ![r] = TRUE]
    /\ \/ Settles(r, Mark(FALSE))
       \/ stop[r] /\ Settles(r, Mark(TRUE))
    /\ UNCHANGED <<config, current, pc, cancelVars>>

\* The finally of runWithConnection(); the mutant closes the handle on success only.
AfterSuccess(r) == outcome[r] = "rows"
Finally(r)      == outcome[r] # "none"

\* db.close() waits for the statements that have been issued.
Closed(r) ==
    /\ adapter = "sqlite" /\ pc[r] = "open"
    /\ Finally(r) /\ Over(r)
    /\ pc' = [pc EXCEPT ![r] = "closed"]
    /\ UNCHANGED <<config, current, outcome, at, executing, failed, stop, cancelVars>>

-----------------------------------------------------------------------------
Init ==
    /\ adapter \in {"sqlserver", "sqlite"}
    /\ size \in 1..Size
    /\ current = None
    /\ pc = [r \in Runs |-> "idle"]
    /\ outcome = [r \in Runs |-> "none"]
    /\ at = [r \in Runs |-> 1]
    /\ executing = [r \in Runs |-> FALSE]
    /\ failed = [r \in Runs |-> FALSE]
    /\ stop = [r \in Runs |-> FALSE]
    /\ answer = [k \in Cancels |-> "none"]
    /\ of = [k \in Cancels |-> None]

Connected(r) == Acquired(r) \/ Opened(r) \/ OpenFails(r)
Ended(r)     == RequestEnds(r) \/ Attention(r) \/ Closed(r)

Next ==
    \/ \E r \in Runs : Execute(r) \/ Connected(r) \/ Begin(r) \/ Ended(r)
    \/ \E r \in Runs : RequestStep(r) \/ StatementEnds(r) \/ StatementFails(r)
    \/ \E k \in Cancels : CancelRefused(k) \/ CancelRequest(k) \/ Interrupt(k)

Spec == Init /\ [][Next]_vars

\* Pools and files answer, attentions arrive, responses end and handles close.  An
\* interrupted statement ends, one that is not may run for ever.
Interrupted(r) == stop[r] /\ (StatementEnds(r) \/ StatementFails(r))

Fairness ==
    \A r \in Runs : /\ WF_vars(Connected(r))
                    /\ WF_vars(Begin(r))
                    /\ WF_vars(Ended(r))
                    /\ WF_vars(Interrupted(r))

FairSpec == Spec /\ Fairness

-----------------------------------------------------------------------------
(* Properties.                                                             *)

\* Every variable has its type.
TypeOK ==
    /\ adapter \in {"sqlserver", "sqlite"}
    /\ size \in 1..Size
    /\ current \in Runs \cup {None}
    /\ pc \in [Runs -> {"idle", "opening", "open", "closed"}]
    /\ outcome \in [Runs -> {"none", "rows", "error", "canceled"}]
    /\ at \in [Runs -> 1..(size + 1)]
    /\ {executing, failed, stop} \subseteq [Runs -> BOOLEAN]
    /\ answer \in [Cancels -> {"none", "refused", "accepted", "error"}]
    /\ of \in [Cancels -> Runs \cup {None}]

CanceledIsAsked ==
    \A r \in Runs : outcome[r] = "canceled" =>
        \E k \in Cancels : of[k] = r /\ answer[k] = "accepted"
RowsMeanSuccess ==
    \A r \in Runs : outcome[r] = "rows" => Over(r) /\ ~failed[r]

\* An execute() is reported as canceled by the user only if a cancel() was made
\* for this very execution, also when the query is executed again, and was not
\* refused (sqlserver.ts 480-485, sqlite.ts 92-97).  Rows are returned only when all
\* statements have been executed and none has failed, although they settle the promise
\* one by one (sqlite.ts 262-275).
OutcomesAreMeant == CanceledIsAsked /\ RowsMeanSuccess

\* After a cancellation SQL Server executes no further statement of the text.
\* SQLite does, unless there is only one: the others have been issued.
NothingAfterCancel ==
    [][adapter = "sqlserver" \/ size = 1 =>
         \A r \in Runs : outcome[r] = "canceled" => ~executing'[r] /\ at'[r] = at[r]]_vars

\* A cancel() that finds a request of SQL Server settles its execute(), whether it
\* waits for a connection or runs, and even if its statement would never end
\* (sqlserver.ts 490-496).
CancelSettlesRequest ==
    \A r \in Runs : adapter = "sqlserver" /\ (\E k \in Cancels : of[k] = r)
                        ~> outcome[r] # "none"

\* A handle of SQLite is closed when its statements are over, also after an error
\* or an interrupt (sqlite.ts 292-295).
HandlesClose ==
    \A r \in Runs : adapter = "sqlite" /\ Over(r) ~> pc[r] = "closed"
=============================================================================
