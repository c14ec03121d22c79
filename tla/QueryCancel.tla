---------------------------- MODULE QueryCancel ----------------------------
(***************************************************************************)
(* query(), execute() and cancel() of the PostgreSQL and MySQL adapters,   *)
(* over a pool of connections, with createCancelablePromise() of utils.ts. *)
(*                                                                         *)
(* execute() takes a connection, asks for its backend's pid, and races the *)
(* statement against a promise that polls for a cancellation.  cancel()    *)
(* takes ANOTHER connection of the same pool to kill that pid.  The two    *)
(* adapters differ in what a kill does: pg_cancel_backend interrupts the   *)
(* backend's current statement, MySQL's KILL closes its connection.        *)
(*                                                                         *)
(* A connection stands for its backend and its pid.  A job is a run or a   *)
(* cancel: the statement it has sent is a message to the backend, and the  *)
(* reply to it a message back.                                             *)
(***************************************************************************)
EXTENDS Naturals, Sequences, FiniteSets

CONSTANTS
    Queries,            \* the objects query() returns
    Runs,               \* calls of execute()
    Cancels,            \* calls of cancel()
    Conns,              \* connections the pool ever opens
    PoolSize,           \* how many it has open at a time
    None,
    Adapters,           \* the adapters considered, "postgresql" or "mysql"
    Reexecute           \* callers call execute() of one query more than once

Jobs == Runs \cup Cancels

ASSUME QueryAssumption ==
    /\ PoolSize \in Nat \ {0}
    /\ Adapters \subseteq {"postgresql", "mysql"}
    /\ Reexecute \in BOOLEAN
    /\ Runs \cap Cancels = {}
    /\ None \notin Queries \cup Jobs \cup Conns

VARIABLES
    adapter,        \* the adapter whose pool this is
    pid,            \* the variable of query(): the connection to kill
    canceling,      \* the variable of query()
    canceled,       \* the two variables of its createCancelablePromise()
    discarded,
    runPc, runOf, runConn, outcome,     \* a call of execute() and how it settled
    cancelPc, cancelOf, target,         \* a call of cancel() and the pid it read
    waiting,        \* the jobs the pool makes wait, first come first served
    holder,         \* the job a connection is checked out to
    conn,           \* the state of a connection
    queue,          \* the statements sent on it and not answered, by their jobs
    reply           \* what became of the first of them: the answer is on its way back

queryVars  == <<pid, canceling, canceled, discarded>>
runVars    == <<runPc, runOf, runConn, outcome>>
cancelVars == <<cancelPc, cancelOf, target>>
vars       == <<adapter, queryVars, runVars, cancelVars, waiting, holder, conn, queue, reply>>

-----------------------------------------------------------------------------
\* What a kill does: MySQL's closes the connection.
KillsConnection == adapter = "mysql"

Racing(r) == runPc[r] = "racing"

\* connection.release(), and its mutant without.
Kept(b)     == b \in Conns /\ UNCHANGED holder
Released(b) == holder' = [holder EXCEPT ![b] = None]

\* cancelable.wait(): what a poll finds.  The mutants take the word of cancel()
\* before the kill, or look at `discarded` alone.
WaitForAsked(q) ==
    IF canceling[q] THEN "canceled" ELSE IF discarded[q] THEN "undefined" ELSE "none"
WaitDeaf(q) == IF discarded[q] THEN "undefined" ELSE "none"
WaitResult(q) ==
    IF canceled[q] THEN "canceled" ELSE IF discarded[q] THEN "undefined" ELSE "none"

\* The end of the try statement of execute(): `pid = null` is part of the
\* success path only, discard() and the release of the connection of every path.
EndRun(r, result) ==
    LET q == runOf[r] IN
    /\ runPc' = [runPc EXCEPT ![r] = "done"]
    /\ outcome' = [outcome EXCEPT ![r] = result]
    /\ discarded' = [discarded EXCEPT ![q] = TRUE]
    /\ Released(runConn[r])

\* The race is won by the statement, which was answered by a.
StatementWins(r, a) ==
    LET q == runOf[r]
        marked == a = "killed" /\ canceling[q] IN
    /\ EndRun(r, IF a = "ok" THEN "rows" ELSE IF marked THEN "marked" ELSE "error")
    /\ pid' = IF a = "ok" THEN [pid EXCEPT ![q] = None] ELSE pid
    /\ canceling' = IF marked THEN [canceling EXCEPT ![q] = FALSE] ELSE canceling

\* A job fails: a run before its try statement, a cancel() in it.  The mutant
\* forgets `canceling = false`.
GiveUpKeepsCanceling(j) ==
    IF j \in Runs
    THEN /\ runPc' = [runPc EXCEPT ![j] = "done"]
         /\ outcome' = [outcome EXCEPT ![j] = "error"]
         /\ UNCHANGED <<canceling, cancelPc>>
    ELSE /\ cancelPc' = [cancelPc EXCEPT ![j] = "failed"]
         /\ UNCHANGED <<canceling, runPc, outcome>>
GiveUp(j) ==
    IF j \in Runs
    THEN /\ runPc' = [runPc EXCEPT ![j] = "done"]
         /\ outcome' = [outcome EXCEPT ![j] = "error"]
         /\ UNCHANGED <<canceling, cancelPc>>
    ELSE /\ cancelPc' = [cancelPc EXCEPT ![j] = "failed"]
         /\ canceling' = [canceling EXCEPT ![cancelOf[j]] = FALSE]
         /\ UNCHANGED <<runPc, outcome>>

-----------------------------------------------------------------------------
(* The callers.                                                            *)

\* New identities are taken in a fixed order.
IsNext(x, S) == S # {} /\ x = CHOOSE y \in S : TRUE

Execute(q, r) ==
    /\ IsNext(r, {x \in Runs : runPc[x] = "idle"})
    /\ Reexecute \/ \A x \in Runs : runOf[x] # q
    /\ runPc' = [runPc EXCEPT ![r] = "waiting"]
    /\ runOf' = [runOf EXCEPT ![r] = q]
    /\ waiting' = Append(waiting, r)
    /\ UNCHANGED <<adapter, queryVars, runConn, outcome, cancelVars, holder, conn, queue, reply>>

\* cancel() of a query without a pid.
CancelRefused(q, k) ==
    /\ IsNext(k, {x \in Cancels : cancelPc[x] = "idle"})
    /\ pid[q] = None
    /\ cancelPc' = [cancelPc EXCEPT ![k] = "refused"]
    /\ cancelOf' = [cancelOf EXCEPT ![k] = q]
    /\ UNCHANGED <<adapter, queryVars, runVars, target, waiting, holder, conn, queue, reply>>

\* The pid a cancel() kills; the mutant puts the query in its place.
QueryToKill(q) == q
PidToKill(q)   == pid[q]

Cancel(q, k) ==
    /\ IsNext(k, {x \in Cancels : cancelPc[x] = "idle"})
    /\ pid[q] # None
    /\ canceling' = [canceling EXCEPT ![q] = TRUE]
    /\ cancelPc' = [cancelPc EXCEPT ![k] = "waiting"]
    /\ cancelOf' = [cancelOf EXCEPT ![k] = q]
    /\ target' = [target EXCEPT ![k] = PidToKill(q)]
    /\ waiting' = Append(waiting, k)
    /\ UNCHANGED <<adapter, pid, canceled, discarded, runVars, holder, conn, queue, reply>>

-----------------------------------------------------------------------------
(* The pool.                                                               *)

\* A connection that is gone counts until the adapter knows.  The mutant opens
\* more than the limit.
Open == {b \in Conns : conn[b] \in {"open", "lost"}}
Idle == {b \in Open : holder[b] = None}
MayAlwaysOpen(b) == IsNext(b, {x \in Conns : conn[x] = "unused"}) /\ Idle = {}
MayOpen(b) == IsNext(b, {x \in Conns : conn[x] = "unused"}) /\ Idle = {} /\ Cardinality(Open) < PoolSize

\* The pool hands b to the job that waits longest, which sends its first statement.
Grant(b) ==
    /\ waiting # <<>>
    /\ b \in Idle \/ MayOpen(b)
    /\ LET j == Head(waiting) IN
         /\ holder' = [holder EXCEPT ![b] = j]
         /\ queue' = [queue EXCEPT ![b] = Append(@, j)]
         /\ IF j \in Runs
            THEN /\ runPc' = [runPc EXCEPT ![j] = "pid"]
                 /\ runConn' = [runConn EXCEPT ![j] = b]
                 /\ UNCHANGED cancelPc
            ELSE /\ cancelPc' = [cancelPc EXCEPT ![j] = "killing"]
                 /\ UNCHANGED <<runPc, runConn>>
    /\ waiting' = Tail(waiting)
    /\ conn' = [conn EXCEPT ![b] = IF @ = "unused" THEN "open" ELSE @]
    /\ UNCHANGED <<adapter, queryVars, runOf, outcome, cancelOf, target, reply>>

\* The pool cannot open the connection the job needs.
GrantFails ==
    /\ waiting # <<>>
    /\ \E b \in Conns : MayOpen(b)
    /\ GiveUp(Head(waiting))
    /\ waiting' = Tail(waiting)
    /\ UNCHANGED <<adapter, pid, canceled, discarded, runOf, runConn, cancelOf, target, holder,
                   conn, queue, reply>>

-----------------------------------------------------------------------------
(* The database server.                                                    *)

\* The first statement on a connection reaches its backend.
Begin(b) ==
    /\ conn[b] = "open" /\ queue[b] # <<>> /\ reply[b] = "none"
    /\ reply' = [reply EXCEPT ![b] = "busy"]
    /\ UNCHANGED <<adapter, queryVars, runVars, cancelVars, waiting, holder, conn, queue>>

\* A statement of a run has been executed; only the caller's own may be in error.
Serve(b) ==
    /\ conn[b] = "open" /\ reply[b] = "busy"
    /\ Head(queue[b]) \in Runs
    /\ \E a \in IF runPc[Head(queue[b])] = "pid" THEN {"ok"} ELSE {"ok", "err"} :
         reply' = [reply EXCEPT ![b] = a]
    /\ UNCHANGED <<adapter, queryVars, runVars, cancelVars, waiting, holder, conn, queue>>

\* A kill is executed.  PostgreSQL's hits what the target is busy with, or
\* nothing when the statement has not begun or has been answered; MySQL's closes
\* the connection.  A backend that kills itself answers with the interruption,
\* and no kill succeeds on a connection that has gone.
Kill(b) ==
    /\ conn[b] = "open" /\ reply[b] = "busy"
    /\ Head(queue[b]) \in Cancels
    /\ LET t == target[Head(queue[b])]
           alive == conn[t] = "open"
           hits == alive /\ reply[t] = "busy" /\ ~KillsConnection
       IN
         /\ reply' = [c \in Conns |->
               IF c = b THEN IF ~alive THEN "err" ELSE IF t = b THEN "killed" ELSE "ok"
               ELSE IF c = t /\ hits THEN "killed" ELSE reply[c]]
         /\ conn' = IF KillsConnection /\ alive THEN [conn EXCEPT ![t] = "lost"] ELSE conn
    /\ UNCHANGED <<adapter, queryVars, runVars, cancelVars, waiting, holder, queue>>

-----------------------------------------------------------------------------
(* The adapter receives what it waits for.                                 *)

Answered(b) == reply[b] \in {"ok", "err", "killed"}

\* The reply to a statement nobody waits for any more.
ReceiveOrphan(b) ==
    /\ Answered(b) /\ Head(queue[b]) # holder[b]
    /\ queue' = [queue EXCEPT ![b] = Tail(@)]
    /\ reply' = [reply EXCEPT ![b] = "none"]
    /\ UNCHANGED <<adapter, queryVars, runVars, cancelVars, waiting, holder, conn>>

\* `pid = ...`, and `pid = null` again if the race is lost to a discarded wait().
NotePid(q, b) == pid' = [pid EXCEPT ![q] = IF WaitResult(q) = "undefined" THEN None ELSE b]

\* The pid arrives; the statement is sent, and the race is over at once if an
\* earlier execute() of the query has been canceled or has ended.
ReceivePid(b) ==
    LET r == holder[b]
        q == runOf[r] IN
    /\ reply[b] = "ok" /\ Head(queue[b]) = r /\ r \in Runs /\ runPc[r] = "pid"
    /\ reply' = [reply EXCEPT ![b] = "none"]
    /\ queue' = [queue EXCEPT ![b] = Append(Tail(@), r)]
    /\ IF WaitResult(q) = "none"
       THEN /\ runPc' = [runPc EXCEPT ![r] = "racing"]
            /\ UNCHANGED <<outcome, discarded, holder>>
       ELSE EndRun(r, WaitResult(q))
    /\ NotePid(q, b)
    /\ UNCHANGED <<adapter, canceling, canceled, runOf, runConn, cancelVars, waiting, conn>>

\* The reply to the caller's statement arrives.
ReceiveRows(b) ==
    LET r == holder[b] IN
    /\ Answered(b) /\ Head(queue[b]) = r /\ r \in Runs /\ Racing(r)
    /\ StatementWins(r, reply[b])
    /\ reply' = [reply EXCEPT ![b] = "none"]
    /\ queue' = [queue EXCEPT ![b] = Tail(@)]
    /\ UNCHANGED <<adapter, canceled, runOf, runConn, cancelVars, waiting, conn>>

\* A poll of cancelable.wait() finds the query canceled or discarded; the
\* connection goes back to the pool with the statement still on it.
Poll(r) ==
    LET q == runOf[r] IN
    /\ Racing(r)
    /\ WaitResult(q) # "none"
    /\ EndRun(r, WaitResult(q))
    /\ pid' = IF WaitResult(q) = "undefined" THEN [pid EXCEPT ![q] = None] ELSE pid
    /\ UNCHANGED <<adapter, canceling, canceled, runOf, runConn, cancelVars, waiting, conn,
                   queue, reply>>

\* The kill has been executed: the promise of execute() may give up.
ReceiveKilled(b) ==
    LET k == holder[b] IN
    /\ reply[b] = "ok" /\ Head(queue[b]) = k /\ k \in Cancels
    /\ cancelPc' = [cancelPc EXCEPT ![k] = "accepted"]
    /\ canceled' = [canceled EXCEPT ![cancelOf[k]] = TRUE]
    /\ Released(b)
    /\ reply' = [reply EXCEPT ![b] = "none"]
    /\ queue' = [queue EXCEPT ![b] = Tail(@)]
    /\ UNCHANGED <<adapter, pid, canceling, discarded, runVars, cancelOf, target, waiting, conn>>

\* The statement for a pid or for a kill is answered by an error.
ReceiveError(b) ==
    LET j == holder[b] IN
    /\ reply[b] \in {"err", "killed"} /\ Head(queue[b]) = j
    /\ j \in Runs => runPc[j] = "pid"
    /\ GiveUp(j)
    /\ Released(b)
    /\ reply' = [reply EXCEPT ![b] = "none"]
    /\ queue' = [queue EXCEPT ![b] = Tail(@)]
    /\ UNCHANGED <<adapter, pid, canceled, discarded, runOf, runConn, cancelOf, target, waiting,
                   conn>>

\* The adapter learns that a connection is gone: whoever holds it gets an error,
\* and the pool opens another one in its place.
ConnectionLost(b) ==
    /\ conn[b] = "lost" /\ reply[b] \in {"none", "busy", "killed"}
    /\ conn' = [conn EXCEPT ![b] = "closed"]
    /\ queue' = [queue EXCEPT ![b] = <<>>]
    /\ reply' = [reply EXCEPT ![b] = "none"]
    /\ CASE holder[b] = None -> UNCHANGED <<pid, canceling, discarded, runPc, outcome,
                                            cancelPc, holder>>
         [] holder[b] \in Runs /\ Racing(holder[b]) ->
              StatementWins(holder[b], "killed") /\ UNCHANGED cancelPc
         [] OTHER -> GiveUp(holder[b]) /\ Released(b) /\ UNCHANGED <<pid, discarded>>
    /\ UNCHANGED <<adapter, canceled, runOf, runConn, cancelOf, target, waiting>>

-----------------------------------------------------------------------------
Init ==
    /\ adapter \in Adapters
    /\ pid = [q \in Queries |-> None]
    /\ canceling = [q \in Queries |-> FALSE]
    /\ canceled = [q \in Queries |-> FALSE]
    /\ discarded = [q \in Queries |-> FALSE]
    /\ runPc = [r \in Runs |-> "idle"]
    /\ runOf = [r \in Runs |-> None]
    /\ runConn = [r \in Runs |-> None]
    /\ outcome = [r \in Runs |-> "none"]
    /\ cancelPc = [k \in Cancels |-> "idle"]
    /\ cancelOf = [k \in Cancels |-> None]
    /\ target = [k \in Cancels |-> None]
    /\ waiting = <<>>
    /\ holder = [b \in Conns |-> None]
    /\ conn = [b \in Conns |-> "unused"]
    /\ queue = [b \in Conns |-> <<>>]
    /\ reply = [b \in Conns |-> "none"]

Receive(b) ==
    \/ ReceiveOrphan(b) \/ ReceivePid(b) \/ ReceiveRows(b)
    \/ ReceiveKilled(b) \/ ReceiveError(b) \/ ConnectionLost(b)

Next ==
    \/ \E q \in Queries, r \in Runs : Execute(q, r)
    \/ \E q \in Queries, k \in Cancels : CancelRefused(q, k) \/ Cancel(q, k)
    \/ \E b \in Conns : Grant(b)
    \/ GrantFails
    \/ \E b \in Conns : Begin(b) \/ Serve(b) \/ Kill(b) \/ Receive(b)
    \/ \E r \in Runs : Poll(r)

Spec == Init /\ [][Next]_vars

\* The pool serves who waits; the server answers a request for a pid or a kill;
\* answers arrive and polls are made.  A caller's statement may run for ever.
ServePid(b) ==
    /\ reply[b] = "busy" /\ Head(queue[b]) \in Runs /\ runPc[Head(queue[b])] = "pid"
    /\ Serve(b)

Fairness ==
    /\ WF_vars(GrantFails \/ \E b \in Conns : Grant(b))
    /\ \A b \in Conns : /\ WF_vars(Receive(b))
                        /\ WF_vars(Begin(b))
                        /\ WF_vars(Kill(b))
                        /\ WF_vars(ServePid(b))
    /\ \A r \in Runs : WF_vars(Poll(r))

FairSpec == Spec /\ Fairness

-----------------------------------------------------------------------------
(* Properties.                                                             *)

\* Every variable has its type.
TypeOK ==
    /\ adapter \in Adapters
    /\ pid \in [Queries -> Conns \cup {None}]
    /\ canceling \in [Queries -> BOOLEAN]
    /\ canceled \in [Queries -> BOOLEAN]
    /\ discarded \in [Queries -> BOOLEAN]
    /\ runPc \in [Runs -> {"idle", "waiting", "pid", "racing", "done"}]
    /\ runOf \in [Runs -> Queries \cup {None}]
    /\ runConn \in [Runs -> Conns \cup {None}]
    /\ outcome \in [Runs -> {"none", "rows", "undefined", "canceled", "marked", "error"}]
    /\ cancelPc \in [Cancels -> {"idle", "refused", "waiting", "killing", "accepted", "failed"}]
    /\ cancelOf \in [Cancels -> Queries \cup {None}]
    /\ target \in [Cancels -> Conns \cup {None}]
    /\ waiting \in Seq(Jobs)
    /\ holder \in [Conns -> Jobs \cup {None}]
    /\ conn \in [Conns -> {"unused", "open", "lost", "closed"}]
    /\ queue \in [Conns -> Seq(Jobs)]
    /\ reply \in [Conns -> {"none", "busy", "ok", "err", "killed"}]

\* A job that is using a connection.
Active(j) == IF j \in Runs THEN runPc[j] \in {"pid", "racing"} ELSE cancelPc[j] = "killing"

\* No connection leaks and none is shared: a connection is checked out exactly
\* while one job uses it, on all the paths that end a job (the finally blocks of
\* runWithConnection and of execute()), and the pool never exceeds its limit.
PoolConserved ==
    /\ \A b \in Conns : holder[b] # None => Active(holder[b])
    /\ \A j \in Jobs : Active(j) => Cardinality({b \in Conns : holder[b] = j}) = 1
    /\ Cardinality(Open) <= PoolSize

\* What CanceledByUserError says is true (errors.ts 7): a cancel() of this very query
\* has succeeded, and the kill it had executed was aimed at the connection of a run of
\* the query.  A query that is executed twice has one pid and one promise to cancel:
\* the kill may have been for the other run.
CanceledIsHonest ==
    \A r \in Runs : outcome[r] = "canceled" =>
        \E k \in Cancels, x \in Runs :
            /\ cancelPc[k] = "accepted" /\ cancelOf[k] = runOf[r]
            /\ runOf[x] = runOf[r] /\ target[k] = runConn[x]

\* An error is attributed to the user (`canceling`) only while a cancel() of the
\* query is under way or has succeeded: a cancel() that fails takes it back.
FlagIsMeant ==
    \A q \in Queries : canceling[q] =>
        \E k \in Cancels : cancelOf[k] = q /\ cancelPc[k] \in {"waiting", "killing", "accepted"}

\* And while a cancel() is under way an error is attributed to the user, unless
\* another cancel() has failed or another run has ended in such an error: the query
\* has one flag for them all.
TakenBack(q) ==
    \/ \E k \in Cancels : cancelOf[k] = q /\ cancelPc[k] = "failed"
    \/ \E r \in Runs : runOf[r] = q /\ outcome[r] = "marked"
FlagIsKept ==
    \A k \in Cancels : cancelPc[k] \in {"waiting", "killing"} =>
        canceling[cancelOf[k]] \/ TakenBack(cancelOf[k])

CancelingIsMeant == FlagIsMeant /\ FlagIsKept

\* A kill ends no statement and no connection of another query: what cancel()
\* cancels is the current query (db.spec.ts 958).
KillsOnlyItsQuery ==
    [][\A b \in Conns : Kill(b) =>
          LET k == Head(queue[b])
              victim == holder[target[k]]
              harmed == reply'[target[k]] = "killed" \/ conn'[target[k]] = "lost" IN
          harmed /\ victim \in Runs => runOf[victim] = cancelOf[k]]_vars

\* A cancel() that succeeds ends the execute() of its query, whatever becomes
\* of the killed statement.
AcceptedEndsRun ==
    \A k \in Cancels :
        cancelPc[k] = "accepted" ~> \A r \in Runs : runOf[r] = cancelOf[k] => ~Racing(r)

\* A caller's statement is under way on b, perhaps one that nobody waits for any more.
Occupied(b) ==
    /\ queue[b] # <<>> /\ Head(queue[b]) \in Runs /\ ~Answered(b)
    /\ runPc[Head(queue[b])] # "pid"

\* Statements occupy the connection that a cancel() was given, or all it could be given.
Starved(k) ==
    \/ \E b \in Conns : holder[b] = k /\ Occupied(b)
    \/ /\ cancelPc[k] = "waiting" /\ Cardinality(Open) = PoolSize
       /\ \A b \in Open : Occupied(b)

\* A cancel() settles (postgresql.ts 646-667), unless callers' statements occupy
\* for ever what it needs: it shares the pool with the statements it cancels.
CancelSettles ==
    \A k \in Cancels :
        \/ <>[]Starved(k)
        \/ cancelPc[k] = "waiting" ~> cancelPc[k] \in {"accepted", "failed"}
=============================================================================
