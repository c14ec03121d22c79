------------------------ MODULE RequestCancel_proofs ------------------------
(***************************************************************************)
(* Proofs about RequestCancel, for any Runs and Cancels and texts of any   *)
(* length.                                                                 *)
(***************************************************************************)
EXTENDS RequestCancel, TLAPS

\* A request is marked, or a handle interrupted, because somebody has asked for it.
Asked(r)     == \E k \in Cancels : of[k] = r /\ answer[k] = "accepted"
StopsAreAsked == \A r \in Runs : stop[r] => Asked(r)

\* Only what is open and has statements left is executed.
ExecutesOpen == \A r \in Runs : executing[r] => pc[r] = "open" /\ ~Over(r)

\* A failing statement of SQLite settles the promise.
FailureSettles == \A r \in Runs : adapter = "sqlite" /\ failed[r] => outcome[r] # "none"

\* SQL Server's request is over when it is canceled, in SQLite a statement is.
CanceledIsEnd ==
    \A r \in Runs : outcome[r] = "canceled" =>
        IF adapter = "sqlserver" THEN pc[r] = "closed" ELSE at[r] > 1

RunInv ==
    /\ TypeOK /\ StopsAreAsked /\ ExecutesOpen /\ FailureSettles /\ CanceledIsEnd
    /\ CanceledIsAsked /\ RowsMeanSuccess

-----------------------------------------------------------------------------
\* Before any execute() or cancel() nothing is marked, open or over.
THEOREM RunInvInit == Init => RunInv
  BY RequestAssumption DEF Init, RunInv, TypeOK, StopsAreAsked, ExecutesOpen, FailureSettles,
     CanceledIsEnd, CanceledIsAsked, RowsMeanSuccess, Over

\* Callers.  A call of cancel() that has been answered keeps its answer, so what was asked
\* stays asked.
LEMMA CallersKeep ==
    ASSUME RunInv, NEW k \in Cancels, CancelRefused(k) \/ CancelRequest(k) \/ Interrupt(k)
    PROVE  RunInv'
<1> USE RequestAssumption DEF RunInv, config
<1>1. \A r \in Runs : Asked(r) => Asked(r)'
  BY DEF Asked, TypeOK, CancelRefused, CancelRequest, Interrupt
<1>2. TypeOK'
  <2>1. stop' \in [Runs -> BOOLEAN]
    BY Zenon DEF TypeOK, CancelRefused, CancelRequest, Interrupt, RequestStops, runVars
  <2>2. answer' \in [Cancels -> {"none", "refused", "accepted", "error"}]
    BY DEF TypeOK, CancelRefused, CancelRequest, Interrupt
  <2>3. of' \in [Cancels -> Runs \cup {None}]
    BY DEF TypeOK, CancelRefused, CancelRequest, Interrupt
  <2>4. UNCHANGED <<adapter, size, current, pc, outcome, at, executing, failed>>
    BY DEF CancelRefused, CancelRequest, Interrupt, runVars
  <2> QED BY <2>1, <2>2, <2>3, <2>4 DEF TypeOK
<1>3. StopsAreAsked'
  <2>1. CASE CancelRefused(k)
    BY <1>1, <2>1 DEF StopsAreAsked, CancelRefused, runVars
  <2>2. CASE UNCHANGED stop
    BY <1>1, <2>2 DEF StopsAreAsked
  <2>3. CASE (CancelRequest(k) \/ Interrupt(k)) /\ ~UNCHANGED stop
    <3>1. current \in Runs /\ of'[k] = current' /\ answer'[k] = "accepted" /\ UNCHANGED current
      BY <2>3 DEF CancelRequest, Interrupt, TypeOK
    <3>2. Asked(current)'
      BY <3>1 DEF Asked
    <3>3. \A r \in Runs : r # current => stop'[r] = stop[r]
      BY <2>3 DEF CancelRequest, Interrupt, TypeOK
    <3>4. ASSUME NEW r \in Runs, stop'[r] PROVE Asked(r)'
      <4>1. CASE r = current
        BY <3>1, <3>2, <4>1 DEF Asked
      <4>2. CASE r # current
        BY <1>1, <3>3, <3>4, <4>2 DEF StopsAreAsked
      <4> QED BY <4>1, <4>2
    <3> QED BY <3>4 DEF StopsAreAsked
  <2> QED BY <2>1, <2>2, <2>3
<1>4. CanceledIsAsked'
  <2>1. UNCHANGED outcome
    BY DEF CancelRefused, CancelRequest, Interrupt, runVars
  <2> QED BY <1>1, <2>1 DEF CanceledIsAsked, Asked
<1>5. UNCHANGED <<adapter, size, pc, outcome, at, executing, failed>>
  BY DEF CancelRefused, CancelRequest, Interrupt, runVars
<1>6. ExecutesOpen' /\ FailureSettles' /\ CanceledIsEnd' /\ RowsMeanSuccess'
  BY <1>5 DEF ExecutesOpen, FailureSettles, CanceledIsEnd, RowsMeanSuccess, Over
<1> QED BY <1>2, <1>3, <1>4, <1>6

\* What a run does on its way to a connection or a handle.
LEMMA OpeningKeeps ==
    ASSUME RunInv, NEW r \in Runs, Execute(r) \/ Connected(r) \/ Begin(r)
    PROVE  RunInv'
<1> USE RequestAssumption DEF RunInv, config
<1>1. TypeOK'
  <2>1. executing' \in [Runs -> BOOLEAN]
    BY Zenon DEF TypeOK, Execute, Connected, Acquired, Opened, OpenFails, Begin
  <2>2. UNCHANGED <<adapter, size, at, failed, stop, answer, of>>
    BY DEF Execute, Connected, Acquired, Opened, OpenFails, Begin, cancelVars
  <2>3. /\ pc' \in [Runs -> {"idle", "opening", "open", "closed"}]
        /\ outcome' \in [Runs -> {"none", "rows", "error", "canceled"}]
        /\ current' \in Runs \cup {None}
    BY DEF TypeOK, Execute, Connected, Acquired, Opened, OpenFails, Begin, Settles
  <2> QED BY <2>1, <2>2, <2>3 DEF TypeOK
<1>2. \A x \in Runs : Asked(x)' = Asked(x)
  BY DEF Asked, Execute, Connected, Acquired, Opened, OpenFails, Begin, cancelVars
<1>3. StopsAreAsked'
  BY <1>2 DEF StopsAreAsked, Execute, Connected, Acquired, Opened, OpenFails, Begin
<1>4. ExecutesOpen'
  BY DEF ExecutesOpen, TypeOK, Over, Execute, Connected, Acquired, Opened, OpenFails, Begin
<1>5. FailureSettles'
  BY DEF FailureSettles, TypeOK, Execute, Connected, Acquired, Opened, OpenFails, Begin, Settles
<1>6. CanceledIsEnd'
  BY DEF CanceledIsEnd, TypeOK, Execute, Connected, Acquired, Opened, OpenFails, Begin, Settles
<1>7. CanceledIsAsked'
  <2>1. \A x \in Runs : outcome'[x] = "canceled" => outcome[x] = "canceled" \/ stop[x]
    BY DEF TypeOK, Execute, Connected, Acquired, Opened, OpenFails, Begin, Settles
  <2> QED BY <1>2, <2>1 DEF CanceledIsAsked, StopsAreAsked, Asked
<1>8. RowsMeanSuccess'
  BY DEF RowsMeanSuccess, TypeOK, Over, Execute, Connected, Acquired, Opened, OpenFails, Begin,
     Settles
<1> QED BY <1>1, <1>3, <1>4, <1>5, <1>6, <1>7, <1>8

\* SQL Server executes a batch and ends it.
LEMMA RequestKeeps ==
    ASSUME RunInv, NEW r \in Runs, RequestStep(r) \/ RequestEnds(r) \/ Attention(r)
    PROVE  RunInv'
<1> USE RequestAssumption DEF RunInv, config
<1>0. adapter = "sqlserver" /\ UNCHANGED <<adapter, size, stop, answer, of>>
  BY DEF RequestStep, RequestEnds, Attention, cancelVars
<1>1. TypeOK'
  <2>1. CASE RequestStep(r)
    <3>1. at[r] \in 1..size
      BY <2>1 DEF RequestStep, ExecutesOpen, Over, TypeOK
    <3>2. executing' \in [Runs -> BOOLEAN] /\ failed' \in [Runs -> BOOLEAN]
      BY <2>1, Zenon DEF RequestStep, TypeOK
    <3>3. at' \in [Runs -> 1..(size + 1)]
      BY <2>1, <3>1 DEF RequestStep, TypeOK
    <3>4. UNCHANGED <<adapter, size, current, pc, outcome, stop, answer, of>>
      BY <2>1 DEF RequestStep, cancelVars
    <3> QED BY <3>2, <3>3, <3>4 DEF TypeOK
  <2>2. CASE RequestEnds(r) \/ Attention(r)
    <3>1. executing' \in [Runs -> BOOLEAN]
      BY <2>2, Zenon DEF RequestEnds, Attention, TypeOK
    <3>2. /\ pc' \in [Runs -> {"idle", "opening", "open", "closed"}]
          /\ outcome' \in [Runs -> {"none", "rows", "error", "canceled"}]
      BY <2>2 DEF RequestEnds, Attention, Settles, Mark, TypeOK
    <3>3. UNCHANGED <<adapter, size, current, at, failed, stop, answer, of>>
      BY <2>2 DEF RequestEnds, Attention, cancelVars
    <3> QED BY <3>1, <3>2, <3>3 DEF TypeOK
  <2> QED BY <2>1, <2>2
<1>2. StopsAreAsked'
  BY <1>0 DEF StopsAreAsked, Asked
<1>3. ExecutesOpen'
  <2>1. CASE RequestStep(r) \/ Attention(r)
    <3>1. ~executing'[r] /\ \A x \in Runs : x # r => executing'[x] = executing[x]
      BY <2>1 DEF RequestStep, Attention, TypeOK
    <3>2. UNCHANGED size /\ \A x \in Runs : x # r => pc'[x] = pc[x] /\ at'[x] = at[x]
      BY <2>1 DEF RequestStep, Attention, TypeOK
    <3> QED BY <3>1, <3>2 DEF ExecutesOpen, Over
  <2>2. CASE RequestEnds(r)
    BY <2>2 DEF ExecutesOpen, TypeOK, Over, RequestEnds
  <2> QED BY <2>1, <2>2
<1>4. FailureSettles'
  BY <1>0 DEF FailureSettles
<1>5. CanceledIsEnd'
  BY <1>0 DEF CanceledIsEnd, TypeOK, RequestStep, RequestEnds, Attention, Settles, Mark
<1>6. CanceledIsAsked'
  <2>1. \A x \in Runs : outcome'[x] = "canceled" => outcome[x] = "canceled" \/ stop[x]
    BY DEF TypeOK, RequestStep, RequestEnds, Attention, Settles, Mark
  <2> QED BY <1>0, <2>1 DEF CanceledIsAsked, StopsAreAsked, Asked
<1>7. RowsMeanSuccess'
  BY DEF RowsMeanSuccess, ExecutesOpen, TypeOK, Over, RequestStep, RequestEnds, Attention,
     Settles, Mark
<1> QED BY <1>1, <1>2, <1>3, <1>4, <1>5, <1>6, <1>7

\* SQLite executes what it was given and closes the handle.
LEMMA HandleKeeps ==
    ASSUME RunInv, NEW r \in Runs, StatementEnds(r) \/ StatementFails(r) \/ Closed(r)
    PROVE  RunInv'
<1> USE RequestAssumption DEF RunInv, config
<1>0. adapter = "sqlite" /\ UNCHANGED <<adapter, size, answer, of>>
  BY DEF StatementEnds, StatementFails, Closed, cancelVars
<1>1. TypeOK'
  <2>1. CASE StatementEnds(r) \/ StatementFails(r)
    <3>1. at[r] \in 1..size
      <4>1. executing[r]
        BY <2>1 DEF StatementEnds, StatementFails
      <4>2. size \in Nat /\ at[r] \in 1..(size + 1)
        BY DEF TypeOK
      <4> QED BY <4>1, <4>2 DEF ExecutesOpen, Over
    <3>2. /\ executing' \in [Runs -> BOOLEAN] /\ stop' \in [Runs -> BOOLEAN]
          /\ failed' \in [Runs -> BOOLEAN]
      BY <2>1, Zenon DEF StatementEnds, StatementFails, TypeOK
    <3>3. at' = [at EXCEPT ![r] = @ + 1]
      BY <2>1 DEF StatementEnds, StatementFails
    <3>4. at' \in [Runs -> 1..(size + 1)]
      BY <3>1, <3>3 DEF TypeOK
    <3>5. outcome' \in [Runs -> {"none", "rows", "error", "canceled"}]
      BY <2>1 DEF StatementEnds, StatementFails, Settles, Mark, TypeOK
    <3>6. UNCHANGED <<adapter, size, current, pc, answer, of>>
      BY <2>1 DEF StatementEnds, StatementFails, cancelVars
    <3> QED BY <3>2, <3>4, <3>5, <3>6 DEF TypeOK
  <2>2. CASE Closed(r)
    BY <2>2 DEF Closed, TypeOK, cancelVars
  <2> QED BY <2>1, <2>2
<1>2. StopsAreAsked'
  <2>1. \A x \in Runs : stop'[x] => stop[x]
    BY DEF StatementEnds, StatementFails, Closed, TypeOK
  <2> QED BY <1>0, <2>1 DEF StopsAreAsked, Asked
<1>3. ExecutesOpen'
  <2>1. CASE StatementEnds(r) \/ StatementFails(r)
    <3>1. ~executing'[r] /\ \A x \in Runs : x # r => executing'[x] = executing[x]
      BY <2>1 DEF StatementEnds, StatementFails, TypeOK
    <3>2. UNCHANGED <<pc, size>> /\ \A x \in Runs : x # r => at'[x] = at[x]
      BY <2>1 DEF StatementEnds, StatementFails, TypeOK
    <3> QED BY <3>1, <3>2 DEF ExecutesOpen, Over
  <2>2. CASE Closed(r)
    BY <2>2 DEF ExecutesOpen, TypeOK, Over, Closed
  <2> QED BY <2>1, <2>2
<1>4. FailureSettles'
  BY DEF FailureSettles, TypeOK, StatementEnds, StatementFails, Closed, Settles, Mark
<1>5. CanceledIsEnd'
  BY <1>0 DEF CanceledIsEnd, TypeOK, StatementEnds, StatementFails, Closed, Settles, Mark
<1>6. CanceledIsAsked'
  <2>1. \A x \in Runs : outcome'[x] = "canceled" => outcome[x] = "canceled" \/ stop[x]
    BY DEF TypeOK, StatementEnds, StatementFails, Closed, Settles, Mark
  <2> QED BY <1>0, <2>1 DEF CanceledIsAsked, StopsAreAsked, Asked
<1>7. RowsMeanSuccess'
  BY <1>0 DEF RowsMeanSuccess, ExecutesOpen, FailureSettles, TypeOK, Over, StatementEnds,
     StatementFails, Closed, Settles, Mark
<1> QED BY <1>1, <1>2, <1>3, <1>4, <1>5, <1>6, <1>7

LEMMA RunInvAlways == Spec => []RunInv
<1>1. RunInv /\ [Next]_vars => RunInv'
  <2> SUFFICES ASSUME RunInv, [Next]_vars PROVE RunInv'
    OBVIOUS
  <2>1. CASE UNCHANGED vars
    BY <2>1 DEF vars, config, runVars, cancelVars, RunInv, TypeOK, StopsAreAsked, Asked, ExecutesOpen,
       FailureSettles, CanceledIsEnd, CanceledIsAsked, RowsMeanSuccess, Over
  <2>2. CASE \E r \in Runs : Execute(r) \/ Connected(r) \/ Begin(r)
    BY <2>2, OpeningKeeps
  <2>3. CASE \E r \in Runs : RequestStep(r) \/ RequestEnds(r) \/ Attention(r)
    BY <2>3, RequestKeeps
  <2>4. CASE \E r \in Runs : StatementEnds(r) \/ StatementFails(r) \/ Closed(r)
    BY <2>4, HandleKeeps
  <2>5. CASE \E k \in Cancels : CancelRefused(k) \/ CancelRequest(k) \/ Interrupt(k)
    BY <2>5, CallersKeep
  <2> QED BY <2>1, <2>2, <2>3, <2>4, <2>5 DEF Next, Ended
<1> QED BY <1>1, RunInvInit, PTL DEF Spec

-----------------------------------------------------------------------------
\* Type correctness: no statement after the last one is ever executed.
THEOREM TypeCorrect == Spec => []TypeOK
<1>1. RunInv => TypeOK
  BY DEF RunInv
<1> QED BY <1>1, RunInvAlways, PTL

\* However many executions and cancellations there are: an execution that is reported as
\* canceled was to be canceled, and one that returns rows has executed its whole text
\* without an error.
THEOREM OutcomesMeant == Spec => []OutcomesAreMeant
<1>1. RunInv => OutcomesAreMeant
  BY DEF RunInv, OutcomesAreMeant
<1> QED BY <1>1, RunInvAlways, PTL

\* SQL Server executes nothing more of a text of any length once it is canceled, SQLite
\* nothing more of a single statement.
THEOREM QuietAfterCancel == Spec => NothingAfterCancel
<1>1. ASSUME RunInv, [Next]_vars, adapter = "sqlserver" \/ size = 1,
             NEW r \in Runs, outcome[r] = "canceled"
      PROVE  ~executing'[r] /\ at'[r] = at[r]
  <2>1. ~executing[r] /\ (pc[r] # "open" \/ Over(r))
    BY <1>1, RequestAssumption DEF RunInv, config, CanceledIsEnd, ExecutesOpen, Over, TypeOK
  <2>2. ASSUME NEW x \in Runs, Execute(x) \/ Connected(x) \/ Begin(x) \/ Ended(x)
        PROVE  ~executing'[r] /\ at'[r] = at[r]
    BY <1>1, <2>1, <2>2 DEF RunInv, TypeOK, Execute, Connected, Acquired, Opened, OpenFails,
       Begin, Ended, RequestEnds, Attention, Closed
  <2>3. ASSUME NEW x \in Runs, RequestStep(x) \/ StatementEnds(x) \/ StatementFails(x)
        PROVE  ~executing'[r] /\ at'[r] = at[r]
    BY <1>1, <2>1, <2>3 DEF RunInv, TypeOK, RequestStep, StatementEnds, StatementFails
  <2>4. ASSUME NEW k \in Cancels, CancelRefused(k) \/ CancelRequest(k) \/ Interrupt(k)
        PROVE  ~executing'[r] /\ at'[r] = at[r]
    BY <2>1, <2>4 DEF CancelRefused, CancelRequest, Interrupt, runVars
  <2>5. CASE UNCHANGED vars
    BY <2>1, <2>5 DEF vars, runVars
  <2> QED BY <1>1, <2>2, <2>3, <2>4, <2>5 DEF Next
<1>2. RunInv /\ [Next]_vars =>
        [adapter = "sqlserver" \/ size = 1 =>
           \A r \in Runs : outcome[r] = "canceled" => ~executing'[r] /\ at'[r] = at[r]]_vars
  BY <1>1
<1> QED BY <1>2, RunInvAlways, PTL DEF Spec, NothingAfterCancel
-----------------------------------------------------------------------------
(* What a call waits for.                                                  *)

\* A run that cancel() knows has been called.  Whose request or handle is closed has
\* settled; a request of SQL Server that was canceled is marked until then.  The promise
\* of a SQLite batch is settled by its last statement at the latest.
WaitsInOrder ==
    /\ \A r \in Runs : /\ current = r => pc[r] # "idle"
                       /\ Over(r) => pc[r] \in {"open", "closed"}
                       /\ pc[r] = "closed" => outcome[r] # "none"
                       /\ adapter = "sqlite" /\ Over(r) => outcome[r] # "none"
    /\ \A k \in Cancels, r \in Runs : adapter = "sqlserver" /\ of[k] = r =>
         (stop[r] /\ pc[r] # "idle") \/ pc[r] = "closed"

LEMMA CallersWait ==
    ASSUME RunInv, WaitsInOrder, NEW k \in Cancels,
           CancelRefused(k) \/ CancelRequest(k) \/ Interrupt(k)
    PROVE  WaitsInOrder'
<1> USE RequestAssumption DEF RunInv, config
<1>1. UNCHANGED <<adapter, size, current, pc, outcome, at>>
  BY DEF CancelRefused, CancelRequest, Interrupt, runVars
<1>2. ASSUME adapter = "sqlserver", NEW j \in Cancels, NEW r \in Runs, of'[j] = r
      PROVE  (stop'[r] /\ pc[r] # "idle") \/ pc[r] = "closed"
  <2>1. CASE CancelRefused(k)
    BY <1>2, <2>1 DEF CancelRefused, WaitsInOrder, runVars
  <2>2. CASE CancelRequest(k)
    <3>1. /\ of' = [of EXCEPT ![k] = current]
          /\ stop' = [stop EXCEPT ![current] = stop[current] \/ RequestStops(current)]
      BY <2>2 DEF CancelRequest
    <3>2. stop[r] => stop'[r]
      BY <3>1 DEF TypeOK
    <3>3. CASE j = k
      <4>1. r = current
        BY <1>2, <3>1, <3>3 DEF TypeOK
      <4>2. pc[r] \in {"opening", "open"} => stop'[r]
        BY <3>1, <4>1 DEF TypeOK, RequestStops
      <4> QED BY <4>1, <4>2 DEF WaitsInOrder, TypeOK
    <3>4. CASE j # k
      <4>1. of[j] = r
        BY <1>2, <3>1, <3>4 DEF TypeOK
      <4> QED BY <1>2, <3>2, <4>1 DEF WaitsInOrder
    <3> QED BY <3>3, <3>4
  <2> QED BY <1>2, <2>1, <2>2 DEF Interrupt
<1> QED BY <1>1, <1>2 DEF WaitsInOrder, Over

LEMMA RunsWait ==
    ASSUME RunInv, WaitsInOrder, NEW r \in Runs,
           \/ Execute(r) \/ Connected(r) \/ Begin(r) \/ Ended(r)
           \/ RequestStep(r) \/ StatementEnds(r) \/ StatementFails(r)
    PROVE  WaitsInOrder'
<1> USE RequestAssumption DEF RunInv, config
<1>1. CASE Execute(r) \/ Connected(r) \/ Begin(r)
  BY <1>1 DEF WaitsInOrder, TypeOK, Over, Execute, Connected, Acquired, Opened, OpenFails, Begin,
     Settles, cancelVars
<1>2. CASE Ended(r)
  BY <1>2 DEF WaitsInOrder, TypeOK, Over, Ended, RequestEnds, Attention, Closed, Finally, Settles,
     Mark, cancelVars
<1>3. CASE RequestStep(r)
  BY <1>3 DEF WaitsInOrder, TypeOK, Over, ExecutesOpen, RequestStep, cancelVars
<1>4. CASE StatementEnds(r) \/ StatementFails(r)
  BY <1>4 DEF WaitsInOrder, TypeOK, Over, ExecutesOpen, StatementEnds, StatementFails, Settles,
     Mark, cancelVars
<1> QED BY <1>1, <1>2, <1>3, <1>4

\* Whatever callers, drivers and databases have done: an execute() of SQL Server that a
\* cancel() was made for and that has not settled is marked, and waits for a connection or
\* is open, so that the driver ends it whether its statement ends or not
\* (sqlserver.ts 490-496).  A SQLite handle whose statements are over is closed, or has
\* nothing left to wait for, its promise being settled (sqlite.ts 292-295).
THEOREM CallIsOwed ==
    Spec => [](\A r \in Runs :
                 /\ adapter = "sqlserver" /\ (\E k \in Cancels : of[k] = r) /\ outcome[r] = "none"
                      => stop[r] /\ pc[r] \in {"opening", "open"}
                 /\ adapter = "sqlite" /\ Over(r)
                      => pc[r] = "closed" \/ (pc[r] = "open" /\ Finally(r)))
<1>1. Init => WaitsInOrder
  BY RequestAssumption DEF Init, WaitsInOrder, Over
<1>2. RunInv /\ WaitsInOrder /\ [Next]_vars => WaitsInOrder'
  <2> SUFFICES ASSUME RunInv, WaitsInOrder, [Next]_vars PROVE WaitsInOrder'
    OBVIOUS
  <2>1. CASE UNCHANGED vars
    BY <2>1 DEF vars, config, runVars, cancelVars, WaitsInOrder, Over
  <2>2. CASE Next
    BY <2>2, CallersWait, RunsWait DEF Next
  <2> QED BY <2>1, <2>2
<1> DEFINE IsOwed == \A r \in Runs :
              /\ adapter = "sqlserver" /\ (\E k \in Cancels : of[k] = r) /\ outcome[r] = "none"
                   => stop[r] /\ pc[r] \in {"opening", "open"}
              /\ adapter = "sqlite" /\ Over(r)
                   => pc[r] = "closed" \/ (pc[r] = "open" /\ Finally(r))
<1>3. RunInv /\ WaitsInOrder => IsOwed
  BY DEF RunInv, TypeOK, WaitsInOrder, Finally
<1> HIDE DEF IsOwed
<1>4. Spec => []IsOwed
  BY <1>1, <1>2, <1>3, RunInvAlways, PTL DEF Spec
<1> QED BY <1>4 DEF IsOwed
=============================================================================
