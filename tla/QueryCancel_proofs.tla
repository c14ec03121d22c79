------------------------- MODULE QueryCancel_proofs -------------------------
(***************************************************************************)
(* Proofs about QueryCancel, for any queries, calls, connections and limit *)
(* of the pool, and for either adapter.                                    *)
(***************************************************************************)
EXTENDS QueryCancel, FiniteSetTheorems, TLAPS

\* The jobs in the line of the pool wait, each of them once.
InLine(j) == IF j \in Runs THEN runPc[j] = "waiting" ELSE cancelPc[j] = "waiting"
LineIsFair ==
    /\ \A j \in Jobs, i \in 1..Len(waiting) : waiting[i] = j => InLine(j)
    /\ \A i, n \in 1..Len(waiting) : waiting[i] = waiting[n] => i = n

\* What has been answered or is being executed was sent.
ReplyIsToSomething == \A b \in Conns : reply[b] # "none" => queue[b] # <<>>

\* A run belongs to a query once it has been called, and has a connection once it got one.
RunsHaveQuery ==
    \A r \in Runs : /\ runPc[r] # "idle" <=> runOf[r] # None
                    /\ runConn[r] # None => runPc[r] \notin {"idle", "waiting"}

\* Exactly the jobs that use a connection hold one, and a run knows which.
HoldersAreActive ==
    /\ \A b \in Conns, j \in Jobs : holder[b] = j => Active(j)
    /\ \A b \in Conns, r \in Runs : holder[b] = r => runConn[r] = b
    /\ \A b, c \in Conns, j \in Jobs : holder[b] = j /\ holder[c] = j => b = c
    /\ \A j \in Jobs : Active(j) => \E b \in Conns : holder[b] = j

\* Only connections that the adapter believes to be open are checked out.
HeldIsOpen == \A b \in Conns : holder[b] # None => b \in Open

\* A pid, also one that a cancel() has read, is of a run of its query.
RanOn(q, b) == \E r \in Runs : runOf[r] = q /\ runConn[r] = b
PidIsOfRun == \A q \in Queries, b \in Conns : pid[q] = b => RanOn(q, b)
TargetIsOfRun ==
    \A k \in Cancels : cancelPc[k] \notin {"idle", "refused"} =>
        \E q \in Queries, b \in Conns : cancelOf[k] = q /\ target[k] = b /\ RanOn(q, b)

\* cancelable.cancel() is called by cancel() calls that have succeeded.
CanceledWasAccepted ==
    \A q \in Queries : canceled[q] =>
        \E k \in Cancels : cancelPc[k] = "accepted" /\ cancelOf[k] = q
OutcomeWasAccepted ==
    \A r \in Runs : outcome[r] = "canceled" =>
        \E k \in Cancels : cancelPc[k] = "accepted" /\ cancelOf[k] = runOf[r]

\* The pool never has more than its limit open.
PoolIsLimited == IsFiniteSet(Open) /\ Cardinality(Open) <= PoolSize

JobInv ==
    /\ TypeOK /\ LineIsFair /\ ReplyIsToSomething /\ RunsHaveQuery /\ HoldersAreActive
    /\ HeldIsOpen
CallInv ==
    /\ PidIsOfRun /\ TargetIsOfRun /\ CanceledWasAccepted /\ OutcomeWasAccepted
    /\ FlagIsMeant
QueryInv == JobInv /\ CallInv /\ PoolIsLimited

-----------------------------------------------------------------------------
(* Sequences and the pool's bookkeeping.                                   *)

LEMMA HeadAndTail ==
    ASSUME NEW S, NEW s \in Seq(S), s # <<>>
    PROVE  /\ Head(s) \in S /\ Head(s) = s[1] /\ Len(s) \in Nat /\ Len(s) > 0
           /\ Tail(s) \in Seq(S) /\ Len(Tail(s)) = Len(s) - 1
           /\ \A i \in 1..Len(Tail(s)) : Tail(s)[i] = s[i + 1]
  OBVIOUS

LEMMA Appended ==
    ASSUME NEW S, NEW s \in Seq(S), NEW e \in S
    PROVE  /\ Append(s, e) \in Seq(S) /\ Append(s, e) # <<>>
           /\ Len(s) \in Nat /\ Len(Append(s, e)) = Len(s) + 1
           /\ \A i \in 1..Len(s) : Append(s, e)[i] = s[i]
           /\ Append(s, e)[Len(s) + 1] = e
  OBVIOUS

\* A job that was not waiting joins the line.
LEMMA LineGrows ==
    ASSUME TypeOK, LineIsFair, NEW j \in Jobs, waiting' = Append(waiting, j), ~InLine(j),
           InLine(j)', \A x \in Jobs : InLine(x) => InLine(x)'
    PROVE  LineIsFair'
<1>1. waiting \in Seq(Jobs)
  BY DEF TypeOK
<1>2. /\ Len(waiting) \in Nat /\ Len(waiting') = Len(waiting) + 1
      /\ \A i \in 1..Len(waiting) : waiting'[i] = waiting[i] /\ waiting[i] \in Jobs
      /\ waiting'[Len(waiting) + 1] = j
  BY <1>1, Appended
<1>3. ASSUME NEW i \in 1..Len(waiting') PROVE i \in 1..Len(waiting) \/ i = Len(waiting) + 1
  BY <1>2
<1>4. ASSUME NEW x \in Jobs, NEW i \in 1..Len(waiting'), waiting'[i] = x
      PROVE  InLine(x)'
  <2>1. CASE i \in 1..Len(waiting)
    BY <1>2, <1>4, <2>1 DEF LineIsFair
  <2>2. CASE i = Len(waiting) + 1
    BY <1>2, <1>4, <2>2
  <2> QED BY <1>3, <2>1, <2>2
<1>5. \A i \in 1..Len(waiting) : waiting[i] # j
  BY DEF LineIsFair
<1>6. \A i, n \in 1..Len(waiting') : waiting'[i] = waiting'[n] => i = n
  BY <1>2, <1>3, <1>5 DEF LineIsFair
<1> QED BY <1>4, <1>6 DEF LineIsFair

\* The first job leaves the line.
LEMMA LineShrinks ==
    ASSUME TypeOK, LineIsFair, waiting # <<>>, waiting' = Tail(waiting),
           \A x \in Jobs : InLine(x) /\ x # Head(waiting) => InLine(x)'
    PROVE  LineIsFair'
<1>1. waiting \in Seq(Jobs)
  BY DEF TypeOK
<1>2. /\ Head(waiting) = waiting[1] /\ Len(waiting) \in Nat /\ Len(waiting) > 0
      /\ Len(waiting') = Len(waiting) - 1
      /\ \A i \in 1..Len(waiting') : waiting'[i] = waiting[i + 1]
  BY <1>1, HeadAndTail
<1>3. ASSUME NEW i \in 1..Len(waiting')
      PROVE  /\ i + 1 \in 1..Len(waiting) /\ 1 \in 1..Len(waiting) /\ i + 1 # 1
             /\ waiting'[i] = waiting[i + 1] /\ waiting[i + 1] \in Jobs
  BY <1>1, <1>2
<1>4. ASSUME NEW x \in Jobs, NEW i \in 1..Len(waiting'), waiting'[i] = x
      PROVE  InLine(x)'
  <2>1. InLine(x) /\ x # Head(waiting)
    BY <1>2, <1>3, <1>4 DEF LineIsFair
  <2> QED BY <2>1
<1>5. \A i, n \in 1..Len(waiting') : waiting'[i] = waiting'[n] => i = n
  BY <1>3, <1>2 DEF LineIsFair
<1> QED BY <1>4, <1>5 DEF LineIsFair

\* The line stays as it is while its jobs wait.
LEMMA LineStays ==
    ASSUME LineIsFair, UNCHANGED waiting, \A x \in Jobs : InLine(x) => InLine(x)'
    PROVE  LineIsFair'
  BY DEF LineIsFair

\* A job gives its connection back and does not use one any more.
LEMMA HolderReleases ==
    ASSUME TypeOK, HoldersAreActive, NEW b \in Conns, NEW j \in Jobs, holder[b] = j, Released(b),
           UNCHANGED runConn, ~Active(j)', \A x \in Jobs : x # j => (Active(x)' <=> Active(x))
    PROVE  HoldersAreActive'
<1>1. \A c \in Conns : holder'[c] = IF c = b THEN None ELSE holder[c]
  BY DEF Released, TypeOK
<1>2. None \notin Jobs /\ Runs \subseteq Jobs
  BY QueryAssumption DEF Jobs
<1>3. \A c \in Conns : c # b => holder[c] # j
  BY DEF HoldersAreActive
<1>4. \A c \in Conns, x \in Jobs : holder'[c] = x => c # b /\ x # j /\ holder[c] = x
  BY <1>1, <1>2, <1>3
<1>5. \A c \in Conns, x \in Jobs : holder'[c] = x => Active(x)'
  BY <1>4 DEF HoldersAreActive
<1>6. \A c \in Conns, r \in Runs : holder'[c] = r => runConn'[r] = c
  BY <1>2, <1>4 DEF HoldersAreActive
<1>7. \A c, d \in Conns, x \in Jobs : holder'[c] = x /\ holder'[d] = x => c = d
  BY <1>4 DEF HoldersAreActive
<1>8. \A x \in Jobs : Active(x)' => \E c \in Conns : holder'[c] = x
  <2> SUFFICES ASSUME NEW x \in Jobs, Active(x)' PROVE \E c \in Conns : holder'[c] = x
    OBVIOUS
  <2>1. x # j /\ Active(x)
    OBVIOUS
  <2>2. PICK c \in Conns : holder[c] = x
    BY <2>1 DEF HoldersAreActive
  <2> QED BY <1>1, <2>1, <2>2
<1> QED BY <1>5, <1>6, <1>7, <1>8 DEF HoldersAreActive

\* Nothing that concerns the connections of jobs has happened.
LEMMA HoldersStay ==
    ASSUME HoldersAreActive, UNCHANGED <<holder, runConn>>,
           \A x \in Jobs : Active(x)' <=> Active(x)
    PROVE  HoldersAreActive'
  BY DEF HoldersAreActive

-----------------------------------------------------------------------------
(* Every action keeps JobInv.                                              *)

LEMMA ExecuteKeepsJobs ==
    ASSUME JobInv, NEW q \in Queries, NEW r \in Runs, Execute(q, r)
    PROVE  JobInv'
<1> USE QueryAssumption DEF JobInv
<1>1. r \in Jobs /\ runPc[r] = "idle" /\ waiting \in Seq(Jobs)
  BY DEF Execute, IsNext, Jobs, TypeOK
<1>2. Append(waiting, r) \in Seq(Jobs)
  BY <1>1, Appended
<1>3. TypeOK'
  <2>1. /\ runPc' \in [Runs -> {"idle", "waiting", "pid", "racing", "done"}]
        /\ runOf' \in [Runs -> Queries \cup {None}]
        /\ waiting' \in Seq(Jobs)
    BY <1>2 DEF Execute, TypeOK
  <2>2. UNCHANGED <<adapter, pid, canceling, canceled, discarded, runConn, outcome, cancelPc,
                    cancelOf, target, holder, conn, queue, reply>>
    BY DEF Execute, queryVars, cancelVars
  <2> QED BY <2>1, <2>2 DEF TypeOK
<1>4. LineIsFair'
  <2>1. ~InLine(r) /\ InLine(r)' /\ \A x \in Jobs : InLine(x) => InLine(x)'
    BY <1>1 DEF InLine, Execute, TypeOK, cancelVars, Jobs
  <2> QED BY <1>1, <2>1, LineGrows DEF Execute
<1>5. ReplyIsToSomething'
  BY DEF ReplyIsToSomething, Execute
<1>6. RunsHaveQuery'
  BY <1>1 DEF RunsHaveQuery, Execute, TypeOK
<1>7. HoldersAreActive'
  <2>1. \A x \in Jobs : Active(x)' <=> Active(x)
    BY <1>1 DEF Active, Execute, TypeOK, cancelVars, Jobs
  <2> QED BY <2>1, HoldersStay DEF Execute
<1>8. HeldIsOpen'
  BY DEF HeldIsOpen, Open, Execute
<1> QED BY <1>3, <1>4, <1>5, <1>6, <1>7, <1>8

LEMMA CancelKeepsJobs ==
    ASSUME JobInv, NEW q \in Queries, NEW k \in Cancels, CancelRefused(q, k) \/ Cancel(q, k)
    PROVE  JobInv'
<1> USE QueryAssumption DEF JobInv
<1>1. k \in Jobs /\ k \notin Runs /\ cancelPc[k] = "idle" /\ waiting \in Seq(Jobs)
  BY DEF CancelRefused, Cancel, IsNext, Jobs, TypeOK
<1>2. Append(waiting, k) \in Seq(Jobs)
  BY <1>1, Appended
<1>3. TypeOK'
  <2>1. CASE CancelRefused(q, k)
    BY <2>1 DEF CancelRefused, TypeOK, queryVars, runVars
  <2>2. CASE Cancel(q, k)
    <3>1. canceling' \in [Queries -> BOOLEAN]
      BY <2>2, Zenon DEF Cancel, TypeOK
    <3>2. pid[q] \in Conns /\ waiting' \in Seq(Jobs)
      BY <1>2, <2>2 DEF Cancel, TypeOK
    <3>3. /\ cancelPc' \in [Cancels -> {"idle", "refused", "waiting", "killing", "accepted", "failed"}]
          /\ cancelOf' \in [Cancels -> Queries \cup {None}]
          /\ target' \in [Cancels -> Conns \cup {None}]
      BY <2>2, <3>2 DEF Cancel, PidToKill, TypeOK
    <3>4. UNCHANGED <<adapter, pid, canceled, discarded, runVars, holder, conn, queue, reply>>
      BY <2>2 DEF Cancel
    <3> QED BY <3>1, <3>2, <3>3, <3>4 DEF TypeOK, runVars
  <2> QED BY <2>1, <2>2
<1>4. UNCHANGED <<runPc, runOf, runConn, holder, conn, queue, reply>>
  BY DEF CancelRefused, Cancel, runVars
<1>5. LineIsFair'
  <2>1. ~InLine(k) /\ \A x \in Jobs : InLine(x) => InLine(x)'
    BY <1>1, <1>4 DEF InLine, CancelRefused, Cancel, TypeOK, Jobs
  <2>2. CASE CancelRefused(q, k)
    BY <2>1, <2>2, LineStays DEF CancelRefused
  <2>3. CASE Cancel(q, k)
    <3>1. InLine(k)' /\ waiting' = Append(waiting, k)
      BY <1>1, <2>3 DEF InLine, Cancel, TypeOK
    <3> QED BY <1>1, <2>1, <3>1, LineGrows
  <2> QED BY <2>2, <2>3
<1>6. ReplyIsToSomething' /\ RunsHaveQuery' /\ HeldIsOpen'
  BY <1>4 DEF ReplyIsToSomething, RunsHaveQuery, HeldIsOpen, Open
<1>7. HoldersAreActive'
  <2>1. \A x \in Jobs : Active(x)' <=> Active(x)
    BY <1>1, <1>4 DEF Active, CancelRefused, Cancel, TypeOK, Jobs
  <2> QED BY <1>4, <2>1, HoldersStay
<1> QED BY <1>3, <1>5, <1>6, <1>7

LEMMA GrantKeepsJobs ==
    ASSUME JobInv, NEW b \in Conns, Grant(b)
    PROVE  JobInv'
<1> USE QueryAssumption DEF JobInv
<1>0. waiting \in Seq(Jobs) /\ waiting # <<>>
  BY DEF Grant, TypeOK
<1>1. PICK j \in Jobs : /\ j = Head(waiting) /\ j = waiting[1] /\ 1 \in 1..Len(waiting)
                        /\ Tail(waiting) \in Seq(Jobs)
  <2>1. /\ Head(waiting) \in Jobs /\ Head(waiting) = waiting[1] /\ Len(waiting) \in Nat
        /\ Len(waiting) > 0 /\ Tail(waiting) \in Seq(Jobs)
    BY <1>0, HeadAndTail, Zenon
  <2> QED BY <2>1
<1>2. InLine(j) /\ j # None /\ (j \in Runs \/ (j \in Cancels /\ j \notin Runs))
  BY <1>1 DEF LineIsFair, Jobs
<1>3. /\ holder' = [holder EXCEPT ![b] = j]
      /\ queue' = [queue EXCEPT ![b] = Append(@, j)]
      /\ waiting' = Tail(waiting)
      /\ conn' = [conn EXCEPT ![b] = IF @ = "unused" THEN "open" ELSE @]
      /\ UNCHANGED <<adapter, queryVars, runOf, outcome, cancelOf, target, reply>>
      /\ b \in Idle \/ MayOpen(b)
  BY <1>1 DEF Grant
<1>11. j \in Runs => /\ runPc' = [runPc EXCEPT ![j] = "pid"]
                     /\ runConn' = [runConn EXCEPT ![j] = b]
                     /\ UNCHANGED cancelPc
  BY <1>1 DEF Grant
<1>12. j \notin Runs => /\ cancelPc' = [cancelPc EXCEPT ![j] = "killing"]
                        /\ UNCHANGED <<runPc, runConn>>
  BY <1>1 DEF Grant
<1>4. queue[b] \in Seq(Jobs)
  BY DEF TypeOK
<1>5. Append(queue[b], j) \in Seq(Jobs) /\ Append(queue[b], j) # <<>>
  BY <1>1, <1>4, Appended
<1>6. TypeOK'
  <2>1. queue' \in [Conns -> Seq(Jobs)] /\ waiting' \in Seq(Jobs)
    BY <1>1, <1>3, <1>5 DEF TypeOK
  <2>2. /\ holder' \in [Conns -> Jobs \cup {None}]
        /\ conn' \in [Conns -> {"unused", "open", "lost", "closed"}]
    BY <1>1, <1>3 DEF TypeOK
  <2>3. /\ runPc' \in [Runs -> {"idle", "waiting", "pid", "racing", "done"}]
        /\ runConn' \in [Runs -> Conns \cup {None}]
        /\ cancelPc' \in [Cancels -> {"idle", "refused", "waiting", "killing", "accepted", "failed"}]
    <3>1. CASE j \in Runs
      <4>1. /\ runPc' = [runPc EXCEPT ![j] = "pid"] /\ runConn' = [runConn EXCEPT ![j] = b]
            /\ cancelPc' = cancelPc
        BY <1>11, <3>1
      <4> QED BY <4>1 DEF TypeOK
    <3>2. CASE j \notin Runs
      BY <1>12, <3>2 DEF TypeOK
    <3> QED BY <3>1, <3>2
  <2>4. UNCHANGED <<adapter, pid, canceling, canceled, discarded, runOf, outcome, cancelOf, target,
                    reply>>
    BY <1>3 DEF queryVars
  <2> QED BY <2>1, <2>2, <2>3, <2>4 DEF TypeOK
<1>7. LineIsFair'
  <2>1. \A x \in Jobs : InLine(x) /\ x # j => InLine(x)'
    BY <1>2, <1>11, <1>12 DEF InLine, TypeOK, Jobs
  <2> QED BY <1>0, <1>1, <1>3, <2>1, LineShrinks
<1>8. ReplyIsToSomething'
  BY <1>3, <1>5 DEF ReplyIsToSomething, TypeOK
<1>9. RunsHaveQuery'
  BY <1>2, <1>3, <1>11, <1>12 DEF RunsHaveQuery, InLine, TypeOK, queryVars
<1>10. HoldersAreActive'
  <2>1. holder[b] = None
    BY <1>3 DEF Idle, MayOpen, IsNext, Open, HeldIsOpen
  <2>2. ~Active(j) /\ Active(j)' /\ \A x \in Jobs : x # j => (Active(x)' <=> Active(x))
    BY <1>2, <1>11, <1>12 DEF Active, InLine, Jobs, TypeOK
  <2>3. \A c \in Conns : holder'[c] = IF c = b THEN j ELSE holder[c]
    BY <1>3 DEF TypeOK
  <2>4. \A c \in Conns : holder[c] # j
    BY <1>1, <2>2 DEF HoldersAreActive
  <2>5. \A r \in Runs : r # j => runConn'[r] = runConn[r]
    BY <1>11, <1>12 DEF TypeOK
  <2>6. j \in Runs => runConn'[j] = b
    BY <1>11 DEF TypeOK
  <2>7. \A c \in Conns, x \in Jobs : holder'[c] = x => Active(x)'
    BY <2>2, <2>3 DEF HoldersAreActive
  <2>8. \A c \in Conns, r \in Runs : holder'[c] = r => runConn'[r] = c
    BY <2>3, <2>4, <2>5, <2>6 DEF HoldersAreActive
  <2>9. \A c, d \in Conns, x \in Jobs : holder'[c] = x /\ holder'[d] = x => c = d
    BY <2>3, <2>4 DEF HoldersAreActive
  <2>10. \A x \in Jobs : Active(x)' => \E c \in Conns : holder'[c] = x
    <3> SUFFICES ASSUME NEW x \in Jobs, Active(x)' PROVE \E c \in Conns : holder'[c] = x
      OBVIOUS
    <3>1. CASE x = j
      BY <2>3, <3>1
    <3>2. CASE x # j
      <4>1. PICK c \in Conns : holder[c] = x
        BY <2>2, <3>2 DEF HoldersAreActive
      <4>2. c # b
        BY <2>1, <4>1 DEF Jobs
      <4> QED BY <2>3, <4>1, <4>2
    <3> QED BY <3>1, <3>2
  <2> QED BY <2>7, <2>8, <2>9, <2>10 DEF HoldersAreActive
<1>13. HeldIsOpen'
  BY <1>3 DEF HeldIsOpen, Open, Idle, MayOpen, IsNext, TypeOK
<1> QED BY <1>6, <1>7, <1>8, <1>9, <1>10, <1>13

\* What GiveUp() and EndRun() do to the jobs.
LEMMA GiveUpDoes ==
    ASSUME TypeOK, NEW j \in Jobs, GiveUp(j)
    PROVE  /\ runPc' \in [Runs -> {"idle", "waiting", "pid", "racing", "done"}]
           /\ outcome' \in [Runs -> {"none", "rows", "undefined", "canceled", "marked", "error"}]
           /\ cancelPc' \in [Cancels -> {"idle", "refused", "waiting", "killing", "accepted", "failed"}]
           /\ canceling' \in [Queries -> BOOLEAN]
           /\ \A r \in Runs : runPc'[r] = IF r = j THEN "done" ELSE runPc[r]
           /\ \A r \in Runs : outcome'[r] = IF r = j THEN "error" ELSE outcome[r]
           /\ \A k \in Cancels : cancelPc'[k] = IF k = j THEN "failed" ELSE cancelPc[k]
           /\ \A q \in Queries : canceling'[q] =>
                canceling[q] /\ \A k \in Cancels : k = j => cancelOf[k] # q
<1>1. (j \in Runs /\ j \notin Cancels) \/ (j \in Cancels /\ j \notin Runs)
  BY QueryAssumption DEF Jobs
<1>2. canceling' \in [Queries -> BOOLEAN]
  BY Zenon DEF GiveUp, TypeOK
<1>3. CASE j \in Runs
  BY <1>1, <1>2, <1>3 DEF GiveUp, TypeOK
<1>4. CASE j \in Cancels /\ j \notin Runs
  <2>1. \A q \in Queries : canceling'[q] => canceling[q] /\ cancelOf[j] # q
    BY <1>4 DEF GiveUp, TypeOK
  <2> QED BY <1>1, <1>2, <1>4, <2>1 DEF GiveUp, TypeOK
<1> QED BY <1>1, <1>3, <1>4

LEMMA EndRunDoes ==
    ASSUME TypeOK, NEW r \in Runs,
           NEW result \in {"rows", "undefined", "canceled", "marked", "error"}, EndRun(r, result)
    PROVE  /\ runPc' \in [Runs -> {"idle", "waiting", "pid", "racing", "done"}]
           /\ outcome' \in [Runs -> {"none", "rows", "undefined", "canceled", "marked", "error"}]
           /\ discarded' \in [Queries -> BOOLEAN]
           /\ \A x \in Runs : runPc'[x] = IF x = r THEN "done" ELSE runPc[x]
           /\ \A x \in Runs : outcome'[x] = IF x = r THEN result ELSE outcome[x]
           /\ Released(runConn[r])
<1>1. discarded' \in [Queries -> BOOLEAN]
  BY Zenon DEF EndRun, TypeOK
<1> QED BY <1>1 DEF EndRun, TypeOK

LEMMA GrantFailsKeepsJobs ==
    ASSUME JobInv, GrantFails
    PROVE  JobInv'
<1> USE QueryAssumption DEF JobInv
<1>0. waiting \in Seq(Jobs) /\ waiting # <<>>
  BY DEF GrantFails, TypeOK
<1>1. PICK j \in Jobs : /\ j = Head(waiting) /\ j = waiting[1] /\ 1 \in 1..Len(waiting)
                        /\ Tail(waiting) \in Seq(Jobs)
  <2>1. /\ Head(waiting) \in Jobs /\ Head(waiting) = waiting[1] /\ Len(waiting) \in Nat
        /\ Len(waiting) > 0 /\ Tail(waiting) \in Seq(Jobs)
    BY <1>0, HeadAndTail, Zenon
  <2> QED BY <2>1
<1>2. InLine(j)
  BY <1>1 DEF LineIsFair
<1>3. /\ GiveUp(j) /\ waiting' = Tail(waiting)
      /\ UNCHANGED <<adapter, pid, canceled, discarded, runOf, runConn, cancelOf, target, holder,
                     conn, queue, reply>>
  BY <1>1 DEF GrantFails
<1>4. /\ \A r \in Runs : runPc'[r] = IF r = j THEN "done" ELSE runPc[r]
      /\ \A k \in Cancels : cancelPc'[k] = IF k = j THEN "failed" ELSE cancelPc[k]
  BY <1>3, GiveUpDoes
<1>5. TypeOK'
  BY <1>1, <1>3, GiveUpDoes DEF TypeOK
<1>6. LineIsFair'
  <2>1. \A x \in Jobs : InLine(x) /\ x # j => InLine(x)'
    BY <1>4 DEF InLine, Jobs
  <2> QED BY <1>0, <1>1, <1>3, <2>1, LineShrinks
<1>7. HoldersAreActive'
  <2>1. \A x \in Jobs : Active(x)' <=> Active(x)
    BY <1>2, <1>4 DEF Active, InLine, Jobs
  <2> QED BY <1>3, <2>1, HoldersStay
<1>8. RunsHaveQuery'
  BY <1>2, <1>3, <1>4 DEF RunsHaveQuery, InLine
<1>9. ReplyIsToSomething' /\ HeldIsOpen'
  BY <1>3 DEF ReplyIsToSomething, HeldIsOpen, Open
<1> QED BY <1>5, <1>6, <1>7, <1>8, <1>9

\* The adapter takes an answer.
LEMMA AnswerTaken ==
    ASSUME TypeOK, ReplyIsToSomething, NEW b \in Conns, reply[b] # "none",
           queue' = [queue EXCEPT ![b] = Tail(@)], reply' = [reply EXCEPT ![b] = "none"]
    PROVE  /\ queue' \in [Conns -> Seq(Jobs)] /\ ReplyIsToSomething'
           /\ reply' \in [Conns -> {"none", "busy", "ok", "err", "killed"}]
<1>1. queue[b] \in Seq(Jobs) /\ queue[b] # <<>>
  BY DEF ReplyIsToSomething, TypeOK
<1>2. Tail(queue[b]) \in Seq(Jobs)
  BY <1>1, HeadAndTail, Zenon
<1> QED BY <1>2 DEF ReplyIsToSomething, TypeOK

\* The server's steps, and answers to nobody.
LEMMA ServerKeepsJobs ==
    ASSUME JobInv, NEW b \in Conns, Begin(b) \/ Serve(b) \/ Kill(b) \/ ReceiveOrphan(b)
    PROVE  JobInv'
<1> USE QueryAssumption DEF JobInv
<1>1. UNCHANGED <<adapter, queryVars, runVars, cancelVars, waiting, holder>>
  BY DEF Begin, Serve, Kill, ReceiveOrphan
<1>2. /\ reply' \in [Conns -> {"none", "busy", "ok", "err", "killed"}]
      /\ conn' \in [Conns -> {"unused", "open", "lost", "closed"}]
      /\ \A c \in Conns : reply'[c] # "none" => reply[c] # "none" \/ queue[c] # <<>>
      /\ Open' = Open
  <2>1. CASE Begin(b) \/ Serve(b) \/ ReceiveOrphan(b)
    <3>1. reply' \in [Conns -> {"none", "busy", "ok", "err", "killed"}]
      BY <2>1 DEF Begin, Serve, ReceiveOrphan, TypeOK
    <3>2. \A c \in Conns : reply'[c] # "none" => reply[c] # "none" \/ queue[c] # <<>>
      BY <2>1 DEF Begin, Serve, ReceiveOrphan, TypeOK
    <3>3. UNCHANGED conn
      BY <2>1 DEF Begin, Serve, ReceiveOrphan
    <3> QED BY <3>1, <3>2, <3>3 DEF TypeOK, Open
  <2>2. CASE Kill(b)
    BY <2>2 DEF Kill, TypeOK, Open
  <2> QED BY <2>1, <2>2
<1>3. queue' \in [Conns -> Seq(Jobs)] /\ ReplyIsToSomething'
  <2>1. CASE UNCHANGED queue
    BY <1>2, <2>1 DEF TypeOK, ReplyIsToSomething
  <2>2. CASE ReceiveOrphan(b)
    BY <2>2, AnswerTaken DEF ReceiveOrphan, Answered
  <2> QED BY <2>1, <2>2 DEF Begin, Serve, Kill
<1>4. TypeOK'
  BY <1>1, <1>2, <1>3 DEF TypeOK, queryVars, runVars, cancelVars
<1>5. LineIsFair' /\ RunsHaveQuery' /\ HoldersAreActive' /\ HeldIsOpen'
  BY <1>1, <1>2 DEF LineIsFair, InLine, RunsHaveQuery, HoldersAreActive, Active, HeldIsOpen,
     runVars, cancelVars
<1> QED BY <1>3, <1>4, <1>5

\* A run whose race is over gives back the connection it holds.
LEMMA EndedRunReleases ==
    ASSUME JobInv, NEW r \in Runs, NEW b \in Conns, holder[b] = r,
           NEW result \in {"rows", "undefined", "canceled", "marked", "error"}, EndRun(r, result),
           UNCHANGED <<runOf, runConn, cancelPc, waiting>>,
           \A c \in Conns : c # b => conn'[c] = conn[c]
    PROVE  LineIsFair' /\ RunsHaveQuery' /\ HoldersAreActive' /\ HeldIsOpen'
<1> USE QueryAssumption DEF JobInv
<1>1. r \in Jobs /\ Active(r) /\ runConn[r] = b
  BY DEF HoldersAreActive, Jobs
<1>2. Released(b) /\ \A x \in Runs : runPc'[x] = IF x = r THEN "done" ELSE runPc[x]
  BY <1>1, EndRunDoes
<1>3. LineIsFair'
  <2>1. \A x \in Jobs : InLine(x) => InLine(x)'
    BY <1>1, <1>2 DEF InLine, Active
  <2> QED BY <2>1, LineStays
<1>4. HoldersAreActive'
  <2>1. ~Active(r)' /\ \A x \in Jobs : x # r => (Active(x)' <=> Active(x))
    BY <1>2 DEF Active
  <2> QED BY <1>1, <1>2, <2>1, HolderReleases
<1>5. RunsHaveQuery'
  BY <1>1, <1>2 DEF RunsHaveQuery, Active
<1>6. HeldIsOpen'
  BY <1>2 DEF Released, HeldIsOpen, Open, TypeOK
<1> QED BY <1>3, <1>4, <1>5, <1>6

LEMMA ReceivePidKeepsJobs ==
    ASSUME JobInv, NEW b \in Conns, ReceivePid(b)
    PROVE  JobInv'
<1> USE QueryAssumption DEF JobInv
<1>1. PICK r \in Runs : r = holder[b] /\ runPc[r] = "pid"
  BY DEF ReceivePid
<1>2. PICK q \in Queries : q = runOf[r]
  BY <1>1 DEF RunsHaveQuery, TypeOK
<1>3. r \in Jobs /\ queue[b] \in Seq(Jobs) /\ queue[b] # <<>>
  BY <1>1 DEF ReceivePid, ReplyIsToSomething, TypeOK, Jobs
<1>4. Tail(queue[b]) \in Seq(Jobs)
  BY <1>3, HeadAndTail, Zenon
<1>5. Append(Tail(queue[b]), r) \in Seq(Jobs) /\ Append(Tail(queue[b]), r) # <<>>
  BY <1>3, <1>4, Appended
<1>6. /\ reply' = [reply EXCEPT ![b] = "none"]
      /\ queue' = [queue EXCEPT ![b] = Append(Tail(@), r)]
      /\ UNCHANGED <<adapter, canceling, canceled, runOf, runConn, cancelVars, waiting, conn>>
      /\ pid' = [pid EXCEPT ![q] = IF WaitResult(q) = "undefined" THEN None ELSE b]
  BY <1>1, <1>2 DEF ReceivePid, NotePid
<1>7. /\ queue' \in [Conns -> Seq(Jobs)] /\ ReplyIsToSomething'
      /\ reply' \in [Conns -> {"none", "busy", "ok", "err", "killed"}]
      /\ pid' \in [Queries -> Conns \cup {None}]
  BY <1>5, <1>6 DEF TypeOK, ReplyIsToSomething
<1>8. CASE WaitResult(q) = "none"
  <2>1. runPc' = [runPc EXCEPT ![r] = "racing"] /\ UNCHANGED <<outcome, discarded, holder>>
    BY <1>1, <1>2, <1>8 DEF ReceivePid
  <2>2. TypeOK'
    BY <1>6, <1>7, <2>1 DEF TypeOK, cancelVars
  <2>3. \A x \in Jobs : (InLine(x) => InLine(x)') /\ (Active(x)' <=> Active(x))
    BY <1>1, <1>6, <2>1 DEF InLine, Active, TypeOK, cancelVars
  <2>4. LineIsFair' /\ HoldersAreActive'
    BY <1>6, <2>1, <2>3, LineStays, HoldersStay
  <2>5. RunsHaveQuery' /\ HeldIsOpen'
    BY <1>1, <1>6, <2>1 DEF RunsHaveQuery, HeldIsOpen, Open, TypeOK
  <2> QED BY <1>7, <2>2, <2>4, <2>5
<1>9. CASE WaitResult(q) # "none"
  <2>1. WaitResult(q) \in {"undefined", "canceled"} /\ EndRun(r, WaitResult(q))
    BY <1>1, <1>2, <1>9 DEF ReceivePid, WaitResult
  <2>2. LineIsFair' /\ RunsHaveQuery' /\ HoldersAreActive' /\ HeldIsOpen'
    BY <1>1, <1>6, <2>1, EndedRunReleases DEF cancelVars
  <2>3. TypeOK'
    <3>1. /\ runPc' \in [Runs -> {"idle", "waiting", "pid", "racing", "done"}]
          /\ outcome' \in [Runs -> {"none", "rows", "undefined", "canceled", "marked", "error"}]
          /\ discarded' \in [Queries -> BOOLEAN]
      BY <2>1, EndRunDoes
    <3>2. holder' \in [Conns -> Jobs \cup {None}]
      BY <2>1 DEF EndRun, Released, TypeOK
    <3> QED BY <1>6, <1>7, <3>1, <3>2 DEF TypeOK, cancelVars
  <2> QED BY <1>7, <2>2, <2>3
<1> QED BY <1>8, <1>9

LEMMA ReceiveRowsKeepsJobs ==
    ASSUME JobInv, NEW b \in Conns, ReceiveRows(b)
    PROVE  JobInv'
<1> USE QueryAssumption DEF JobInv
<1>1. PICK r \in Runs : holder[b] = r /\ Racing(r) /\ StatementWins(r, reply[b])
  BY DEF ReceiveRows
<1>2. /\ reply[b] # "none" /\ queue' = [queue EXCEPT ![b] = Tail(@)]
      /\ reply' = [reply EXCEPT ![b] = "none"]
      /\ UNCHANGED <<adapter, canceled, runOf, runConn, cancelVars, waiting, conn>>
  BY DEF ReceiveRows, Answered
<1>3. PICK result \in {"rows", "marked", "error"} : EndRun(r, result)
  BY <1>1 DEF StatementWins
<1>4. LineIsFair' /\ RunsHaveQuery' /\ HoldersAreActive' /\ HeldIsOpen'
  BY <1>1, <1>2, <1>3, EndedRunReleases DEF cancelVars
<1>5. ReplyIsToSomething'
  BY <1>2, AnswerTaken
<1>6. TypeOK'
  <2>1. /\ runPc' \in [Runs -> {"idle", "waiting", "pid", "racing", "done"}]
        /\ outcome' \in [Runs -> {"none", "rows", "undefined", "canceled", "marked", "error"}]
        /\ discarded' \in [Queries -> BOOLEAN]
    BY <1>3, EndRunDoes
  <2>2. holder' \in [Conns -> Jobs \cup {None}]
    BY <1>3 DEF EndRun, Released, TypeOK
  <2>3. /\ queue' \in [Conns -> Seq(Jobs)]
        /\ reply' \in [Conns -> {"none", "busy", "ok", "err", "killed"}]
    BY <1>2, AnswerTaken
  <2>4. pid' \in [Queries -> Conns \cup {None}]
    BY <1>1 DEF StatementWins, TypeOK
  <2>5. canceling' \in [Queries -> BOOLEAN]
    BY <1>1, Zenon DEF StatementWins, TypeOK
  <2> QED BY <1>2, <2>1, <2>2, <2>3, <2>4, <2>5 DEF TypeOK, cancelVars
<1> QED BY <1>4, <1>5, <1>6

LEMMA PollKeepsJobs ==
    ASSUME JobInv, NEW r \in Runs, Poll(r)
    PROVE  JobInv'
<1> USE QueryAssumption DEF JobInv
<1>1. PICK b \in Conns : holder[b] = r
  BY DEF Poll, Racing, Active, HoldersAreActive, Jobs
<1>2. PICK result \in {"undefined", "canceled"} : EndRun(r, result)
  BY DEF Poll, WaitResult
<1>3. UNCHANGED <<adapter, canceling, canceled, runOf, runConn, cancelVars, waiting, conn,
                  queue, reply>>
  BY DEF Poll
<1>4. LineIsFair' /\ RunsHaveQuery' /\ HoldersAreActive' /\ HeldIsOpen'
  BY <1>1, <1>2, <1>3, EndedRunReleases DEF cancelVars
<1>5. ReplyIsToSomething'
  BY <1>3 DEF ReplyIsToSomething
<1>6. TypeOK'
  <2>1. /\ runPc' \in [Runs -> {"idle", "waiting", "pid", "racing", "done"}]
        /\ outcome' \in [Runs -> {"none", "rows", "undefined", "canceled", "marked", "error"}]
        /\ discarded' \in [Queries -> BOOLEAN]
    BY <1>2, EndRunDoes
  <2>2. holder' \in [Conns -> Jobs \cup {None}]
    BY <1>2 DEF EndRun, Released, TypeOK
  <2>3. pid' \in [Queries -> Conns \cup {None}]
    BY DEF Poll, TypeOK
  <2> QED BY <1>3, <2>1, <2>2, <2>3 DEF TypeOK, cancelVars
<1> QED BY <1>4, <1>5, <1>6

\* A kill, or a request for a pid, is answered, or a connection is lost before that.
LEMMA ReceiveKilledKeepsJobs ==
    ASSUME JobInv, NEW b \in Conns, ReceiveKilled(b)
    PROVE  JobInv'
<1> USE QueryAssumption DEF JobInv
<1>1. PICK k \in Cancels : k = holder[b]
  BY DEF ReceiveKilled
<1>2. k \in Jobs /\ k \notin Runs /\ cancelPc[k] = "killing"
  BY <1>1 DEF HoldersAreActive, Active, Jobs
<1>3. /\ cancelPc' = [cancelPc EXCEPT ![k] = "accepted"]
      /\ canceled' = [canceled EXCEPT ![cancelOf[k]] = TRUE]
      /\ Released(b) /\ reply[b] # "none"
      /\ reply' = [reply EXCEPT ![b] = "none"]
      /\ queue' = [queue EXCEPT ![b] = Tail(@)]
      /\ UNCHANGED <<adapter, pid, canceling, discarded, runVars, cancelOf, target, waiting, conn>>
  BY <1>1 DEF ReceiveKilled
<1>4. TypeOK'
  <2>1. /\ queue' \in [Conns -> Seq(Jobs)]
        /\ reply' \in [Conns -> {"none", "busy", "ok", "err", "killed"}]
    BY <1>3, AnswerTaken
  <2>2. canceled' \in [Queries -> BOOLEAN]
    BY <1>3, Zenon DEF TypeOK
  <2>3. /\ cancelPc' \in [Cancels -> {"idle", "refused", "waiting", "killing", "accepted", "failed"}]
        /\ holder' \in [Conns -> Jobs \cup {None}]
    BY <1>3 DEF Released, TypeOK
  <2> QED BY <1>3, <2>1, <2>2, <2>3 DEF TypeOK, runVars
<1>5. LineIsFair'
  <2>1. \A x \in Jobs : InLine(x) => InLine(x)'
    BY <1>2, <1>3 DEF InLine, TypeOK, Jobs, runVars
  <2> QED BY <1>3, <2>1, LineStays
<1>6. HoldersAreActive'
  <2>1. ~Active(k)' /\ \A x \in Jobs : x # k => (Active(x)' <=> Active(x))
    BY <1>2, <1>3 DEF Active, TypeOK, Jobs, runVars
  <2> QED BY <1>1, <1>2, <1>3, <2>1, HolderReleases DEF runVars
<1>7. ReplyIsToSomething'
  BY <1>3, AnswerTaken
<1>8. RunsHaveQuery' /\ HeldIsOpen'
  BY <1>3 DEF RunsHaveQuery, HeldIsOpen, Open, Released, TypeOK, runVars
<1> QED BY <1>4, <1>5, <1>6, <1>7, <1>8

\* A job that is given up gives back the connection it holds.
LEMMA GivenUpReleases ==
    ASSUME JobInv, NEW j \in Jobs, NEW b \in Conns, holder[b] = j, GiveUp(j), Released(b),
           UNCHANGED <<runOf, runConn, waiting>>
    PROVE  LineIsFair' /\ RunsHaveQuery' /\ HoldersAreActive'
<1> USE QueryAssumption DEF JobInv
<1>1. Active(j)
  BY DEF HoldersAreActive
<1>2. /\ \A r \in Runs : runPc'[r] = IF r = j THEN "done" ELSE runPc[r]
      /\ \A k \in Cancels : cancelPc'[k] = IF k = j THEN "failed" ELSE cancelPc[k]
  BY GiveUpDoes
<1>3. LineIsFair'
  <2>1. \A x \in Jobs : InLine(x) => InLine(x)'
    BY <1>1, <1>2 DEF InLine, Active, Jobs
  <2> QED BY <2>1, LineStays
<1>4. HoldersAreActive'
  <2>1. ~Active(j)' /\ \A x \in Jobs : x # j => (Active(x)' <=> Active(x))
    BY <1>2 DEF Active, Jobs
  <2> QED BY <2>1, HolderReleases
<1>5. RunsHaveQuery'
  BY <1>1, <1>2 DEF RunsHaveQuery, Active
<1> QED BY <1>3, <1>4, <1>5

LEMMA ReceiveErrorKeepsJobs ==
    ASSUME JobInv, NEW b \in Conns, ReceiveError(b)
    PROVE  JobInv'
<1> USE QueryAssumption DEF JobInv
<1>1. PICK j \in Jobs : j = holder[b]
  <2>1. queue[b] \in Seq(Jobs) /\ queue[b] # <<>>
    BY DEF ReceiveError, ReplyIsToSomething, TypeOK
  <2>2. Head(queue[b]) \in Jobs
    BY <2>1, HeadAndTail, Zenon
  <2> QED BY <2>2 DEF ReceiveError
<1>2. /\ GiveUp(j) /\ Released(b) /\ reply[b] # "none"
      /\ reply' = [reply EXCEPT ![b] = "none"]
      /\ queue' = [queue EXCEPT ![b] = Tail(@)]
      /\ UNCHANGED <<adapter, pid, canceled, discarded, runOf, runConn, cancelOf, target, waiting,
                     conn>>
  BY <1>1 DEF ReceiveError
<1>3. LineIsFair' /\ RunsHaveQuery' /\ HoldersAreActive'
  BY <1>1, <1>2, GivenUpReleases
<1>4. ReplyIsToSomething'
  BY <1>2, AnswerTaken
<1>5. HeldIsOpen' /\ holder' \in [Conns -> Jobs \cup {None}]
  BY <1>2 DEF HeldIsOpen, Open, Released, TypeOK
<1>6. TypeOK'
  BY <1>2, <1>5, AnswerTaken, GiveUpDoes DEF TypeOK
<1> QED BY <1>3, <1>4, <1>5, <1>6

LEMMA ConnectionLostKeepsJobs ==
    ASSUME JobInv, NEW b \in Conns, ConnectionLost(b)
    PROVE  JobInv'
<1> USE QueryAssumption DEF JobInv
<1>1. /\ conn' = [conn EXCEPT ![b] = "closed"]
      /\ queue' = [queue EXCEPT ![b] = <<>>]
      /\ reply' = [reply EXCEPT ![b] = "none"]
      /\ UNCHANGED <<adapter, canceled, runOf, runConn, cancelOf, target, waiting>>
  BY DEF ConnectionLost
<1>2. /\ queue' \in [Conns -> Seq(Jobs)] /\ ReplyIsToSomething'
      /\ reply' \in [Conns -> {"none", "busy", "ok", "err", "killed"}]
      /\ conn' \in [Conns -> {"unused", "open", "lost", "closed"}]
      /\ \A c \in Conns : c # b => conn'[c] = conn[c]
  BY <1>1 DEF TypeOK, ReplyIsToSomething
<1>3. CASE holder[b] = None
  <2>1. UNCHANGED <<pid, canceling, discarded, runPc, outcome, cancelPc, holder>>
    BY <1>3 DEF ConnectionLost, Jobs
  <2>2. TypeOK'
    BY <1>1, <1>2, <2>1 DEF TypeOK
  <2>3. LineIsFair' /\ RunsHaveQuery' /\ HoldersAreActive'
    BY <1>1, <2>1 DEF LineIsFair, InLine, RunsHaveQuery, HoldersAreActive, Active
  <2>4. HeldIsOpen'
    BY <1>2, <1>3, <2>1 DEF HeldIsOpen, Open
  <2> QED BY <1>2, <2>2, <2>3, <2>4
<1>4. CASE holder[b] \in Runs /\ Racing(holder[b])
  <2>1. PICK r \in Runs : r = holder[b] /\ StatementWins(r, "killed") /\ UNCHANGED cancelPc
    BY <1>4 DEF ConnectionLost
  <2>2. PICK result \in {"marked", "error"} : EndRun(r, result)
    BY <2>1 DEF StatementWins
  <2>3. LineIsFair' /\ RunsHaveQuery' /\ HoldersAreActive' /\ HeldIsOpen'
    BY <1>1, <1>2, <2>1, <2>2, EndedRunReleases
  <2>4. /\ runPc' \in [Runs -> {"idle", "waiting", "pid", "racing", "done"}]
        /\ outcome' \in [Runs -> {"none", "rows", "undefined", "canceled", "marked", "error"}]
        /\ discarded' \in [Queries -> BOOLEAN]
    BY <2>2, EndRunDoes
  <2>5. holder' \in [Conns -> Jobs \cup {None}] /\ UNCHANGED pid
    BY <2>1, <2>2 DEF StatementWins, EndRun, Released, TypeOK
  <2>6. canceling' \in [Queries -> BOOLEAN]
    BY <2>1, Zenon DEF StatementWins, TypeOK
  <2> QED BY <1>1, <1>2, <2>1, <2>3, <2>4, <2>5, <2>6 DEF TypeOK
<1>5. CASE holder[b] # None /\ ~(holder[b] \in Runs /\ Racing(holder[b]))
  <2>1. PICK j \in Jobs : j = holder[b]
    BY <1>5 DEF TypeOK
  <2>2. GiveUp(j) /\ Released(b) /\ UNCHANGED <<pid, discarded>>
    BY <1>5, <2>1 DEF ConnectionLost
  <2>3. LineIsFair' /\ RunsHaveQuery' /\ HoldersAreActive'
    BY <1>1, <2>1, <2>2, GivenUpReleases
  <2>4. HeldIsOpen' /\ holder' \in [Conns -> Jobs \cup {None}]
    BY <1>2, <2>2 DEF HeldIsOpen, Open, Released, TypeOK
  <2>5. TypeOK'
    BY <1>1, <1>2, <2>2, <2>4, GiveUpDoes DEF TypeOK
  <2> QED BY <1>2, <2>3, <2>4, <2>5
<1> QED BY <1>3, <1>4, <1>5

-----------------------------------------------------------------------------
(* Every action keeps CallInv and the limit of the pool.                   *)

\* What a step may do to calls and to what they have learned.
KeepsRuns ==
    \A r \in Runs : /\ runOf[r] # None => runOf'[r] = runOf[r]
                    /\ runConn[r] # None => runConn'[r] = runConn[r]
NotesPids == \A q \in Queries, b \in Conns : pid'[q] = b => pid[q] = b \/ RanOn(q, b)
CallsCancel ==
    \A k \in Cancels : cancelPc'[k] \notin {"idle", "refused"} =>
      \/ /\ cancelPc[k] \notin {"idle", "refused"}
         /\ cancelOf'[k] = cancelOf[k] /\ target'[k] = target[k]
      \/ \E q \in Queries : cancelOf'[k] = q /\ target'[k] = pid[q] /\ pid[q] # None
KeepsAccepted ==
    \A k \in Cancels : cancelPc[k] = "accepted" =>
        cancelPc'[k] = "accepted" /\ cancelOf'[k] = cancelOf[k]
CancelsAccepted ==
    \A q \in Queries : canceled'[q] => canceled[q]
        \/ \E k \in Cancels : cancelPc'[k] = "accepted" /\ cancelOf'[k] = q
EndsCanceled ==
    \A r \in Runs : outcome'[r] = "canceled" =>
        outcome[r] = "canceled" \/ (runOf[r] \in Queries /\ canceled[runOf[r]])
MarksMeant ==
    \A q \in Queries : canceling'[q] =>
        \E k \in Cancels : cancelOf'[k] = q /\ cancelPc'[k] \in {"waiting", "killing", "accepted"}
CallStep ==
    /\ KeepsRuns /\ NotesPids /\ CallsCancel /\ KeepsAccepted /\ CancelsAccepted /\ EndsCanceled
    /\ MarksMeant

LEMMA CallsKeep ==
    ASSUME JobInv, CallInv, CallStep
    PROVE  CallInv'
<1> USE QueryAssumption DEF JobInv, CallInv, CallStep
<1>1. ASSUME NEW q \in Queries, NEW b \in Conns, RanOn(q, b) PROVE RanOn(q, b)'
  <2>1. PICK r \in Runs : runOf[r] = q /\ runConn[r] = b
    BY <1>1 DEF RanOn
  <2>2. q # None /\ b # None
    OBVIOUS
  <2> QED BY <2>1, <2>2 DEF RanOn, KeepsRuns
<1>2. PidIsOfRun'
  BY <1>1 DEF PidIsOfRun, NotesPids
<1>3. TargetIsOfRun'
  <2> SUFFICES ASSUME NEW k \in Cancels, cancelPc'[k] \notin {"idle", "refused"}
               PROVE  \E q \in Queries, b \in Conns :
                        cancelOf'[k] = q /\ target'[k] = b /\ RanOn(q, b)'
    BY DEF TargetIsOfRun
  <2>1. CASE /\ cancelPc[k] \notin {"idle", "refused"}
             /\ cancelOf'[k] = cancelOf[k] /\ target'[k] = target[k]
    BY <1>1, <2>1 DEF TargetIsOfRun
  <2>2. CASE \E q \in Queries : cancelOf'[k] = q /\ target'[k] = pid[q] /\ pid[q] # None
    <3>1. PICK q \in Queries, b \in Conns : cancelOf'[k] = q /\ target'[k] = b /\ pid[q] = b
      BY <2>2 DEF TypeOK
    <3> QED BY <1>1, <3>1 DEF PidIsOfRun
  <2> QED BY <2>1, <2>2 DEF CallsCancel
<1>4. CanceledWasAccepted'
  BY DEF CanceledWasAccepted, CancelsAccepted, KeepsAccepted
<1>5. OutcomeWasAccepted'
  <2> SUFFICES ASSUME NEW r \in Runs, outcome'[r] = "canceled"
               PROVE  \E k \in Cancels : cancelPc'[k] = "accepted" /\ cancelOf'[k] = runOf'[r]
    BY DEF OutcomeWasAccepted
  <2>1. PICK k \in Cancels : cancelPc[k] = "accepted" /\ cancelOf[k] = runOf[r]
    BY DEF OutcomeWasAccepted, CanceledWasAccepted, EndsCanceled
  <2>2. runOf[r] # None
    BY <2>1 DEF TargetIsOfRun
  <2> QED BY <2>1, <2>2 DEF KeepsAccepted, KeepsRuns
<1>6. FlagIsMeant'
  BY DEF FlagIsMeant, MarksMeant
<1> QED BY <1>2, <1>3, <1>4, <1>5, <1>6

\* A step that concerns runs only.
LEMMA NoCancelStep ==
    ASSUME CallInv, UNCHANGED <<cancelPc, cancelOf, target, canceled>>,
           \A q \in Queries : canceling'[q] => canceling[q]
    PROVE  CallsCancel /\ KeepsAccepted /\ CancelsAccepted /\ MarksMeant
  BY DEF CallInv, CallsCancel, KeepsAccepted, CancelsAccepted, MarksMeant, FlagIsMeant

LEMMA ExecuteKeepsCalls ==
    ASSUME JobInv, CallInv, NEW q \in Queries, NEW r \in Runs, Execute(q, r)
    PROVE  CallStep
<1>1. runOf[r] = None
  BY DEF Execute, IsNext, JobInv, RunsHaveQuery
<1>2. \A x \in Runs : runOf[x] # None => runOf'[x] = runOf[x]
  BY <1>1 DEF Execute, JobInv, TypeOK
<1>3. UNCHANGED <<pid, canceling, canceled, runConn, outcome, cancelPc, cancelOf, target>>
  BY DEF Execute, queryVars, cancelVars
<1>4. KeepsRuns /\ NotesPids /\ EndsCanceled
  BY <1>2, <1>3 DEF KeepsRuns, NotesPids, EndsCanceled
<1> QED BY <1>3, <1>4, NoCancelStep DEF CallStep

LEMMA CancelKeepsCalls ==
    ASSUME JobInv, CallInv, NEW q \in Queries, NEW k \in Cancels, CancelRefused(q, k) \/ Cancel(q, k)
    PROVE  CallStep
<1> USE DEF JobInv
<1>1. cancelPc[k] = "idle"
  BY DEF CancelRefused, Cancel, IsNext
<1>2. UNCHANGED <<pid, canceled, runOf, runConn, outcome>>
  BY DEF CancelRefused, Cancel, queryVars, runVars
<1>3. \A x \in Cancels : x # k =>
        cancelPc'[x] = cancelPc[x] /\ cancelOf'[x] = cancelOf[x] /\ target'[x] = target[x]
  BY DEF CancelRefused, Cancel, TypeOK
<1>4. /\ cancelOf'[k] = q
      /\ \/ cancelPc'[k] = "refused" /\ UNCHANGED canceling
         \/ cancelPc'[k] = "waiting" /\ target'[k] = pid[q] /\ pid[q] # None
  BY DEF CancelRefused, Cancel, PidToKill, TypeOK, queryVars
<1>5. \A p \in Queries : p # q => canceling'[p] = canceling[p]
  BY DEF CancelRefused, Cancel, TypeOK, queryVars
<1>6. KeepsRuns /\ NotesPids /\ EndsCanceled /\ CancelsAccepted
  BY <1>2 DEF KeepsRuns, NotesPids, EndsCanceled, CancelsAccepted
<1>7. CallsCancel /\ KeepsAccepted
  BY <1>1, <1>3, <1>4 DEF CallsCancel, KeepsAccepted
<1>8. MarksMeant
  <2> SUFFICES ASSUME NEW p \in Queries, canceling'[p]
               PROVE  \E x \in Cancels : /\ cancelOf'[x] = p
                                         /\ cancelPc'[x] \in {"waiting", "killing", "accepted"}
    BY DEF MarksMeant
  <2>1. CASE p = q /\ cancelPc'[k] = "waiting"
    BY <1>4, <2>1
  <2>2. CASE ~(p = q /\ cancelPc'[k] = "waiting")
    <3>1. canceling[p]
      BY <1>4, <1>5, <2>2
    <3>2. PICK x \in Cancels : cancelOf[x] = p /\ cancelPc[x] \in {"waiting", "killing", "accepted"}
      BY <3>1 DEF CallInv, FlagIsMeant
    <3> QED BY <1>1, <1>3, <3>2
  <2> QED BY <2>1, <2>2
<1> QED BY <1>6, <1>7, <1>8 DEF CallStep

\* A job gets a connection.
LEMMA GrantKeepsCalls ==
    ASSUME JobInv, CallInv, NEW b \in Conns, Grant(b)
    PROVE  CallStep
<1> USE QueryAssumption DEF JobInv
<1>0. waiting \in Seq(Jobs) /\ waiting # <<>>
  BY DEF Grant, TypeOK
<1>1. PICK j \in Jobs : j = Head(waiting) /\ InLine(j)
  <2>1. /\ Head(waiting) \in Jobs /\ Head(waiting) = waiting[1] /\ Len(waiting) \in Nat
        /\ Len(waiting) > 0
    BY <1>0, HeadAndTail, Zenon
  <2> QED BY <2>1 DEF LineIsFair
<1>2. UNCHANGED <<pid, canceling, canceled, runOf, outcome, cancelOf, target>>
  BY DEF Grant, queryVars
<1>3. CASE j \in Runs
  <2>1. runConn' = [runConn EXCEPT ![j] = b] /\ UNCHANGED cancelPc
    BY <1>1, <1>3 DEF Grant
  <2>2. KeepsRuns /\ NotesPids /\ EndsCanceled
    BY <1>1, <1>2, <1>3, <2>1 DEF KeepsRuns, NotesPids, EndsCanceled, InLine, RunsHaveQuery, TypeOK
  <2> QED BY <1>2, <2>1, <2>2, NoCancelStep DEF CallStep
<1>4. CASE j \notin Runs
  <2>1. cancelPc' = [cancelPc EXCEPT ![j] = "killing"] /\ UNCHANGED runConn
    BY <1>1, <1>4 DEF Grant
  <2>2. j \in Cancels /\ cancelPc[j] = "waiting"
    BY <1>1, <1>4 DEF InLine, Jobs
  <2>3. KeepsRuns /\ NotesPids /\ EndsCanceled /\ CancelsAccepted
    BY <1>2, <2>1 DEF KeepsRuns, NotesPids, EndsCanceled, CancelsAccepted
  <2>4. CallsCancel /\ KeepsAccepted
    BY <1>2, <2>1, <2>2 DEF CallsCancel, KeepsAccepted, TypeOK
  <2>5. MarksMeant
    BY <1>2, <2>1, <2>2 DEF CallInv, FlagIsMeant, MarksMeant, TypeOK
  <2> QED BY <2>3, <2>4, <2>5 DEF CallStep
<1> QED BY <1>3, <1>4

\* A job is given up: a cancel() takes its mark back.
LEMMA GiveUpKeepsCalls ==
    ASSUME JobInv, CallInv, NEW j \in Jobs, GiveUp(j), InLine(j) \/ Active(j),
           UNCHANGED <<pid, canceled, runOf, runConn, cancelOf, target>>
    PROVE  CallStep
<1> USE QueryAssumption DEF JobInv
<1>1. /\ \A r \in Runs : outcome'[r] = IF r = j THEN "error" ELSE outcome[r]
      /\ \A k \in Cancels : cancelPc'[k] = IF k = j THEN "failed" ELSE cancelPc[k]
      /\ \A q \in Queries : canceling'[q] =>
           canceling[q] /\ \A k \in Cancels : k = j => cancelOf[k] # q
  BY GiveUpDoes
<1>2. j \in Cancels => cancelPc[j] \in {"waiting", "killing"}
  BY DEF InLine, Active
<1>3. KeepsRuns /\ NotesPids /\ EndsCanceled /\ CancelsAccepted
  BY <1>1 DEF KeepsRuns, NotesPids, EndsCanceled, CancelsAccepted
<1>4. CallsCancel /\ KeepsAccepted
  BY <1>1, <1>2 DEF CallsCancel, KeepsAccepted
<1>5. MarksMeant
  BY <1>1 DEF CallInv, FlagIsMeant, MarksMeant
<1> QED BY <1>3, <1>4, <1>5 DEF CallStep

LEMMA FailuresKeepCalls ==
    ASSUME JobInv, CallInv, GrantFails \/ \E b \in Conns : ReceiveError(b)
    PROVE  CallStep
<1> USE DEF JobInv
<1>1. CASE GrantFails
  <2>1. waiting \in Seq(Jobs) /\ waiting # <<>>
    BY <1>1 DEF GrantFails, TypeOK
  <2>2. /\ Head(waiting) \in Jobs /\ Head(waiting) = waiting[1] /\ Len(waiting) \in Nat
        /\ Len(waiting) > 0
    BY <2>1, HeadAndTail, Zenon
  <2>3. PICK j \in Jobs : j = Head(waiting) /\ InLine(j)
    BY <2>2 DEF LineIsFair
  <2> QED BY <1>1, <2>3, GiveUpKeepsCalls DEF GrantFails
<1>2. CASE \E b \in Conns : ReceiveError(b)
  <2>1. PICK b \in Conns : ReceiveError(b)
    BY <1>2
  <2>2. queue[b] \in Seq(Jobs) /\ queue[b] # <<>> /\ Head(queue[b]) = holder[b]
    BY <2>1 DEF ReceiveError, ReplyIsToSomething, TypeOK
  <2>3. Head(queue[b]) \in Jobs
    BY <2>2, HeadAndTail, Zenon
  <2>4. PICK j \in Jobs : j = holder[b] /\ Active(j)
    BY <2>2, <2>3 DEF HoldersAreActive
  <2> QED BY <2>1, <2>4, GiveUpKeepsCalls DEF ReceiveError
<1> QED BY <1>1, <1>2

\* The race of a run is over, or a run has got its pid.
LEMMA ReceivePidKeepsCalls ==
    ASSUME JobInv, CallInv, NEW b \in Conns, ReceivePid(b)
    PROVE  CallStep
<1> USE QueryAssumption DEF JobInv
<1>1. PICK r \in Runs : r = holder[b] /\ runPc[r] = "pid"
  BY DEF ReceivePid
<1>2. PICK q \in Queries : q = runOf[r]
  BY <1>1 DEF RunsHaveQuery, TypeOK
<1>3. runConn[r] = b
  BY <1>1 DEF HoldersAreActive
<1>4. /\ UNCHANGED <<canceling, canceled, runOf, runConn, cancelPc, cancelOf, target>>
      /\ pid' = [pid EXCEPT ![q] = IF WaitResult(q) = "undefined" THEN None ELSE b]
  BY <1>1, <1>2 DEF ReceivePid, NotePid, cancelVars
<1>5. NotesPids
  <2> SUFFICES ASSUME NEW p \in Queries, NEW c \in Conns, pid'[p] = c
               PROVE  pid[p] = c \/ RanOn(p, c)
    BY DEF NotesPids
  <2>1. CASE p = q
    <3>1. c = b
      BY <1>4, <2>1 DEF TypeOK
    <3> QED BY <1>2, <1>3, <2>1, <3>1 DEF RanOn
  <2>2. CASE p # q
    BY <1>4, <2>2 DEF TypeOK
  <2> QED BY <2>1, <2>2
<1>6. EndsCanceled
  <2>1. CASE WaitResult(q) = "none"
    BY <1>1, <1>2, <2>1 DEF ReceivePid, EndsCanceled
  <2>2. CASE WaitResult(q) # "none"
    <3>1. /\ EndRun(r, WaitResult(q)) /\ WaitResult(q) \in {"undefined", "canceled"}
          /\ WaitResult(q) = "canceled" => canceled[q]
      BY <1>1, <1>2, <2>2 DEF ReceivePid, WaitResult
    <3>2. \A x \in Runs : outcome'[x] = IF x = r THEN WaitResult(q) ELSE outcome[x]
      BY <3>1, EndRunDoes
    <3> QED BY <1>2, <3>1, <3>2 DEF EndsCanceled
  <2> QED BY <2>1, <2>2
<1>7. KeepsRuns
  BY <1>4 DEF KeepsRuns
<1> QED BY <1>4, <1>5, <1>6, <1>7, NoCancelStep DEF CallStep

\* The statement has won the race of a run.
LEMMA WinsKeepCalls ==
    ASSUME JobInv, CallInv, NEW r \in Runs, NEW a, StatementWins(r, a),
           UNCHANGED <<canceled, runOf, runConn, cancelPc, cancelOf, target>>
    PROVE  CallStep
<1> USE QueryAssumption DEF JobInv
<1>1. PICK result \in {"rows", "marked", "error"} : EndRun(r, result)
  BY DEF StatementWins
<1>2. \A x \in Runs : outcome'[x] = IF x = r THEN result ELSE outcome[x]
  BY <1>1, EndRunDoes
<1>3. EndsCanceled
  BY <1>2 DEF EndsCanceled
<1>4. \A q \in Queries : canceling'[q] => canceling[q]
  BY DEF StatementWins, TypeOK
<1>5. NotesPids
  BY DEF NotesPids, StatementWins, TypeOK
<1>6. KeepsRuns
  BY DEF KeepsRuns
<1> QED BY <1>3, <1>4, <1>5, <1>6, NoCancelStep DEF CallStep

LEMMA PollKeepsCalls ==
    ASSUME JobInv, CallInv, NEW r \in Runs, Poll(r)
    PROVE  CallStep
<1> USE QueryAssumption DEF JobInv
<1>1. PICK q \in Queries : q = runOf[r]
  BY DEF Poll, Racing, RunsHaveQuery, TypeOK
<1>2. /\ EndRun(r, WaitResult(q)) /\ WaitResult(q) \in {"undefined", "canceled"}
      /\ WaitResult(q) = "canceled" => canceled[q]
  BY <1>1 DEF Poll, WaitResult
<1>3. \A x \in Runs : outcome'[x] = IF x = r THEN WaitResult(q) ELSE outcome[x]
  BY <1>2, EndRunDoes
<1>4. UNCHANGED <<canceling, canceled, runOf, runConn, cancelPc, cancelOf, target>>
  BY DEF Poll, cancelVars
<1>5. EndsCanceled
  BY <1>1, <1>2, <1>3 DEF EndsCanceled
<1>6. NotesPids
  BY DEF NotesPids, Poll, TypeOK
<1>7. KeepsRuns
  BY <1>4 DEF KeepsRuns
<1> QED BY <1>4, <1>5, <1>6, <1>7, NoCancelStep DEF CallStep

\* A cancel() has succeeded.
LEMMA ReceiveKilledKeepsCalls ==
    ASSUME JobInv, CallInv, NEW b \in Conns, ReceiveKilled(b)
    PROVE  CallStep
<1> USE QueryAssumption DEF JobInv
<1>1. PICK k \in Cancels : k = holder[b] /\ cancelPc[k] = "killing"
  BY DEF ReceiveKilled, HoldersAreActive, Active, Jobs
<1>2. /\ cancelPc' = [cancelPc EXCEPT ![k] = "accepted"]
      /\ canceled' = [canceled EXCEPT ![cancelOf[k]] = TRUE]
      /\ UNCHANGED <<pid, canceling, runOf, runConn, outcome, cancelOf, target>>
  BY <1>1 DEF ReceiveKilled, runVars
<1>3. KeepsRuns /\ NotesPids /\ EndsCanceled
  BY <1>2 DEF KeepsRuns, NotesPids, EndsCanceled
<1>4. CallsCancel /\ KeepsAccepted
  BY <1>1, <1>2 DEF CallsCancel, KeepsAccepted, TypeOK
<1>5. MarksMeant
  BY <1>1, <1>2 DEF CallInv, FlagIsMeant, MarksMeant, TypeOK
<1>6. CancelsAccepted
  BY <1>1, <1>2 DEF CancelsAccepted, TypeOK
<1> QED BY <1>3, <1>4, <1>5, <1>6 DEF CallStep

LEMMA ConnectionLostKeepsCalls ==
    ASSUME JobInv, CallInv, NEW b \in Conns, ConnectionLost(b)
    PROVE  CallStep
<1> USE QueryAssumption DEF JobInv
<1>1. UNCHANGED <<canceled, runOf, runConn, cancelOf, target>>
  BY DEF ConnectionLost
<1>2. CASE holder[b] = None
  <2>1. UNCHANGED <<pid, canceling, outcome, cancelPc>>
    BY <1>2 DEF ConnectionLost, Jobs
  <2>2. KeepsRuns /\ NotesPids /\ EndsCanceled
    BY <1>1, <2>1 DEF KeepsRuns, NotesPids, EndsCanceled
  <2> QED BY <1>1, <2>1, <2>2, NoCancelStep DEF CallStep
<1>3. CASE holder[b] \in Runs /\ Racing(holder[b])
  <2>1. PICK r \in Runs : r = holder[b] /\ StatementWins(r, "killed") /\ UNCHANGED cancelPc
    BY <1>3 DEF ConnectionLost
  <2> QED BY <1>1, <2>1, WinsKeepCalls
<1>4. CASE holder[b] # None /\ ~(holder[b] \in Runs /\ Racing(holder[b]))
  <2>1. PICK j \in Jobs : j = holder[b] /\ Active(j)
    BY <1>4 DEF HoldersAreActive, TypeOK
  <2>2. GiveUp(j) /\ UNCHANGED pid
    BY <1>4, <2>1 DEF ConnectionLost
  <2> QED BY <1>1, <2>1, <2>2, GiveUpKeepsCalls
<1> QED BY <1>2, <1>3, <1>4

LEMMA ServerKeepsCalls ==
    ASSUME JobInv, CallInv, UNCHANGED <<queryVars, runVars, cancelVars>>
    PROVE  CallStep
<1>1. KeepsRuns /\ NotesPids /\ EndsCanceled
  BY DEF KeepsRuns, NotesPids, EndsCanceled, queryVars, runVars
<1> QED BY <1>1, NoCancelStep DEF CallStep, queryVars, cancelVars

\* The pool opens a connection only below its limit, and one that is lost counts until the
\* adapter knows.
LEMMA PoolKeepsLimit ==
    ASSUME TypeOK, PoolIsLimited, [Next]_vars
    PROVE  PoolIsLimited'
<1> USE QueryAssumption
<1>1. CASE Open' = Open
  BY <1>1 DEF PoolIsLimited
<1>2. CASE \E b \in Conns : Grant(b) /\ MayOpen(b)
  <2>1. PICK b \in Conns : Grant(b) /\ MayOpen(b)
    BY <1>2
  <2>2. Open' = Open \cup {b} /\ b \notin Open
    BY <2>1 DEF Grant, MayOpen, IsNext, Open, TypeOK
  <2>3. IsFiniteSet(Open') /\ Cardinality(Open') = Cardinality(Open) + 1
    BY <2>2, FS_AddElement DEF PoolIsLimited
  <2>4. Cardinality(Open) \in Nat /\ Cardinality(Open) < PoolSize
    BY <2>1, FS_CardinalityType DEF PoolIsLimited, MayOpen
  <2> QED BY <2>3, <2>4 DEF PoolIsLimited
<1>3. CASE \E b \in Conns : ConnectionLost(b)
  <2>1. PICK b \in Conns : ConnectionLost(b)
    BY <1>3
  <2>2. Open' \subseteq Open
    BY <2>1 DEF ConnectionLost, Open, TypeOK
  <2>3. IsFiniteSet(Open') /\ Cardinality(Open') <= Cardinality(Open)
    BY <2>2, FS_Subset DEF PoolIsLimited
  <2>4. Cardinality(Open) \in Nat /\ Cardinality(Open') \in Nat
    BY <2>3, FS_CardinalityType DEF PoolIsLimited
  <2> QED BY <2>3, <2>4 DEF PoolIsLimited
<1>4. ASSUME NEW b \in Conns, Grant(b), b \in Idle PROVE Open' = Open
  BY <1>4 DEF Grant, Idle, Open, TypeOK
<1>5. ASSUME NEW b \in Conns, Kill(b) PROVE Open' = Open
  BY <1>5 DEF Kill, Open, TypeOK
<1>6. CASE ~(\E b \in Conns : Grant(b) \/ Kill(b) \/ ConnectionLost(b))
  <2>1. UNCHANGED conn
    BY <1>6 DEF Next, Receive, vars, Execute, CancelRefused, Cancel, GrantFails, Begin, Serve,
       ReceiveOrphan, ReceivePid, ReceiveRows, ReceiveKilled, ReceiveError, Poll
  <2> QED BY <1>1, <2>1 DEF Open
<1>7. \A b \in Conns : Grant(b) => b \in Idle \/ MayOpen(b)
  BY DEF Grant
<1> QED BY <1>1, <1>2, <1>3, <1>4, <1>5, <1>6, <1>7

-----------------------------------------------------------------------------
\* A pool without connections and queries that nobody has executed satisfy the invariant.
THEOREM QueryInvInit == Init => QueryInv
<1> SUFFICES ASSUME Init PROVE QueryInv
  OBVIOUS
<1> USE QueryAssumption DEF Init
<1>1. JobInv
  BY DEF JobInv, TypeOK, LineIsFair, ReplyIsToSomething, RunsHaveQuery, HoldersAreActive, Active,
     HeldIsOpen, Jobs
<1>2. CallInv
  BY DEF CallInv, PidIsOfRun, TargetIsOfRun, CanceledWasAccepted, OutcomeWasAccepted,
     FlagIsMeant
<1>3. Open = {}
  BY DEF Open
<1>4. PoolIsLimited
  BY <1>3, FS_EmptySet DEF PoolIsLimited
<1> QED BY <1>1, <1>2, <1>4 DEF QueryInv

LEMMA QueryInvAlways == Spec => []QueryInv
<1>1. QueryInv /\ [Next]_vars => QueryInv'
  <2> SUFFICES ASSUME JobInv, CallInv, PoolIsLimited, [Next]_vars PROVE QueryInv'
    BY DEF QueryInv
  <2>1. PoolIsLimited'
    BY PoolKeepsLimit DEF JobInv
  <2>2. JobInv'
    <3>1. CASE UNCHANGED vars
      BY <3>1 DEF vars, queryVars, runVars, cancelVars, JobInv, TypeOK, LineIsFair, InLine,
         ReplyIsToSomething, RunsHaveQuery, HoldersAreActive, Active, HeldIsOpen, Open
    <3> QED BY <3>1, ExecuteKeepsJobs, CancelKeepsJobs, GrantKeepsJobs, GrantFailsKeepsJobs,
               ServerKeepsJobs, ReceivePidKeepsJobs, ReceiveRowsKeepsJobs, PollKeepsJobs,
               ReceiveKilledKeepsJobs, ReceiveErrorKeepsJobs, ConnectionLostKeepsJobs
            DEF Next, Receive
  <2>3. CallStep
    <3>1. CASE UNCHANGED vars \/ \E b \in Conns : Begin(b) \/ Serve(b) \/ Kill(b) \/ ReceiveOrphan(b)
      <4>1. UNCHANGED <<queryVars, runVars, cancelVars>>
        BY <3>1 DEF vars, Begin, Serve, Kill, ReceiveOrphan
      <4> QED BY <4>1, ServerKeepsCalls
    <3>2. ASSUME NEW b \in Conns, ReceiveRows(b) PROVE CallStep
      <4>1. PICK r \in Runs : r = holder[b] /\ StatementWins(r, reply[b])
        BY <3>2 DEF ReceiveRows
      <4>2. UNCHANGED <<canceled, runOf, runConn, cancelPc, cancelOf, target>>
        BY <3>2 DEF ReceiveRows, cancelVars
      <4> QED BY <4>1, <4>2, WinsKeepCalls
    <3> QED BY <3>1, <3>2, ExecuteKeepsCalls, CancelKeepsCalls, GrantKeepsCalls, FailuresKeepCalls,
               ReceivePidKeepsCalls, PollKeepsCalls, ReceiveKilledKeepsCalls,
               ConnectionLostKeepsCalls
            DEF Next, Receive
  <2> QED BY <2>1, <2>2, <2>3, CallsKeep DEF QueryInv
<1> QED BY <1>1, QueryInvInit, PTL DEF Spec

-----------------------------------------------------------------------------
\* Type correctness of QueryCancel.
THEOREM TypeCorrect == Spec => []TypeOK
<1>1. QueryInv => TypeOK
  BY DEF QueryInv, JobInv
<1> QED BY <1>1, QueryInvAlways, PTL

\* However many queries, executions, cancellations and lost connections there are, a
\* connection is checked out exactly while one call uses it, and a pool of any size keeps to
\* its limit.
THEOREM PoolIsConserved == Spec => []PoolConserved
<1>1. QueryInv => PoolConserved
  <2> SUFFICES ASSUME QueryInv PROVE PoolConserved
    OBVIOUS
  <2> USE DEF QueryInv, JobInv
  <2>1. \A b \in Conns : holder[b] # None => Active(holder[b])
    BY DEF HoldersAreActive, TypeOK
  <2>2. ASSUME NEW j \in Jobs, Active(j) PROVE Cardinality({b \in Conns : holder[b] = j}) = 1
    <3>1. PICK b \in Conns : holder[b] = j
      BY <2>2 DEF HoldersAreActive
    <3>2. {c \in Conns : holder[c] = j} = {b}
      BY <3>1 DEF HoldersAreActive
    <3> QED BY <3>2, FS_Singleton
  <2> QED BY <2>1, <2>2 DEF PoolConserved, PoolIsLimited
<1> QED BY <1>1, QueryInvAlways, PTL

\* A canceled execution is of a query that a cancel() has killed with success, with either
\* adapter and however often it is executed, and this kill aimed at the connection of one
\* of its executions.
THEOREM CanceledHonestly == Spec => []CanceledIsHonest
<1>1. QueryInv => CanceledIsHonest
  <2> SUFFICES ASSUME QueryInv, NEW r \in Runs, outcome[r] = "canceled"
               PROVE  \E k \in Cancels, x \in Runs :
                         /\ cancelPc[k] = "accepted" /\ cancelOf[k] = runOf[r]
                         /\ runOf[x] = runOf[r] /\ target[k] = runConn[x]
    BY DEF CanceledIsHonest
  <2> USE DEF QueryInv, CallInv
  <2>1. PICK k \in Cancels : cancelPc[k] = "accepted" /\ cancelOf[k] = runOf[r]
    BY DEF OutcomeWasAccepted
  <2>2. PICK x \in Runs : runOf[x] = cancelOf[k] /\ runConn[x] = target[k]
    BY <2>1 DEF TargetIsOfRun, RanOn
  <2> QED BY <2>1, <2>2
<1> QED BY <1>1, QueryInvAlways, PTL

-----------------------------------------------------------------------------
(* The flag `canceling`.                                                   *)

\* The outcome of a run is its last step.
OutcomeComesLast == \A r \in Runs : outcome[r] # "none" => runPc[r] = "done"

FlagInv == FlagIsKept /\ OutcomeComesLast

\* What a step has to do with outcomes, with calls of cancel() and with the flag.
OutcomesStay ==
    \A r \in Runs : outcome[r] # "none" =>
        outcome'[r] = outcome[r] /\ runOf'[r] = runOf[r] /\ runPc'[r] = "done"
OutcomesEnd == \A r \in Runs : outcome'[r] # "none" => outcome[r] # "none" \/ runPc'[r] = "done"
FailuresStay ==
    \A k \in Cancels : cancelPc[k] = "failed" =>
        cancelPc'[k] = "failed" /\ cancelOf'[k] = cancelOf[k]
UnderWay(k) == cancelPc[k] \in {"waiting", "killing"}
CancelsRaiseFlag ==
    \A k \in Cancels : UnderWay(k)' =>
        canceling'[cancelOf'[k]] \/ (UnderWay(k) /\ cancelOf'[k] = cancelOf[k])
FlagFalls == \A q \in Queries : canceling[q] => canceling'[q] \/ TakenBack(q)'
FlagStep == OutcomesStay /\ OutcomesEnd /\ FailuresStay /\ CancelsRaiseFlag /\ FlagFalls

LEMMA FlagKeeps ==
    ASSUME CallInv, FlagInv, FlagStep
    PROVE  FlagInv'
<1> USE DEF FlagInv, FlagStep
<1>1. OutcomeComesLast'
  BY DEF OutcomeComesLast, OutcomesEnd, OutcomesStay
<1>2. ASSUME NEW k \in Cancels, UnderWay(k)'
      PROVE  (canceling[cancelOf[k]] \/ TakenBack(cancelOf[k]))'
  <2>1. CASE canceling'[cancelOf'[k]]
    BY <2>1
  <2>2. CASE UnderWay(k) /\ cancelOf'[k] = cancelOf[k]
    <3>1. PICK q \in Queries : q = cancelOf[k]
      BY <2>2 DEF CallInv, TargetIsOfRun, UnderWay
    <3>2. CASE canceling[q]
      <4>1. canceling'[q] \/ TakenBack(q)'
        BY <3>1, <3>2 DEF FlagFalls
      <4> QED BY <2>2, <3>1, <4>1 DEF TakenBack
    <3>3. CASE TakenBack(q)
      <4>1. TakenBack(q)'
        <5>1. CASE \E x \in Cancels : cancelOf[x] = q /\ cancelPc[x] = "failed"
          BY <2>2, <5>1 DEF FailuresStay, TakenBack
        <5>2. CASE \E r \in Runs : runOf[r] = q /\ outcome[r] = "marked"
          BY <2>2, <5>2 DEF OutcomesStay, TakenBack
        <5> QED BY <3>3, <5>1, <5>2 DEF TakenBack
      <4> QED BY <2>2, <3>1, <4>1 DEF TakenBack
    <3>4. canceling[q] \/ TakenBack(q)
      BY <2>2, <3>1 DEF FlagIsKept, UnderWay
    <3> QED BY <3>2, <3>3, <3>4
  <2> QED BY <1>2, <2>1, <2>2 DEF CancelsRaiseFlag
<1>3. FlagIsKept'
  BY <1>2 DEF FlagIsKept, UnderWay
<1> QED BY <1>1, <1>3

\* A step that concerns no cancel().
LEMMA NoFlagStep ==
    ASSUME UNCHANGED <<cancelPc, cancelOf, canceling>>
    PROVE  FailuresStay /\ CancelsRaiseFlag /\ FlagFalls
  BY DEF FailuresStay, CancelsRaiseFlag, FlagFalls, UnderWay

\* The end of a run.
LEMMA EndRunIsLast ==
    ASSUME TypeOK, OutcomeComesLast, NEW r \in Runs, runPc[r] # "done",
           NEW result \in {"rows", "undefined", "canceled", "marked", "error"},
           \A x \in Runs : runPc'[x] = IF x = r THEN "done" ELSE runPc[x],
           \A x \in Runs : outcome'[x] = IF x = r THEN result ELSE outcome[x],
           UNCHANGED runOf
    PROVE  OutcomesStay /\ OutcomesEnd
  BY DEF OutcomesStay, OutcomesEnd, OutcomeComesLast

LEMMA GiveUpKeepsFlag ==
    ASSUME JobInv, FlagInv, NEW j \in Jobs, GiveUp(j), InLine(j) \/ Active(j),
           UNCHANGED <<runOf, cancelOf>>
    PROVE  FlagStep
<1> USE QueryAssumption DEF JobInv, FlagInv
<1>1. CASE j \in Runs
  <2>1. /\ runPc[j] # "done" /\ UNCHANGED <<canceling, cancelPc, cancelOf>>
        /\ \A x \in Runs : runPc'[x] = IF x = j THEN "done" ELSE runPc[x]
        /\ \A x \in Runs : outcome'[x] = IF x = j THEN "error" ELSE outcome[x]
    BY <1>1, GiveUpDoes DEF GiveUp, InLine, Active
  <2> QED BY <1>1, <2>1, EndRunIsLast, NoFlagStep DEF FlagStep
<1>2. CASE j \notin Runs
  <2>1. /\ j \in Cancels /\ cancelPc[j] \in {"waiting", "killing"}
        /\ UNCHANGED <<runPc, outcome>>
        /\ canceling' = [canceling EXCEPT ![cancelOf[j]] = FALSE]
        /\ \A k \in Cancels : cancelPc'[k] = IF k = j THEN "failed" ELSE cancelPc[k]
    BY <1>2, GiveUpDoes DEF GiveUp, InLine, Active, Jobs
  <2>2. OutcomesStay /\ OutcomesEnd
    BY <2>1 DEF OutcomesStay, OutcomesEnd, OutcomeComesLast
  <2>3. FailuresStay /\ CancelsRaiseFlag
    BY <2>1 DEF FailuresStay, CancelsRaiseFlag, UnderWay
  <2>4. FlagFalls
    <3>1. TakenBack(cancelOf[j])'
      BY <2>1 DEF TakenBack
    <3>2. \A q \in Queries : q # cancelOf[j] => canceling'[q] = canceling[q]
      BY <2>1 DEF TypeOK
    <3> QED BY <3>1, <3>2 DEF FlagFalls
  <2> QED BY <2>2, <2>3, <2>4 DEF FlagStep
<1> QED BY <1>1, <1>2

LEMMA WinsKeepFlag ==
    ASSUME JobInv, FlagInv, NEW r \in Runs, Racing(r), NEW a, StatementWins(r, a),
           UNCHANGED <<runOf, cancelPc, cancelOf>>
    PROVE  FlagStep
<1> USE DEF JobInv, FlagInv
<1> DEFINE marked == a = "killed" /\ canceling[runOf[r]]
           result == IF a = "ok" THEN "rows" ELSE IF marked THEN "marked" ELSE "error"
<1>1. EndRun(r, result) /\ result \in {"rows", "marked", "error"}
  BY DEF StatementWins
<1>2. canceling' = IF marked THEN [canceling EXCEPT ![runOf[r]] = FALSE] ELSE canceling
  BY DEF StatementWins
<1>3. marked => result = "marked"
  OBVIOUS
<1> HIDE DEF marked, result
<1>4. /\ \A x \in Runs : runPc'[x] = IF x = r THEN "done" ELSE runPc[x]
      /\ \A x \in Runs : outcome'[x] = IF x = r THEN result ELSE outcome[x]
  BY <1>1, EndRunDoes
<1>5. OutcomesStay /\ OutcomesEnd
  BY <1>1, <1>4, EndRunIsLast DEF Racing
<1>6. FlagFalls
  <2>1. marked => TakenBack(runOf[r])'
    BY <1>3, <1>4 DEF TakenBack
  <2>2. \A q \in Queries : q # runOf[r] => canceling'[q] = canceling[q]
    BY <1>2 DEF TypeOK
  <2>3. ~marked => canceling' = canceling
    BY <1>2
  <2> QED BY <2>1, <2>2, <2>3 DEF FlagFalls
<1>7. FailuresStay /\ CancelsRaiseFlag
  BY DEF FailuresStay, CancelsRaiseFlag, UnderWay
<1> QED BY <1>5, <1>6, <1>7 DEF FlagStep

LEMMA CallersKeepFlag ==
    ASSUME JobInv, FlagInv, NEW q \in Queries,
           \/ \E r \in Runs : Execute(q, r)
           \/ \E k \in Cancels : CancelRefused(q, k) \/ Cancel(q, k)
    PROVE  FlagStep
<1> USE DEF JobInv, FlagInv
<1>1. ASSUME NEW r \in Runs, Execute(q, r) PROVE FlagStep
  <2>1. /\ UNCHANGED <<outcome, cancelPc, cancelOf, canceling>> /\ runPc[r] = "idle"
        /\ \A x \in Runs : x # r => runPc'[x] = runPc[x] /\ runOf'[x] = runOf[x]
    BY <1>1 DEF Execute, IsNext, queryVars, cancelVars, TypeOK
  <2>2. OutcomesStay /\ OutcomesEnd
    BY <2>1 DEF OutcomesStay, OutcomesEnd, OutcomeComesLast
  <2> QED BY <2>1, <2>2, NoFlagStep DEF FlagStep
<1>2. ASSUME NEW k \in Cancels, CancelRefused(q, k) \/ Cancel(q, k) PROVE FlagStep
  <2>1. /\ UNCHANGED <<runPc, runOf, outcome>> /\ cancelPc[k] = "idle"
        /\ \A x \in Cancels : x # k => cancelPc'[x] = cancelPc[x] /\ cancelOf'[x] = cancelOf[x]
        /\ cancelOf'[k] = q
    BY <1>2 DEF CancelRefused, Cancel, IsNext, queryVars, runVars, TypeOK
  <2>flag. /\ \A p \in Queries : canceling[p] => canceling'[p]
           /\ UnderWay(k)' => canceling'[q]
    <3>1. CASE CancelRefused(q, k)
      BY <3>1 DEF CancelRefused, queryVars, UnderWay, TypeOK
    <3>2. CASE Cancel(q, k)
      <4>1. canceling' = [canceling EXCEPT ![q] = TRUE]
        BY <3>2 DEF Cancel
      <4>2. canceling'[q] /\ \A p \in Queries : p # q => canceling'[p] = canceling[p]
        BY <4>1 DEF TypeOK
      <4> QED BY <4>2
    <3> QED BY <1>2, <3>1, <3>2
  <2>2. OutcomesStay /\ OutcomesEnd
    BY <2>1 DEF OutcomesStay, OutcomesEnd, OutcomeComesLast
  <2>3. FailuresStay /\ FlagFalls
    BY <2>1, <2>flag DEF FailuresStay, FlagFalls
  <2>4. CancelsRaiseFlag
    BY <2>1, <2>flag DEF CancelsRaiseFlag, UnderWay
  <2> QED BY <2>2, <2>3, <2>4 DEF FlagStep
<1> QED BY <1>1, <1>2

LEMMA GrantKeepsFlag ==
    ASSUME JobInv, FlagInv, NEW b \in Conns, Grant(b)
    PROVE  FlagStep
<1> USE QueryAssumption DEF JobInv, FlagInv
<1>0. waiting \in Seq(Jobs) /\ waiting # <<>>
  BY DEF Grant, TypeOK
<1>1. PICK j \in Jobs : j = Head(waiting) /\ InLine(j)
  <2>1. /\ Head(waiting) \in Jobs /\ Head(waiting) = waiting[1] /\ Len(waiting) \in Nat
        /\ Len(waiting) > 0
    BY <1>0, HeadAndTail, Zenon
  <2> QED BY <2>1 DEF LineIsFair
<1>2. UNCHANGED <<canceling, runOf, outcome, cancelOf>>
  BY DEF Grant, queryVars
<1>3. CASE j \in Runs
  <2>1. runPc' = [runPc EXCEPT ![j] = "pid"] /\ UNCHANGED cancelPc /\ runPc[j] = "waiting"
    BY <1>1, <1>3 DEF Grant, InLine
  <2>2. OutcomesStay /\ OutcomesEnd
    BY <1>2, <2>1 DEF OutcomesStay, OutcomesEnd, OutcomeComesLast, TypeOK
  <2> QED BY <1>2, <2>1, <2>2, NoFlagStep DEF FlagStep
<1>4. CASE j \notin Runs
  <2>1. /\ cancelPc' = [cancelPc EXCEPT ![j] = "killing"] /\ UNCHANGED runPc
        /\ j \in Cancels /\ cancelPc[j] = "waiting"
    BY <1>1, <1>4 DEF Grant, InLine, Jobs
  <2>2. OutcomesStay /\ OutcomesEnd
    BY <1>2, <2>1 DEF OutcomesStay, OutcomesEnd, OutcomeComesLast
  <2>3. FailuresStay /\ CancelsRaiseFlag /\ FlagFalls
    BY <1>2, <2>1 DEF FailuresStay, CancelsRaiseFlag, FlagFalls, UnderWay, TypeOK
  <2> QED BY <2>2, <2>3 DEF FlagStep
<1> QED BY <1>3, <1>4

LEMMA ReceiveKeepsFlag ==
    ASSUME JobInv, FlagInv, NEW b \in Conns,
           ReceivePid(b) \/ ReceiveRows(b) \/ ReceiveKilled(b) \/ ReceiveError(b)
    PROVE  FlagStep
<1> USE QueryAssumption DEF JobInv, FlagInv
<1>1. CASE ReceivePid(b)
  <2>1. PICK r \in Runs : r = holder[b] /\ runPc[r] = "pid"
    BY <1>1 DEF ReceivePid
  <2>2. UNCHANGED <<canceling, runOf, cancelPc, cancelOf>>
    BY <1>1 DEF ReceivePid, cancelVars
  <2>3. OutcomesStay /\ OutcomesEnd
    <3>1. CASE WaitResult(runOf[r]) = "none"
      <4>1. UNCHANGED outcome /\ runPc' = [runPc EXCEPT ![r] = "racing"]
        BY <1>1, <2>1, <3>1 DEF ReceivePid
      <4> QED BY <2>1, <2>2, <4>1 DEF OutcomesStay, OutcomesEnd, OutcomeComesLast, TypeOK
    <3>2. CASE WaitResult(runOf[r]) # "none"
      <4>1. EndRun(r, WaitResult(runOf[r])) /\ WaitResult(runOf[r]) \in {"canceled", "undefined"}
        BY <1>1, <2>1, <3>2 DEF ReceivePid, WaitResult
      <4> QED BY <2>1, <2>2, <4>1, EndRunDoes, EndRunIsLast
    <3> QED BY <3>1, <3>2
  <2> QED BY <2>2, <2>3, NoFlagStep DEF FlagStep
<1>2. CASE ReceiveRows(b)
  BY <1>2, WinsKeepFlag DEF ReceiveRows, cancelVars
<1>3. CASE ReceiveKilled(b)
  <2>1. PICK k \in Cancels : k = holder[b] /\ cancelPc[k] = "killing"
    BY <1>3 DEF ReceiveKilled, HoldersAreActive, Active, Jobs
  <2>2. /\ cancelPc' = [cancelPc EXCEPT ![k] = "accepted"]
        /\ UNCHANGED <<canceling, runPc, runOf, outcome, cancelOf>>
    BY <1>3, <2>1 DEF ReceiveKilled, runVars
  <2>3. OutcomesStay /\ OutcomesEnd
    BY <2>2 DEF OutcomesStay, OutcomesEnd, OutcomeComesLast
  <2>4. FailuresStay /\ CancelsRaiseFlag /\ FlagFalls
    BY <2>1, <2>2 DEF FailuresStay, CancelsRaiseFlag, FlagFalls, UnderWay, TypeOK
  <2> QED BY <2>3, <2>4 DEF FlagStep
<1>4. CASE ReceiveError(b)
  <2>1. queue[b] \in Seq(Jobs) /\ queue[b] # <<>> /\ Head(queue[b]) = holder[b]
    BY <1>4 DEF ReceiveError, ReplyIsToSomething, TypeOK
  <2>2. holder[b] \in Jobs
    BY <2>1, HeadAndTail
  <2>3. Active(holder[b])
    BY <2>2 DEF HoldersAreActive
  <2> QED BY <1>4, <2>2, <2>3, GiveUpKeepsFlag DEF ReceiveError
<1> QED BY <1>1, <1>2, <1>3, <1>4

LEMMA OthersKeepFlag ==
    ASSUME JobInv, FlagInv,
           \/ GrantFails
           \/ \E r \in Runs : Poll(r)
           \/ \E b \in Conns : ConnectionLost(b)
    PROVE  FlagStep
<1> USE QueryAssumption DEF JobInv, FlagInv
<1>1. CASE GrantFails
  <2>1. waiting \in Seq(Jobs) /\ waiting # <<>>
    BY <1>1 DEF GrantFails, TypeOK
  <2>2. /\ Head(waiting) \in Jobs /\ Head(waiting) = waiting[1] /\ Len(waiting) \in Nat
        /\ Len(waiting) > 0
    BY <2>1, HeadAndTail, Zenon
  <2>3. PICK j \in Jobs : j = Head(waiting) /\ InLine(j)
    BY <2>2 DEF LineIsFair
  <2> QED BY <1>1, <2>3, GiveUpKeepsFlag DEF GrantFails
<1>2. ASSUME NEW r \in Runs, Poll(r) PROVE FlagStep
  <2>1. /\ EndRun(r, WaitResult(runOf[r])) /\ WaitResult(runOf[r]) \in {"canceled", "undefined"}
        /\ runPc[r] = "racing" /\ UNCHANGED <<canceling, runOf, cancelPc, cancelOf>>
    BY <1>2 DEF Poll, WaitResult, Racing, cancelVars
  <2>2. OutcomesStay /\ OutcomesEnd
    BY <2>1, EndRunDoes, EndRunIsLast
  <2> QED BY <2>1, <2>2, NoFlagStep DEF FlagStep
<1>3. ASSUME NEW b \in Conns, ConnectionLost(b) PROVE FlagStep
  <2>1. UNCHANGED <<runOf, cancelOf>>
    BY <1>3 DEF ConnectionLost
  <2>2. CASE holder[b] = None
    <3>1. UNCHANGED <<canceling, runPc, outcome, cancelPc>>
      BY <1>3, <2>2, Zenon DEF ConnectionLost, Jobs
    <3>2. OutcomesStay /\ OutcomesEnd
      BY <2>1, <3>1 DEF OutcomesStay, OutcomesEnd, OutcomeComesLast
    <3> QED BY <2>1, <3>1, <3>2, NoFlagStep DEF FlagStep
  <2>3. CASE holder[b] \in Runs /\ Racing(holder[b])
    <3>1. StatementWins(holder[b], "killed") /\ UNCHANGED cancelPc
      BY <1>3, <2>3, Zenon DEF ConnectionLost, Jobs
    <3> QED BY <2>1, <2>3, <3>1, WinsKeepFlag
  <2>4. CASE holder[b] # None /\ ~(holder[b] \in Runs /\ Racing(holder[b]))
    <3>1. PICK j \in Jobs : j = holder[b] /\ Active(j)
      BY <2>4 DEF HoldersAreActive, TypeOK
    <3>2. GiveUp(j)
      BY <1>3, <2>4, <3>1 DEF ConnectionLost
    <3> QED BY <2>1, <3>1, <3>2, GiveUpKeepsFlag
  <2> QED BY <2>2, <2>3, <2>4
<1> QED BY <1>1, <1>2, <1>3

LEMMA FlagInvAlways == Spec => []FlagInv
<1>1. Init => FlagInv
  BY DEF Init, FlagInv, FlagIsKept, OutcomeComesLast
<1>2. QueryInv /\ FlagInv /\ [Next]_vars => FlagInv'
  <2> SUFFICES ASSUME JobInv, CallInv, FlagInv, [Next]_vars PROVE FlagInv'
    BY DEF QueryInv
  <2>1. CASE UNCHANGED vars \/ \E b \in Conns : Begin(b) \/ Serve(b) \/ Kill(b) \/ ReceiveOrphan(b)
    <3>1. UNCHANGED <<queryVars, runVars, cancelVars>>
      BY <2>1 DEF vars, Begin, Serve, Kill, ReceiveOrphan
    <3> QED BY <3>1 DEF FlagInv, FlagIsKept, TakenBack, OutcomeComesLast, queryVars, runVars, cancelVars
  <2>2. CASE FlagStep
    BY <2>2, FlagKeeps
  <2> QED BY <2>1, <2>2, CallersKeepFlag, GrantKeepsFlag, ReceiveKeepsFlag, OthersKeepFlag
          DEF Next, Receive
<1> QED BY <1>1, <1>2, QueryInvAlways, PTL DEF Spec

\* An error is attributed to the user only while a cancel() of the query is under way or has
\* succeeded; and while one is under way it is, unless another cancel() of the query has
\* failed or one of its runs has ended in such an error.
THEOREM CancelingMeant == Spec => []CancelingIsMeant
<1>1. QueryInv /\ FlagInv => CancelingIsMeant
  BY DEF QueryInv, CallInv, FlagInv, CancelingIsMeant
<1> QED BY <1>1, QueryInvAlways, FlagInvAlways, PTL

-----------------------------------------------------------------------------
(* What a cancel() waits for.                                              *)

\* Whoever waits is in the line, and whoever holds a connection has sent a statement on
\* it that has not been answered.
LineIsWhole ==
    \A j \in Jobs : InLine(j) => \E i \in 1..Len(waiting) : waiting[i] = j
HoldersHaveSent ==
    \A b \in Conns, j \in Jobs : holder[b] = j => \E i \in 1..Len(queue[b]) : queue[b][i] = j

LEMMA LineStaysWhole ==
    ASSUME LineIsWhole, UNCHANGED waiting, \A j \in Jobs : InLine(j)' => InLine(j)
    PROVE  LineIsWhole'
  BY DEF LineIsWhole

LEMMA LineGrowsWhole ==
    ASSUME TypeOK, LineIsWhole, NEW x \in Jobs, waiting' = Append(waiting, x),
           \A j \in Jobs : InLine(j)' => InLine(j) \/ j = x
    PROVE  LineIsWhole'
<1>1. /\ Len(waiting) \in Nat /\ Len(waiting') = Len(waiting) + 1
      /\ \A i \in 1..Len(waiting) : waiting'[i] = waiting[i]
      /\ waiting'[Len(waiting) + 1] = x
  BY Appended DEF TypeOK
<1> SUFFICES ASSUME NEW j \in Jobs, InLine(j)' PROVE \E i \in 1..Len(waiting') : waiting'[i] = j
  BY DEF LineIsWhole
<1>2. CASE InLine(j)
  <2>1. PICK i \in 1..Len(waiting) : waiting[i] = j
    BY <1>2 DEF LineIsWhole
  <2> QED BY <1>1, <2>1
<1>3. CASE j = x
  BY <1>1, <1>3
<1> QED BY <1>2, <1>3

LEMMA LineShrinksWhole ==
    ASSUME TypeOK, LineIsWhole, waiting # <<>>, waiting' = Tail(waiting),
           \A j \in Jobs : InLine(j)' => InLine(j) /\ j # Head(waiting)
    PROVE  LineIsWhole'
<1>1. /\ Head(waiting) = waiting[1] /\ Len(waiting) \in Nat
      /\ Len(waiting') = Len(waiting) - 1
      /\ \A i \in 1..Len(waiting') : waiting'[i] = waiting[i + 1]
  BY HeadAndTail DEF TypeOK
<1> SUFFICES ASSUME NEW j \in Jobs, InLine(j)' PROVE \E i \in 1..Len(waiting') : waiting'[i] = j
  BY DEF LineIsWhole
<1>2. PICK i \in 1..Len(waiting) : waiting[i] = j
  BY DEF LineIsWhole
<1>3. i # 1
  BY <1>1, <1>2
<1>4. i - 1 \in 1..Len(waiting') /\ waiting'[i - 1] = waiting[(i - 1) + 1] /\ (i - 1) + 1 = i
  BY <1>1, <1>3
<1> QED BY <1>2, <1>4

\* A job that receives the answer to its last statement, or gives up, lets go.
LEMMA SentStays ==
    ASSUME HoldersHaveSent, NEW b \in Conns, \A c \in Conns : c # b => queue'[c] = queue[c],
           \A c \in Conns : c # b => holder'[c] = holder[c], holder'[b] \notin Jobs
    PROVE  HoldersHaveSent'
  BY DEF HoldersHaveSent

LEMMA ExecuteKeepsSent ==
    ASSUME JobInv, LineIsWhole, HoldersHaveSent, NEW q \in Queries,
           (\E r \in Runs : Execute(q, r)) \/ (\E k \in Cancels : Cancel(q, k) \/ CancelRefused(q, k))
    PROVE  LineIsWhole' /\ HoldersHaveSent'
<1> USE QueryAssumption DEF JobInv
<1>1. HoldersHaveSent'
  <2>1. UNCHANGED <<holder, queue>>
    BY DEF Execute, Cancel, CancelRefused
  <2> QED BY <2>1 DEF HoldersHaveSent
<1>2. ASSUME NEW r \in Runs, Execute(q, r) PROVE LineIsWhole'
  <2>1. r \in Jobs /\ waiting' = Append(waiting, r) /\ UNCHANGED cancelPc
    BY <1>2 DEF Execute, cancelVars, Jobs
  <2>2. \A x \in Runs : runPc'[x] = IF x = r THEN "waiting" ELSE runPc[x]
    BY <1>2 DEF Execute, TypeOK
  <2>3. \A j \in Jobs : InLine(j)' => InLine(j) \/ j = r
    BY <2>1, <2>2 DEF InLine
  <2> QED BY <2>1, <2>3, LineGrowsWhole
<1>3. ASSUME NEW k \in Cancels, Cancel(q, k) PROVE LineIsWhole'
  <2>1. k \in Jobs /\ waiting' = Append(waiting, k) /\ UNCHANGED runPc
    BY <1>3 DEF Cancel, runVars, Jobs
  <2>2. \A x \in Cancels : cancelPc'[x] = IF x = k THEN "waiting" ELSE cancelPc[x]
    BY <1>3 DEF Cancel, TypeOK
  <2>3. \A j \in Jobs : InLine(j)' => InLine(j) \/ j = k
    BY <2>1, <2>2 DEF InLine, Jobs
  <2> QED BY <2>1, <2>3, LineGrowsWhole
<1>4. ASSUME NEW k \in Cancels, CancelRefused(q, k) PROVE LineIsWhole'
  <2>1. UNCHANGED <<waiting, runPc>> /\ \A x \in Cancels : cancelPc'[x] = "waiting" => cancelPc[x] = "waiting"
    BY <1>4 DEF CancelRefused, runVars, TypeOK
  <2> QED BY <2>1, LineStaysWhole DEF InLine, Jobs
<1> QED BY <1>1, <1>2, <1>3, <1>4

LEMMA GrantKeepsSent ==
    ASSUME JobInv, LineIsWhole, HoldersHaveSent, NEW b \in Conns, Grant(b)
    PROVE  LineIsWhole' /\ HoldersHaveSent'
<1> USE QueryAssumption DEF JobInv
<1> DEFINE j == Head(waiting)
<1>1. j \in Jobs /\ waiting \in Seq(Jobs) /\ waiting # <<>>
  BY HeadAndTail DEF Grant, TypeOK
<1>2. /\ holder' = [holder EXCEPT ![b] = j]
      /\ queue' = [queue EXCEPT ![b] = Append(@, j)] /\ waiting' = Tail(waiting)
      /\ j \in Runs => runPc' = [runPc EXCEPT ![j] = "pid"] /\ UNCHANGED cancelPc
      /\ j \notin Runs => cancelPc' = [cancelPc EXCEPT ![j] = "killing"] /\ UNCHANGED runPc
  BY DEF Grant
<1> HIDE DEF j
<1>3. \A x \in Jobs : InLine(x)' => InLine(x) /\ x # j
  <2>1. CASE j \in Runs
    BY <1>2, <2>1 DEF InLine, Jobs, TypeOK
  <2>2. CASE j \notin Runs
    BY <1>1, <1>2, <2>2 DEF InLine, Jobs, TypeOK
  <2> QED BY <2>1, <2>2
<1>4. LineIsWhole'
  BY <1>1, <1>2, <1>3, LineShrinksWhole DEF j
<1>5. HoldersHaveSent'
  <2> SUFFICES ASSUME NEW c \in Conns, NEW x \in Jobs, holder'[c] = x
               PROVE  \E i \in 1..Len(queue'[c]) : queue'[c][i] = x
    BY DEF HoldersHaveSent
  <2>1. CASE c = b
    <3>1. queue[b] \in Seq(Jobs) /\ queue'[b] = Append(queue[b], j) /\ x = j
      BY <1>2, <2>1 DEF TypeOK
    <3>2. Len(queue[b]) \in Nat /\ Len(queue'[b]) = Len(queue[b]) + 1 /\ queue'[b][Len(queue[b]) + 1] = j
      BY <1>1, <3>1, Appended
    <3> QED BY <2>1, <3>1, <3>2
  <2>2. CASE c # b
    <3>1. holder'[c] = holder[c] /\ queue'[c] = queue[c]
      BY <1>2, <2>2 DEF TypeOK
    <3>2. \E i \in 1..Len(queue[c]) : queue[c][i] = x
      BY <3>1 DEF HoldersHaveSent
    <3> QED BY <3>1, <3>2
  <2> QED BY <2>1, <2>2
<1> QED BY <1>4, <1>5

LEMMA GrantFailsKeepsSent ==
    ASSUME JobInv, LineIsWhole, HoldersHaveSent, GrantFails
    PROVE  LineIsWhole' /\ HoldersHaveSent'
<1> USE QueryAssumption DEF JobInv
<1> DEFINE j == Head(waiting)
<1>1. /\ j \in Jobs /\ waiting # <<>> /\ waiting' = Tail(waiting) /\ GiveUp(j)
      /\ UNCHANGED <<holder, queue>>
  BY HeadAndTail DEF GrantFails, TypeOK
<1> HIDE DEF j
<1>2. \A x \in Jobs : InLine(x)' => InLine(x) /\ x # j
  BY <1>1, GiveUpDoes DEF InLine, Jobs
<1>3. LineIsWhole'
  BY <1>1, <1>2, LineShrinksWhole DEF j
<1> QED BY <1>1, <1>3 DEF HoldersHaveSent

\* The server answers, and the adapter takes an answer that nobody waits for.
LEMMA ServerKeepsSent ==
    ASSUME JobInv, LineIsWhole, HoldersHaveSent, NEW b \in Conns,
           Begin(b) \/ Serve(b) \/ Kill(b) \/ ReceiveOrphan(b)
    PROVE  LineIsWhole' /\ HoldersHaveSent'
<1> USE QueryAssumption DEF JobInv
<1>1. UNCHANGED <<runVars, cancelVars, waiting, holder>>
  BY DEF Begin, Serve, Kill, ReceiveOrphan
<1>2. LineIsWhole'
  BY <1>1 DEF LineIsWhole, InLine, runVars, cancelVars
<1>3. CASE UNCHANGED queue
  BY <1>1, <1>2, <1>3 DEF HoldersHaveSent
<1>4. CASE ReceiveOrphan(b)
  <2>1. /\ queue[b] \in Seq(Jobs) /\ queue[b] # <<>> /\ Head(queue[b]) # holder[b]
        /\ queue' = [queue EXCEPT ![b] = Tail(@)]
    BY <1>4 DEF ReceiveOrphan, Answered, ReplyIsToSomething, TypeOK
  <2> SUFFICES ASSUME NEW c \in Conns, NEW x \in Jobs, holder[c] = x
               PROVE  \E i \in 1..Len(queue'[c]) : queue'[c][i] = x
    BY <1>1, <1>2 DEF HoldersHaveSent
  <2>2. PICK i \in 1..Len(queue[c]) : queue[c][i] = x
    BY DEF HoldersHaveSent
  <2>3. CASE c = b
    <3>1. queue'[b] = Tail(queue[b])
      BY <2>1 DEF TypeOK
    <3>2. /\ Head(queue[b]) = queue[b][1] /\ Len(queue[b]) \in Nat
          /\ Len(Tail(queue[b])) = Len(queue[b]) - 1
          /\ \A n \in 1..Len(Tail(queue[b])) : Tail(queue[b])[n] = queue[b][n + 1]
      BY <2>1, HeadAndTail
    <3>3. i # 1
      BY <2>1, <2>2, <2>3, <3>2
    <3> DEFINE rest == Tail(queue[b])
    <3>4. i - 1 \in 1..Len(rest) /\ rest[i - 1] = queue[b][(i - 1) + 1] /\ (i - 1) + 1 = i
      BY <2>2, <2>3, <3>2, <3>3
    <3>5. rest[i - 1] = x
      BY <2>2, <2>3, <3>4
    <3>6. queue'[c] = rest
      BY <2>3, <3>1
    <3> HIDE DEF rest
    <3> QED BY <3>4, <3>5, <3>6
  <2>4. CASE c # b
    BY <2>1, <2>2, <2>4 DEF TypeOK
  <2> QED BY <2>3, <2>4
<1> QED BY <1>3, <1>4 DEF Begin, Serve, Kill

\* A run that ends lets go of its connection.
LEMMA EndedRunLetsGo ==
    ASSUME JobInv, LineIsWhole, HoldersHaveSent, NEW r \in Runs, NEW b \in Conns, holder[b] = r,
           NEW result \in {"rows", "undefined", "canceled", "marked", "error"}, EndRun(r, result),
           UNCHANGED <<cancelPc, waiting>>, \A c \in Conns : c # b => queue'[c] = queue[c]
    PROVE  LineIsWhole' /\ HoldersHaveSent'
<1> USE QueryAssumption DEF JobInv
<1>1. Released(b) /\ \A x \in Runs : runPc'[x] = IF x = r THEN "done" ELSE runPc[x]
  <2>1. runConn[r] = b
    BY DEF HoldersAreActive
  <2> QED BY <2>1, EndRunDoes
<1>2. LineIsWhole'
  BY <1>1, LineStaysWhole DEF InLine
<1>3. HoldersHaveSent'
  BY <1>1, SentStays DEF Released, TypeOK, Jobs
<1> QED BY <1>2, <1>3

LEMMA ReceivePidKeepsSent ==
    ASSUME JobInv, LineIsWhole, HoldersHaveSent, NEW b \in Conns, ReceivePid(b)
    PROVE  LineIsWhole' /\ HoldersHaveSent'
<1> USE QueryAssumption DEF JobInv
<1>1. PICK r \in Runs : /\ holder[b] = r /\ r \in Jobs /\ UNCHANGED <<cancelPc, waiting>>
                        /\ queue[b] \in Seq(Jobs) /\ queue[b] # <<>>
                        /\ queue' = [queue EXCEPT ![b] = Append(Tail(@), r)]
  BY DEF ReceivePid, cancelVars, TypeOK, ReplyIsToSomething, Jobs
<1>2. CASE WaitResult(runOf[r]) = "none"
  <2>1. runPc' = [runPc EXCEPT ![r] = "racing"] /\ UNCHANGED holder
    BY <1>1, <1>2 DEF ReceivePid
  <2>2. LineIsWhole'
    BY <1>1, <2>1, LineStaysWhole DEF InLine, TypeOK
  <2> SUFFICES ASSUME NEW c \in Conns, NEW x \in Jobs, holder[c] = x
               PROVE  \E i \in 1..Len(queue'[c]) : queue'[c][i] = x
    BY <2>1, <2>2 DEF HoldersHaveSent
  <2>3. CASE c = b
    <3>1. queue'[b] = Append(Tail(queue[b]), r) /\ Tail(queue[b]) \in Seq(Jobs) /\ x = r
      BY <1>1, <2>3, HeadAndTail DEF TypeOK
    <3> DEFINE n == Len(Tail(queue[b]))
    <3>2. n \in Nat /\ Len(queue'[b]) = n + 1 /\ queue'[b][n + 1] = r
      BY <1>1, <3>1, Appended
    <3> HIDE DEF n
    <3> QED BY <2>3, <3>1, <3>2
  <2>4. CASE c # b
    <3>1. queue'[c] = queue[c]
      BY <1>1, <2>4 DEF TypeOK
    <3> QED BY <3>1 DEF HoldersHaveSent
  <2> QED BY <2>3, <2>4
<1>3. CASE WaitResult(runOf[r]) # "none"
  <2>1. EndRun(r, WaitResult(runOf[r])) /\ WaitResult(runOf[r]) \in {"canceled", "undefined"}
    BY <1>1, <1>3 DEF ReceivePid, WaitResult
  <2>2. \A c \in Conns : c # b => queue'[c] = queue[c]
    BY <1>1 DEF TypeOK
  <2> QED BY <1>1, <2>1, <2>2, EndedRunLetsGo
<1> QED BY <1>2, <1>3

LEMMA WinsKeepSent ==
    ASSUME JobInv, LineIsWhole, HoldersHaveSent, NEW r \in Runs, NEW b \in Conns, holder[b] = r,
           NEW a \in {"ok", "err", "killed"}, StatementWins(r, a),
           UNCHANGED <<cancelPc, waiting>>, \A c \in Conns : c # b => queue'[c] = queue[c]
    PROVE  LineIsWhole' /\ HoldersHaveSent'
<1>1. \E result \in {"rows", "undefined", "canceled", "marked", "error"} : EndRun(r, result)
  BY DEF StatementWins
<1> QED BY <1>1, EndedRunLetsGo

LEMMA ReceiveRowsKeepsSent ==
    ASSUME JobInv, LineIsWhole, HoldersHaveSent, NEW b \in Conns, ReceiveRows(b)
    PROVE  LineIsWhole' /\ HoldersHaveSent'
<1>1. /\ holder[b] \in Runs /\ reply[b] \in {"ok", "err", "killed"}
      /\ StatementWins(holder[b], reply[b]) /\ UNCHANGED <<cancelPc, waiting>>
  BY DEF ReceiveRows, Answered, cancelVars
<1>2. \A c \in Conns : c # b => queue'[c] = queue[c]
  BY DEF ReceiveRows, JobInv, TypeOK
<1> QED BY <1>1, <1>2, WinsKeepSent

LEMMA PollKeepsSent ==
    ASSUME JobInv, LineIsWhole, HoldersHaveSent, NEW r \in Runs, Poll(r)
    PROVE  LineIsWhole' /\ HoldersHaveSent'
<1>1. PICK b \in Conns : holder[b] = r
  BY DEF Poll, Racing, JobInv, HoldersAreActive, Active, Jobs
<1>2. WaitResult(runOf[r]) \in {"canceled", "undefined"} /\ EndRun(r, WaitResult(runOf[r]))
  BY DEF Poll, WaitResult
<1>3. UNCHANGED <<cancelPc, waiting, queue>>
  BY DEF Poll, cancelVars
<1> QED BY <1>1, <1>2, <1>3, EndedRunLetsGo

\* A job that has failed, or a cancel() that has succeeded, lets go.
LEMMA GivenUpLetsGo ==
    ASSUME JobInv, LineIsWhole, HoldersHaveSent, NEW b \in Conns, NEW j \in Jobs, GiveUp(j),
           Released(b), UNCHANGED waiting, \A c \in Conns : c # b => queue'[c] = queue[c]
    PROVE  LineIsWhole' /\ HoldersHaveSent'
<1> USE QueryAssumption DEF JobInv
<1>1. \A x \in Jobs : InLine(x)' => InLine(x)
  BY GiveUpDoes DEF InLine, Jobs
<1>2. HoldersHaveSent'
  BY SentStays DEF Released, TypeOK, Jobs
<1> QED BY <1>1, <1>2, LineStaysWhole

LEMMA ReceiveKilledKeepsSent ==
    ASSUME JobInv, LineIsWhole, HoldersHaveSent, NEW b \in Conns, ReceiveKilled(b)
    PROVE  LineIsWhole' /\ HoldersHaveSent'
<1> USE QueryAssumption DEF JobInv
<1>1. /\ UNCHANGED <<runPc, waiting>> /\ Released(b)
      /\ \A k \in Cancels : cancelPc'[k] = "waiting" => cancelPc[k] = "waiting"
      /\ \A c \in Conns : c # b => queue'[c] = queue[c]
  BY DEF ReceiveKilled, runVars, TypeOK
<1>2. LineIsWhole'
  BY <1>1, LineStaysWhole DEF InLine, Jobs
<1> QED BY <1>1, <1>2, SentStays DEF Released, TypeOK, Jobs

LEMMA ReceiveErrorKeepsSent ==
    ASSUME JobInv, LineIsWhole, HoldersHaveSent, NEW b \in Conns, ReceiveError(b)
    PROVE  LineIsWhole' /\ HoldersHaveSent'
<1>1. /\ GiveUp(holder[b]) /\ Released(b) /\ UNCHANGED waiting /\ queue[b] # <<>>
      /\ queue[b] \in Seq(Jobs) /\ holder[b] = Head(queue[b])
      /\ \A c \in Conns : c # b => queue'[c] = queue[c]
  BY DEF ReceiveError, JobInv, TypeOK, ReplyIsToSomething
<1>2. holder[b] \in Jobs
  BY <1>1, HeadAndTail
<1> QED BY <1>1, <1>2, GivenUpLetsGo

LEMMA ConnectionLostKeepsSent ==
    ASSUME JobInv, LineIsWhole, HoldersHaveSent, NEW b \in Conns, ConnectionLost(b)
    PROVE  LineIsWhole' /\ HoldersHaveSent'
<1> USE QueryAssumption DEF JobInv
<1>1. UNCHANGED waiting /\ \A c \in Conns : c # b => queue'[c] = queue[c]
  BY DEF ConnectionLost, TypeOK
<1>2. CASE holder[b] = None
  <2>1. UNCHANGED <<runPc, cancelPc, holder>>
    <3>1. holder[b] \notin Runs
      BY <1>2, QueryAssumption DEF Jobs
    <3> QED BY <1>2, <3>1, Zenon DEF ConnectionLost
  <2>2. LineIsWhole'
    BY <1>1, <2>1, LineStaysWhole DEF InLine
  <2> QED BY <1>1, <1>2, <2>1, <2>2, SentStays
<1>3. CASE holder[b] \in Runs /\ Racing(holder[b])
  <2>1. StatementWins(holder[b], "killed") /\ UNCHANGED cancelPc
    BY <1>3, Zenon DEF ConnectionLost, Jobs
  <2> QED BY <1>1, <1>3, <2>1, WinsKeepSent
<1>4. CASE holder[b] # None /\ ~(holder[b] \in Runs /\ Racing(holder[b]))
  <2>1. GiveUp(holder[b]) /\ Released(b) /\ holder[b] \in Jobs
    BY <1>4 DEF ConnectionLost, TypeOK
  <2> QED BY <1>1, <2>1, GivenUpLetsGo
<1> QED BY <1>2, <1>3, <1>4

LEMMA SentAlways == Spec => [](LineIsWhole /\ HoldersHaveSent)
<1>1. Init => LineIsWhole /\ HoldersHaveSent
  BY QueryAssumption DEF Init, LineIsWhole, HoldersHaveSent, InLine, Jobs
<1>2. QueryInv /\ LineIsWhole /\ HoldersHaveSent /\ [Next]_vars => LineIsWhole' /\ HoldersHaveSent'
  <2> SUFFICES ASSUME JobInv, LineIsWhole, HoldersHaveSent, [Next]_vars
               PROVE  LineIsWhole' /\ HoldersHaveSent'
    BY DEF QueryInv
  <2>1. CASE UNCHANGED vars
    BY <2>1 DEF vars, runVars, cancelVars, LineIsWhole, HoldersHaveSent, InLine
  <2> QED BY <2>1, ExecuteKeepsSent, GrantKeepsSent, GrantFailsKeepsSent, ServerKeepsSent,
             ReceivePidKeepsSent, ReceiveRowsKeepsSent, PollKeepsSent, ReceiveKilledKeepsSent,
             ReceiveErrorKeepsSent, ConnectionLostKeepsSent
          DEF Next, Receive
<1> QED BY <1>1, <1>2, QueryInvAlways, PTL DEF Spec

\* The guards of the fair actions: of Grant and GrantFails, and, on a connection, of
\* Begin, of Kill and ServePid, and of Receive.
MayGrant == waiting # <<>> /\ (Idle # {} \/ \E b \in Conns : MayOpen(b))
Moves(b) ==
    \/ conn[b] = "open" /\ queue[b] # <<>> /\ reply[b] = "none"
    \/ /\ conn[b] = "open" /\ reply[b] = "busy"
       /\ Head(queue[b]) \in Cancels \/ runPc[Head(queue[b])] = "pid"
    \/ Answered(b)
    \/ conn[b] = "lost"

\* The bound on the connections that are ever opened keeps the pool from opening one.
UsedUp == Cardinality(Open) < PoolSize /\ \A b \in Conns : conn[b] # "unused"

LEMMA HeldMoves ==
    ASSUME JobInv, HoldersHaveSent, NEW b \in Conns, holder[b] # None
    PROVE  b \in Open /\ (Moves(b) \/ Occupied(b))
<1> USE DEF JobInv
<1>1. b \in Open /\ conn[b] \in {"open", "lost"}
  BY DEF HeldIsOpen, Open
<1>2. queue[b] \in Seq(Jobs) /\ queue[b] # <<>>
  BY DEF HoldersHaveSent, TypeOK
<1>3. Head(queue[b]) \in Jobs
  BY <1>2, HeadAndTail
<1>4. reply[b] \in {"none", "busy"} \/ Answered(b)
  BY DEF Answered, TypeOK
<1> QED BY <1>1, <1>2, <1>3, <1>4 DEF Moves, Occupied, Jobs

\* A cancel() that has been given a connection is served on it, unless a caller's
\* statement occupies it; one that waits for a connection is given one, or something
\* moves on a connection of the pool, unless statements occupy them all.  So cancel()
\* never waits for another job that waits for it, whatever the size of the pool is
\* (postgresql.ts 646-667).
THEOREM CancelIsOwed ==
    Spec => [](\A k \in Cancels :
                 /\ cancelPc[k] = "killing" => \E b \in Conns : holder[b] = k /\ (Moves(b) \/ Occupied(b))
                 /\ cancelPc[k] = "waiting" =>
                      Starved(k) \/ UsedUp \/ MayGrant \/ \E b \in Open : Moves(b))
<1>1. ASSUME QueryInv, LineIsWhole, HoldersHaveSent, NEW k \in Cancels, cancelPc[k] = "killing"
      PROVE  \E b \in Conns : holder[b] = k /\ (Moves(b) \/ Occupied(b))
  <2>1. k \in Jobs /\ k \notin Runs /\ k # None /\ JobInv
    BY <1>1, QueryAssumption DEF Jobs, QueryInv
  <2>2. PICK b \in Conns : holder[b] = k
    BY <1>1, <2>1 DEF JobInv, HoldersAreActive, Active
  <2> QED BY <1>1, <2>1, <2>2, HeldMoves
<1>2. ASSUME QueryInv, LineIsWhole, HoldersHaveSent, NEW k \in Cancels, cancelPc[k] = "waiting",
             ~UsedUp, ~MayGrant, ~\E b \in Open : Moves(b)
      PROVE  Starved(k)
  <2>1. k \in Jobs /\ k \notin Runs /\ JobInv
    BY <1>2, QueryAssumption DEF Jobs, QueryInv
  <2>2. waiting # <<>>
    BY <1>2, <2>1 DEF LineIsWhole, InLine
  <2>3. Idle = {} /\ ~\E b \in Conns : MayOpen(b)
    BY <1>2, <2>2 DEF MayGrant
  <2>4. Cardinality(Open) = PoolSize
    <3>1. IsFiniteSet(Open) /\ Cardinality(Open) <= PoolSize /\ Cardinality(Open) \in Nat
      BY <1>2, FS_CardinalityType DEF QueryInv, PoolIsLimited
    <3>2. ASSUME Cardinality(Open) < PoolSize PROVE FALSE
      <4>1. PICK c \in Conns : conn[c] = "unused"
        BY <1>2, <3>2 DEF UsedUp
      <4> DEFINE unused == {x \in Conns : conn[x] = "unused"}
                 b == CHOOSE y \in unused : TRUE
      <4>2. b \in unused /\ unused # {}
        BY <4>1
      <4>3. MayOpen(b)
        BY <2>3, <3>2, <4>2 DEF MayOpen, IsNext
      <4> QED BY <2>3, <4>2, <4>3
    <3> QED BY <3>1, <3>2, QueryAssumption
  <2>5. \A b \in Open : b \in Conns /\ Occupied(b)
    BY <1>2, <2>1, <2>3, HeldMoves DEF Open, Idle
  <2> QED BY <1>2, <2>4, <2>5 DEF Starved
<1> DEFINE Owes == \A k \in Cancels :
              /\ cancelPc[k] = "killing" => \E b \in Conns : holder[b] = k /\ (Moves(b) \/ Occupied(b))
              /\ cancelPc[k] = "waiting" =>
                   Starved(k) \/ UsedUp \/ MayGrant \/ \E b \in Open : Moves(b)
<1>3. QueryInv /\ (LineIsWhole /\ HoldersHaveSent) => Owes
  BY <1>1, <1>2
<1> HIDE DEF Owes
<1>4. Spec => []Owes
  BY <1>3, QueryInvAlways, SentAlways, PTL
<1> QED BY <1>4 DEF Owes

-----------------------------------------------------------------------------
(* What a canceled run waits for.                                          *)

\* A cancel() that has succeeded has told the cancelable promise of its query.
AcceptedIsTold == \A k \in Cancels : cancelPc[k] = "accepted" => canceled[cancelOf[k]]

LEMMA ToldStays ==
    ASSUME TypeOK, AcceptedIsTold,
           \A q \in Queries : canceled[q] => canceled'[q],
           \A k \in Cancels : cancelPc'[k] = "accepted" =>
               /\ cancelOf'[k] \in Queries
               /\ \/ cancelPc[k] = "accepted" /\ cancelOf'[k] = cancelOf[k]
                  \/ canceled'[cancelOf'[k]]
    PROVE  AcceptedIsTold'
  BY DEF AcceptedIsTold

LEMMA ToldAlways == Spec => []AcceptedIsTold
<1>1. Init => AcceptedIsTold
  BY DEF Init, AcceptedIsTold
<1>2. QueryInv /\ AcceptedIsTold /\ [Next]_vars => AcceptedIsTold'
  <2> SUFFICES ASSUME QueryInv, AcceptedIsTold, [Next]_vars PROVE AcceptedIsTold'
    OBVIOUS
  <2> USE QueryAssumption DEF QueryInv, JobInv, CallInv
  <2>0. \A k \in Cancels : cancelPc[k] \notin {"idle", "refused"} => cancelOf[k] \in Queries
    BY DEF TargetIsOfRun
  <2>1. ASSUME UNCHANGED canceled,
               \A k \in Cancels : cancelPc'[k] = "accepted" =>
                   cancelPc[k] = "accepted" /\ cancelOf'[k] = cancelOf[k]
        PROVE  AcceptedIsTold'
    BY <2>1 DEF AcceptedIsTold
  <2>2. ASSUME UNCHANGED <<canceled, cancelPc, cancelOf>> PROVE AcceptedIsTold'
    BY <2>2 DEF AcceptedIsTold
  <2>3. ASSUME NEW j \in Jobs, GiveUp(j), UNCHANGED <<canceled, cancelOf>> PROVE AcceptedIsTold'
    BY <2>1, <2>3, GiveUpDoes DEF Jobs
  <2>4. CASE UNCHANGED vars
    BY <2>2, <2>4 DEF vars, queryVars, cancelVars
  <2>5. ASSUME NEW q \in Queries, NEW r \in Runs, Execute(q, r) PROVE AcceptedIsTold'
    BY <2>2, <2>5 DEF Execute, queryVars, cancelVars
  <2>6. ASSUME NEW q \in Queries, NEW k \in Cancels, Cancel(q, k) \/ CancelRefused(q, k)
        PROVE  AcceptedIsTold'
    <3>1. UNCHANGED canceled
      BY <2>6 DEF Cancel, CancelRefused, queryVars
    <3>2. \A x \in Cancels : x # k => cancelPc'[x] = cancelPc[x] /\ cancelOf'[x] = cancelOf[x]
      BY <2>6 DEF Cancel, CancelRefused, TypeOK
    <3>3. cancelPc'[k] # "accepted"
      BY <2>6 DEF Cancel, CancelRefused, TypeOK
    <3> QED BY <2>1, <3>1, <3>2, <3>3
  <2>7. ASSUME NEW b \in Conns, Grant(b) PROVE AcceptedIsTold'
    <3>1. UNCHANGED <<canceled, cancelOf>>
      BY <2>7 DEF Grant, queryVars
    <3>2. \A x \in Cancels : cancelPc'[x] = "accepted" => cancelPc[x] = "accepted"
      BY <2>7 DEF Grant, TypeOK
    <3> QED BY <2>1, <3>1, <3>2
  <2>8. CASE GrantFails
    <3>1. Head(waiting) \in Jobs
      BY <2>8, HeadAndTail DEF GrantFails, TypeOK
    <3> QED BY <2>3, <2>8, <3>1 DEF GrantFails
  <2>9. ASSUME NEW b \in Conns, Begin(b) \/ Serve(b) \/ Kill(b) \/ ReceiveOrphan(b)
        PROVE  AcceptedIsTold'
    BY <2>2, <2>9 DEF Begin, Serve, Kill, ReceiveOrphan, queryVars, cancelVars
  <2>10. ASSUME NEW b \in Conns, ReceivePid(b) \/ ReceiveRows(b) PROVE AcceptedIsTold'
    BY <2>2, <2>10 DEF ReceivePid, ReceiveRows, cancelVars
  <2>11. ASSUME NEW r \in Runs, Poll(r) PROVE AcceptedIsTold'
    BY <2>2, <2>11 DEF Poll, cancelVars
  <2>12. ASSUME NEW b \in Conns, ReceiveKilled(b) PROVE AcceptedIsTold'
    <3> DEFINE k == holder[b]
    <3>1. /\ k \in Cancels /\ UNCHANGED cancelOf
          /\ cancelPc' = [cancelPc EXCEPT ![k] = "accepted"]
          /\ canceled' = [canceled EXCEPT ![cancelOf[k]] = TRUE]
      BY <2>12 DEF ReceiveKilled
    <3> HIDE DEF k
    <3>2. \A q \in Queries : canceled[q] => canceled'[q]
      BY <3>1 DEF TypeOK
    <3>3. cancelPc[k] = "killing"
      BY <2>12, <3>1 DEF HoldersAreActive, Active, Jobs, k
    <3>4. cancelOf[k] \in Queries /\ canceled'[cancelOf[k]]
      BY <2>0, <3>1, <3>3 DEF TypeOK
    <3>5. \A x \in Cancels : x # k => cancelPc'[x] = cancelPc[x]
      BY <3>1 DEF TypeOK
    <3> QED BY <2>0, <3>1, <3>2, <3>4, <3>5, ToldStays
  <2>13. ASSUME NEW b \in Conns, ReceiveError(b) PROVE AcceptedIsTold'
    <3>1. queue[b] \in Seq(Jobs) /\ queue[b] # <<>> /\ Head(queue[b]) = holder[b]
      BY <2>13 DEF ReceiveError, ReplyIsToSomething, TypeOK
    <3>2. holder[b] \in Jobs
      BY <3>1, HeadAndTail
    <3> QED BY <2>3, <2>13, <3>2 DEF ReceiveError
  <2>14. ASSUME NEW b \in Conns, ConnectionLost(b) PROVE AcceptedIsTold'
    <3>1. CASE UNCHANGED cancelPc
      BY <2>2, <2>14, <3>1 DEF ConnectionLost
    <3>2. CASE ~UNCHANGED cancelPc
      <4>1. GiveUp(holder[b]) /\ holder[b] # None
        BY <2>14, <3>2, Zenon DEF ConnectionLost
      <4>2. holder[b] \in Jobs
        BY <4>1 DEF TypeOK
      <4> QED BY <2>3, <2>14, <4>1, <4>2 DEF ConnectionLost
    <3> QED BY <3>1, <3>2
  <2> QED BY <2>4, <2>5, <2>6, <2>7, <2>8, <2>9, <2>10, <2>11, <2>12, <2>13, <2>14
          DEF Next, Receive
<1> QED BY <1>1, <1>2, QueryInvAlways, PTL DEF Spec

\* Once a cancel() has succeeded, every execution of its query that is still racing finds
\* this out with its next poll, whether or not the kill has hit anything and whatever
\* other calls have done to the flags meanwhile (postgresql.ts 615-667).
THEOREM AcceptedIsPolled ==
    Spec => [](\A k \in Cancels, r \in Runs :
                 cancelPc[k] = "accepted" /\ runOf[r] = cancelOf[k]
                   => WaitResult(runOf[r]) = "canceled")
<1>1. AcceptedIsTold =>
        \A k \in Cancels, r \in Runs :
          cancelPc[k] = "accepted" /\ runOf[r] = cancelOf[k] => WaitResult(runOf[r]) = "canceled"
  BY DEF AcceptedIsTold, WaitResult
<1> QED BY <1>1, ToldAlways, PTL
=============================================================================
