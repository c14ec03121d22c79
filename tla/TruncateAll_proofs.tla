------------------------- MODULE TruncateAll_proofs -------------------------
(***************************************************************************)
(* Proofs about TruncateAll, for any set of tables and any servers: what a *)
(* call that has ended leaves behind.                                      *)
(*                                                                         *)
(* The invariant says what the statements executed so far amount to, as    *)
(* long as none has failed, and that a failure ends the batch where there  *)
(* is a transaction or a connection to give back.                          *)
(***************************************************************************)
EXTENDS TruncateAll, TLAPS

-----------------------------------------------------------------------------
(* versionCompare().                                                       *)

\* versionCompare(b, a) is the opposite of versionCompare(a, b): it never says of
\* both versions that they are the greater one (utils.ts 68-80).
THEOREM CompareIsAntisymmetric ==
    ASSUME NEW a \in Version, NEW b \in Version
    PROVE  VersionCompare(b, a) = -VersionCompare(a, b)
<1>1. ~(Exceeds(a, b) /\ Exceeds(b, a))
  <2> SUFFICES ASSUME Exceeds(a, b), Exceeds(b, a)
               PROVE  FALSE
      OBVIOUS
  <2>1. PICK i \in Common(a, b) :
            Greater(a[i], b[i]) /\ \A j \in Common(a, b) : j < i => ~Greater(b[j], a[j])
        BY DEF Exceeds
  <2>2. PICK k \in Common(b, a) :
            Greater(b[k], a[k]) /\ \A j \in Common(b, a) : j < k => ~Greater(a[j], b[j])
        BY DEF Exceeds
  <2>3. /\ i \in Common(b, a) /\ k \in Common(a, b)
        /\ i \in Nat /\ k \in Nat
        BY DEF Common, Version
  <2>4. ~(k < i) /\ ~(i < k)
        BY <2>1, <2>2, <2>3
  <2>5. i = k
        BY <2>3, <2>4
  <2>6. a[i] \in Int /\ b[i] \in Int
        BY <2>3 DEF Common, Version, Part, NaN
  <2> QED BY <2>1, <2>2, <2>5, <2>6 DEF Greater
<1> QED BY <1>1 DEF VersionCompare

\* Compared with a version of two parts, a version with the same first part is
\* decided by the second.
LEMMA TwoParts ==
    ASSUME NEW v, NEW w, DOMAIN v \subseteq Nat \ {0}, DOMAIN w = {1, 2},
           1 \in DOMAIN v, v[1] \in Nat, w[1] \in Nat, w[2] \in Nat,
           v[1] = w[1] => 2 \in DOMAIN v /\ v[2] \in Nat
    PROVE  /\ Exceeds(w, v) <=> v[1] < w[1] \/ (v[1] = w[1] /\ v[2] < w[2])
           /\ Exceeds(v, w) => ~Exceeds(w, v)
<1>1. Common(v, w) \subseteq {1, 2} /\ Common(w, v) = Common(v, w) /\ 1 \in Common(v, w)
      BY DEF Common
<1>2. 2 \in Common(v, w) <=> 2 \in DOMAIN v
      BY DEF Common
<1>3. \A x, y \in Nat : Greater(x, y) <=> x > y
      BY DEF Greater, NaN
<1>4. Greater(w[1], v[1]) <=> v[1] < w[1]
      BY <1>3
<1>5. Greater(v[1], w[1]) <=> v[1] > w[1]
      BY <1>3
<1>6. v[1] = w[1] => (Greater(w[2], v[2]) <=> v[2] < w[2]) /\ (Greater(v[2], w[2]) <=> v[2] >
w[2])
      BY <1>3
<1>7. Exceeds(w, v) <=> \/ Greater(w[1], v[1])
                        \/ 2 \in DOMAIN v /\ Greater(w[2], v[2]) /\ ~Greater(v[1], w[1])
      BY <1>1, <1>2 DEF Exceeds
<1>8. Exceeds(v, w) <=> \/ Greater(v[1], w[1])
                        \/ 2 \in DOMAIN v /\ Greater(v[2], w[2]) /\ ~Greater(w[1], v[1])
      BY <1>1, <1>2 DEF Exceeds
<1> QED BY <1>4, <1>5, <1>6, <1>7, <1>8

\* Of a server that says which release it is of, the comparison with 8.4 says whether
\* it knows TRUNCATE ... CASCADE (postgresql.ts 529).
THEOREM CascadeFromEightFour ==
    ASSUME NEW v, Release(v)
    PROVE  VersionCompare(v, <<8, 4>>) >= 0 <=> Supports(v)
<1>1. PICK w : w = <<8, 4>>
      OBVIOUS
<1>2. DOMAIN w = {1, 2} /\ w[1] = 8 /\ w[2] = 4
      BY <1>1
<1>3. /\ DOMAIN v \subseteq Nat \ {0} /\ 1 \in DOMAIN v /\ v[1] \in Nat
      /\ v[1] = 8 => 2 \in DOMAIN v /\ v[2] \in Nat
      BY DEF Release, Version, Part, NaN
<1>4. /\ Exceeds(w, v) <=> v[1] < 8 \/ (v[1] = 8 /\ v[2] < 4)
      /\ Exceeds(v, w) => ~Exceeds(w, v)
      BY <1>2, <1>3, TwoParts
<1>5. VersionCompare(v, w) >= 0 <=> ~Exceeds(w, v)
      BY <1>4 DEF VersionCompare
<1> QED BY <1>1, <1>3, <1>4, <1>5 DEF Supports

-----------------------------------------------------------------------------
(* What the statements amount to.                                          *)

Untouched == rows = AllFull /\ unchecked = {}

\* What has been executed, as long as nothing has failed.
Done(kind, t) == <<kind, t>> \in done
Executed ==
    /\ done \subseteq Text
    /\ rows = [t \in Tables |-> IF Done("empty", t) THEN "empty" ELSE "full"]
    /\ unchecked = {t \in Tables : Done("off", t) /\ ~Done("on", t)}
    /\ \A t \in Tables : Done("on", t) => Done("off", t)

Clean == unchecked = {} /\ \A t \in Tables : rows[t] = "empty"

\* A batch goes on after a failure only where no transaction and no connection of
\* a pool is involved.
Continues == adapter \in {"sqlserver", "sqlite", "cassandra"}

CallInv ==
    /\ session = "shared" <=> adapter \in {"sqlserver", "cassandra"}
    /\ adapter = "sqlite" => session # "pool"
    /\ phase \in {"listing", "begin"} => Untouched /\ done = {} /\ ~failed /\ promise = "pending"
    /\ phase = "batch" /\ ~failed => Executed /\ promise = "pending"
    /\ phase = "batch" /\ failed => Continues
    /\ phase \in {"begin", "commit", "rollback"} => StepByStep /\ promise = "pending"
    /\ phase = "commit" => Clean
    /\ promise # "pending" => phase = "end" \/ adapter \in {"sqlite", "cassandra"}
    /\ tx => StepByStep /\ phase \in {"batch", "commit", "rollback"}
    /\ promise = "resolved" => phase = "end" /\ Clean
    /\ phase = "end" /\ Transactional => Untouched \/ Clean
    /\ session = "pool" => phase = "end"
    /\ session = "pool" /\ unchecked # {} => failed /\ promise = "rejected"

IInv == TypeOK /\ CallInv

LEMMA InitIInv == Init => IInv
BY DEF Init, IInv, TypeOK, CallInv, Untouched, AllFull, Adapters

\* What a text is made of.
LEMMA TextIs ==
    /\ Text \subseteq {"off", "empty", "on"} \X Tables
    /\ \A t \in Tables : <<"empty", t>> \in Text
    /\ \A t \in Tables : <<"off", t>> \in Text <=> <<"on", t>> \in Text
BY DEF Text, EmptyEach, GuardedEach

\* The end of a text switches on what it has switched off.
LEMMA TextEnds == TypeOK /\ Executed /\ Text \subseteq done => Clean
<1> SUFFICES ASSUME TypeOK, Executed, Text \subseteq done
             PROVE  Clean
    OBVIOUS
<1>1. \A t \in Tables : Done("empty", t)
      BY TextIs DEF Done
<1>2. \A t \in Tables : Done("off", t) => Done("on", t)
      BY TextIs DEF Done, Executed
<1> QED BY <1>1, <1>2 DEF Executed, Clean

\* A statement does to rows and foreign keys what Executed says.
LEMMA ExecuteKeeps ==
    ASSUME TypeOK, NEW kind \in {"off", "empty", "on"}, NEW t \in Tables,
           Executed, Execute(kind, t)
    PROVE  Executed'
<1>1. /\ done' = done \cup {<<kind, t>>} /\ <<kind, t>> \in Text \ done
      /\ UNCHANGED <<adapter, version>>
      BY DEF Execute
<1>2. Text' = Text
      BY <1>1 DEF Text, StepByStep, Cascades
<1>3. kind = "on" => Done("off", t)
  <2> SUFFICES ASSUME kind = "on" PROVE Done("off", t)
      OBVIOUS
  <2>1. StepByStep \/ adapter \in {"mysql", "sqlserver"}
        BY <1>1 DEF Text, EmptyEach
  <2>2. Ready(kind, t)
        BY DEF Execute
  <2> QED BY <2>1, <2>2 DEF Ready, StepByStep, MysqlReady, SqlServerReady, PostgresOldReady,
             Done
<1>4. \A k \in {"off", "empty", "on"}, u \in Tables :
          Done(k, u)' <=> Done(k, u) \/ (k = kind /\ u = t)
      BY <1>1 DEF Done
<1>5. ~Done(kind, t)
      BY <1>1 DEF Done
<1>6. rows' = [u \in Tables |-> IF Done("empty", u)' THEN "empty" ELSE "full"]
      BY <1>4 DEF Execute, Executed, TypeOK
<1>7. unchecked' = {u \in Tables : Done("off", u)' /\ ~Done("on", u)'}
  <2>1. CASE kind = "off"
        BY <2>1, <1>3, <1>4, <1>5 DEF Execute, Executed
  <2>2. CASE kind = "on"
        BY <2>2, <1>3, <1>4 DEF Execute, Executed
  <2>3. CASE kind = "empty"
        BY <2>3, <1>4 DEF Execute, Executed
  <2> QED BY <2>1, <2>2, <2>3
<1> QED BY <1>1, <1>2, <1>3, <1>4, <1>6, <1>7 DEF Executed, Done

\* Where a call ends, its connection and its promise.
LEMMA SettleIs ==
    ASSUME TypeOK, CallInv, phase # "end", NEW result, Settle(result)
    PROVE  /\ phase' = "end"
           /\ promise' = IF promise = "pending" THEN result ELSE promise
           /\ session' \in {"pool", "closed", "lost", "shared"}
           /\ session' = "shared" <=> session = "shared"
           /\ session' = "pool" => session = "used" /\ adapter # "sqlite"
BY DEF Settle, Released, TypeOK, CallInv

LEMMA NextIInv == IInv /\ [Next]_vars => IInv'
<1> SUFFICES ASSUME TypeOK, CallInv, [Next]_vars
             PROVE  TypeOK' /\ CallInv'
    BY DEF IInv
<1> USE DEF Adapters
<1>1. CASE Listed
      BY <1>1, TextIs DEF Listed, TypeOK, CallInv, Untouched, AllFull, Executed, Done,
         StepByStep, Cascades, Transactional, Continues, Clean
<1>2. CASE ListFails
      BY <1>2, SettleIs DEF ListFails, TypeOK, CallInv, Untouched, AllFull, StepByStep,
         Cascades, Transactional, Continues, Clean
<1>3. CASE Begun
      BY <1>3, TextIs DEF Begun, TypeOK, CallInv, Untouched, AllFull, Executed, Done,
         StepByStep, Cascades, Transactional, Continues, Clean
<1>4. CASE BeginFails
      BY <1>4, SettleIs DEF BeginFails, TypeOK, CallInv, Untouched, AllFull, StepByStep,
         Cascades, Transactional, Continues, Clean
<1>5. ASSUME NEW kind \in {"off", "empty", "on"}, NEW t \in Tables, Execute(kind, t)
      PROVE  TypeOK' /\ CallInv'
  <2>1. TypeOK'
        BY <1>5 DEF Execute, TypeOK
  <2>2. ~failed => Executed'
        BY <1>5, ExecuteKeeps DEF CallInv, Execute
  <2> QED BY <1>5, <2>1, <2>2 DEF Execute, TypeOK, CallInv, Continues, StepByStep, Cascades,
             Transactional
<1>6. ASSUME NEW kind \in {"off", "empty", "on"}, NEW t \in Tables, ExecuteFails(kind, t)
      PROVE  TypeOK' /\ CallInv'
  <2>1. /\ phase = "batch" /\ failed' = TRUE /\ done' = done \cup {<<kind, t>>}
        /\ UNCHANGED <<adapter, version>>
        BY <1>6 DEF ExecuteFails
  <2>2. CASE Cascades
    <3>1. PostgresFails
          BY <1>6, <2>2 DEF ExecuteFails, Cascades, StepByStep
    <3>2. unchecked = {}
          BY <2>1, <2>2 DEF CallInv, Executed, Continues, Cascades, Text, StepByStep, EmptyEach,
             Done
    <3> QED BY <2>1, <2>2, <3>1, <3>2, SettleIs DEF PostgresFails, TypeOK, CallInv, Untouched,
               AllFull, Continues, Cascades, StepByStep, Transactional
  <2>3. CASE StepByStep
    <3>1. PostgresOldFails
          BY <1>6, <2>3 DEF ExecuteFails, StepByStep
    <3> QED BY <2>1, <2>3, <3>1 DEF PostgresOldFails, TypeOK, CallInv, Continues, Cascades,
               StepByStep, Transactional
  <2>4. CASE adapter = "mysql"
    <3>1. MysqlFails
          BY <1>6, <2>4 DEF ExecuteFails, Cascades, StepByStep
    <3> QED BY <2>1, <2>4, <3>1, SettleIs DEF MysqlFails, TypeOK, CallInv, Continues, Cascades,
               StepByStep, Transactional
  <2>5. CASE adapter = "sqlserver"
    <3>1. SqlServerFails(kind, t)
          BY <1>6, <2>5 DEF ExecuteFails, Cascades, StepByStep
    <3> QED BY <2>1, <2>5, <3>1, SettleIs DEF SqlServerFails, TypeOK, CallInv, Continues,
               Cascades, StepByStep, Transactional
  <2>6. CASE adapter \in {"sqlite", "cassandra"}
    <3>1. SqliteFails
          BY <1>6, <2>6 DEF ExecuteFails, CassandraFails, SqliteFails, Cascades, StepByStep
    <3> QED BY <2>1, <2>6, <3>1 DEF SqliteFails, TypeOK, CallInv, Continues, Cascades,
               StepByStep, Transactional
  <2> QED BY <2>2, <2>3, <2>4, <2>5, <2>6 DEF TypeOK, StepByStep, Cascades
<1>7. CASE BatchEnds
  <2>1. ~failed => Clean /\ promise = "pending"
        BY <1>7, TextEnds DEF BatchEnds, CallInv
  <2> QED BY <1>7, <2>1, SettleIs DEF BatchEnds, TypeOK, CallInv, Continues, Cascades,
             StepByStep, Transactional, Clean
<1>8. CASE Commit
      BY <1>8, SettleIs DEF Commit, TypeOK, CallInv, StepByStep, Cascades, Transactional, Clean
<1>9. CASE CommitFails
      BY <1>9 DEF CommitFails, TypeOK, CallInv, StepByStep, Cascades, Transactional, AllFull
<1>10. CASE Rollback
  <2>1. /\ phase' = "end" /\ promise' = "rejected" /\ session' # "used"
        /\ session' \in {"pool", "closed", "lost", "shared"}
        /\ session' = "shared" <=> session = "shared"
        /\ session' = "pool" => adapter # "sqlite"
        BY <1>10, SettleIs DEF Rollback, CallInv
  <2>2. Untouched' /\ tx' = FALSE /\ UNCHANGED <<adapter, version, done, failed>>
        BY <1>10 DEF Rollback, Untouched, AllFull
  <2>3. TypeOK'
        BY <2>1, <2>2 DEF TypeOK, Untouched, AllFull
  <2> QED BY <2>1, <2>2, <2>3 DEF CallInv, Transactional, Untouched
<1>11. CASE ConnectionLost
  <2>1. Transactional /\ Committing => Clean \/ Untouched
        BY <1>11, TextEnds DEF Committing, CallInv, ConnectionLost, Continues, Cascades,
           Transactional
  <2> QED BY <1>11, <2>1 DEF ConnectionLost, TypeOK, CallInv, Continues, StepByStep, Cascades,
             Transactional, Clean, Untouched, AllFull
<1>12. CASE UNCHANGED vars
      BY <1>12 DEF vars, TypeOK, CallInv, Executed, Done, Text, StepByStep, Cascades,
         Transactional, Continues, Clean, Untouched
<1> QED BY <1>1, <1>2, <1>3, <1>4, <1>5, <1>6, <1>7, <1>8, <1>9, <1>10, <1>11, <1>12 DEF Next,
           Answer

\* Types are kept.
THEOREM TypeCorrect == Spec => []TypeOK
<1>1. IInv => TypeOK
      BY DEF IInv
<1> QED BY <1>1, InitIInv, NextIInv, PTL DEF Spec

\* When truncateAllTables() resolves, tables are empty and foreign keys are checked.
THEOREM SuccessIsClean == Spec => []ResolvedIsClean
<1>1. IInv => ResolvedIsClean
      BY DEF IInv, CallInv, ResolvedIsClean, Clean
<1> QED BY <1>1, InitIInv, NextIInv, PTL DEF Spec

\* With PostgreSQL of any release, a call empties all tables or none.
THEOREM PostgresIsAtomic == Spec => []AllOrNothing
<1>1. IInv => AllOrNothing
      BY DEF IInv, CallInv, AllOrNothing, Clean, Untouched, AllFull
<1> QED BY <1>1, InitIInv, NextIInv, PTL DEF Spec

\* A connection goes back to its pool without a transaction.
THEOREM GivesBackClean == Spec => []PoolIsClean
<1>1. IInv => PoolIsClean
      BY DEF IInv, CallInv, PoolIsClean
<1> QED BY <1>1, InitIInv, NextIInv, PTL DEF Spec

\* TRUNCATE ... CASCADE is sent to the servers that know it.
THEOREM CascadesWhereItCan == Spec => []CascadesIfSupported
<1>1. IInv => CascadesIfSupported
      BY VersionAssumption, CascadeFromEightFour DEF IInv, TypeOK, CascadesIfSupported, Cascades
<1> QED BY <1>1, InitIInv, NextIInv, PTL DEF Spec

\* Except for SQLite and Cassandra, nothing is emptied after the caller's answer.
THEOREM QuietAfterAnswer == Spec => SettledIsQuiet
<1>1. IInv /\ [Next]_vars =>
          [promise # "pending" /\ adapter \notin {"sqlite", "cassandra"} => rows' = rows]_vars
  <2> SUFFICES ASSUME CallInv, Next, promise # "pending", adapter \notin {"sqlite", "cassandra"}
               PROVE  FALSE
      BY DEF IInv
  <2>1. phase = "end"
        BY DEF CallInv
  <2> QED BY <2>1 DEF Next, Answer, Listed, ListFails, Begun, BeginFails, Execute, ExecuteFails,
             BatchEnds, Commit, CommitFails, Rollback, ConnectionLost
<1> QED BY <1>1, InitIInv, NextIInv, PTL DEF Spec, SettledIsQuiet
=============================================================================
