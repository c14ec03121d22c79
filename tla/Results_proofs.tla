--------------------------- MODULE Results_proofs ---------------------------
(***************************************************************************)
(* Proofs about Results, for texts of any length and any counts.           *)
(*                                                                         *)
(* The invariant follows the answers while they come in: unless a          *)
(* procedure answers twice, the answers are those of the statements so     *)
(* far, one each, and SQL Server's record sets are those of them that have *)
(* columns.  The properties then only have to look at one call of          *)
(* parseRowQueryResult().                                                  *)
(***************************************************************************)
EXTENDS Results, SequenceTheorems, TLAPS

AnswerType == [of : SUBSET DOMAIN text, hasRows : BOOLEAN, n : Nat]

\* The answer to statement i, the first one of a procedure.
AnswerTo(i) == AnswersTo(i)[1]

\* Every statement has one answer.
Plain == ~(adapter = "mysql" /\ Procedures)

Given ==
    /\ adapter \in Adapters
    /\ text \in Seq(Statement) /\ Len(text) <= Length
    /\ Accepted
    /\ Identified
    /\ next \in 1..(Len(text) + 1) /\ 1..(next - 1) \subseteq Sent
    /\ outcome \in {"pending", "resolved", "rejected"}

AnswersInOrder ==
    /\ answers \in Seq(AnswerType)
    /\ Plain => answers = [i \in 1..(next - 1) |-> AnswerTo(i)]

\* What SQL Server's driver has kept apart.
SetsInOrder ==
    /\ recordSets \in Seq([of : SUBSET DOMAIN text, hasRows : {TRUE}, n : Nat])
    /\ affected \in Nat
    /\ \A k \in DOMAIN recordSets : \E i \in 1..(next - 1) :
         recordSets[k] = AnswerTo(i) /\ AnswerTo(i).hasRows
    /\ \A i \in 1..(next - 1) : AnswerTo(i).hasRows =>
         \E k \in DOMAIN recordSets : recordSets[k] = AnswerTo(i)
    /\ \A j, k \in DOMAIN recordSets : j < k =>
         \A x \in recordSets[j].of, y \in recordSets[k].of : x < y
    /\ (\A i \in 1..(next - 1) : AnswerTo(i).hasRows)
         => recordSets = [i \in 1..(next - 1) |-> AnswerTo(i)]

ResultsInv ==
    /\ Given
    /\ AnswersInOrder
    /\ SetsInOrder
    /\ IF outcome = "resolved" THEN next \notin Sent /\ results = Parsed ELSE results = <<>>

-----------------------------------------------------------------------------
\* The type of a statement, which hides only whether an INSERT is conditional.
LEMMA TypeIs ==
    ASSUME NEW s
    PROVE  /\ TypeOf(s) \in Known \cup {"UNKNOWN"}
           /\ TypeOf(s) = "SELECT" <=> s.kind = "SELECT"
           /\ TypeOf(s) = "INSERT" <=> s.kind \in {"INSERT", "CONDITIONAL"}
  BY DEF TypeOf, Known

\* Only Cassandra has conditional ones.
LEMMA NoneConditional ==
    ASSUME Given, adapter # "cassandra", NEW i \in DOMAIN text
    PROVE  text[i].kind # "CONDITIONAL"
  BY DEF Given, Accepted

\* What the identifier returned, if anything, belongs to the statements.
LEMMA CommandsAre ==
    ASSUME Given
    PROVE  /\ commands \in Seq(Known \cup {"UNKNOWN"})
           /\ Sent \subseteq DOMAIN text
           /\ \A i \in Nat : i \in DOMAIN commands =>
                /\ i \in DOMAIN text /\ commands = Types
                /\ commands[i] = TypeOf(text[i])
                /\ Strict => TypeOf(text[i]) \in Known
<1>1. Types \in Seq(Known \cup {"UNKNOWN"}) /\ DOMAIN Types = DOMAIN text
  BY TypeIs DEF Given, Types
<1>2. commands = <<>> \/ commands = Types
  BY DEF Given, Identified
<1>3. Strict /\ commands # <<>> => \A i \in DOMAIN text : TypeOf(text[i]) \in Known
  <2> SUFFICES ASSUME Strict, commands # <<>>, NEW i \in DOMAIN text, TypeOf(text[i]) \notin Known
               PROVE  FALSE
    OBVIOUS
  <2>1. Types[i] = "UNKNOWN"
    BY TypeIs DEF Types
  <2>2. "UNKNOWN" \in ToSet(Types)
    BY <2>1, <1>1 DEF ToSet
  <2> QED BY <2>2 DEF Given, Identified
<1>4. <<>> \in Seq(Known \cup {"UNKNOWN"}) /\ DOMAIN <<>> = {}
  OBVIOUS
<1>5. commands \in Seq(Known \cup {"UNKNOWN"}) /\ DOMAIN commands \subseteq DOMAIN text
  BY <1>1, <1>2, <1>4
<1>6. ASSUME NEW i \in Nat, i \in DOMAIN commands
      PROVE  /\ i \in DOMAIN text /\ commands = Types
             /\ commands[i] = TypeOf(text[i])
             /\ Strict => TypeOf(text[i]) \in Known
  <2>1. commands # <<>> /\ commands = Types /\ i \in DOMAIN text
    BY <1>6, <1>2, <1>4, <1>5
  <2> QED BY <2>1, <1>3 DEF Types
<1> QED BY <1>5, <1>6 DEF Sent

\* How the drivers answer to a statement.
LEMMA AnswersAre ==
    ASSUME Given, NEW i \in DOMAIN text, i \in Sent
    PROVE  /\ AnswersTo(i) \in Seq(AnswerType)
           /\ AnswerTo(i) \in AnswerType /\ AnswerTo(i).of = {i}
           /\ adapter # "sqlite" => AnswerTo(i).n = text[i].n
           /\ adapter \notin {"mysql", "sqlite"} => AnswerTo(i).hasRows = ReturnsRows(text[i])
           /\ adapter = "mysql" => AnswerTo(i).hasRows = (ReturnsRows(text[i]) \/ text[i].kind = "CALL")
           /\ adapter = "sqlite" => /\ AnswerTo(i).hasRows = (text[i].kind # "INSERT")
                                    /\ AnswerTo(i).n = IF text[i].kind = "INSERT" \/ ReturnsRows(text[i])
                                                       THEN text[i].n ELSE 0
           /\ Plain => AnswersTo(i) = <<AnswerTo(i)>>
<1>1. text[i] \in Statement /\ text[i].n \in Nat /\ text[i].kind \in Kinds
  <2>1. text \in Seq(Statement)
    BY DEF Given
  <2>2. text[i] \in Statement
    BY <2>1
  <2> QED BY <2>2, ResultsAssumption DEF Statement
<1>2. ASSUME NEW h \in BOOLEAN, NEW m \in Nat PROVE Answer(i, h, m) \in AnswerType
  BY DEF Answer, AnswerType
<1>one. ASSUME NEW x \in AnswerType PROVE <<x>> \in Seq(AnswerType) /\ <<x>>[1] = x
  BY <1>one
<1>two. ASSUME NEW x \in AnswerType, NEW y \in AnswerType
        PROVE  <<x, y>> \in Seq(AnswerType) /\ <<x, y>>[1] = x
  BY <1>two
<1>3. CASE adapter = "mysql" /\ text[i].kind = "CALL"
  <2>1. AnswersTo(i) = <<Answer(i, TRUE, text[i].n), Answer(i, FALSE, 0)>>
    BY <1>3 DEF AnswersTo
  <2>2. ~Plain
    BY <1>3 DEF Plain, Procedures
  <2>3. AnswersTo(i) \in Seq(AnswerType) /\ AnswerTo(i) = Answer(i, TRUE, text[i].n)
    BY <1>two, <1>1, <1>2, <2>1 DEF AnswerTo
  <2>4. AnswerTo(i).of = {i} /\ AnswerTo(i).hasRows = TRUE /\ AnswerTo(i).n = text[i].n
    BY <2>3 DEF Answer
  <2> QED BY <1>1, <1>2, <1>3, <2>2, <2>3, <2>4
<1>4. CASE adapter = "sqlite"
  <2>1. Runs(i) <=> text[i].kind = "INSERT"
    BY <1>4, CommandsAre, TypeIs, NoneConditional DEF Runs, Sent
  <2>2. CASE Runs(i)
    <3>1. AnswersTo(i) = <<Answer(i, FALSE, text[i].n)>>
      BY <1>4, <2>2 DEF AnswersTo
    <3>2. AnswersTo(i) \in Seq(AnswerType) /\ AnswerTo(i) = Answer(i, FALSE, text[i].n)
      BY <1>one, <1>1, <1>2, <3>1 DEF AnswerTo
    <3>3. AnswerTo(i).of = {i} /\ AnswerTo(i).hasRows = FALSE /\ AnswerTo(i).n = text[i].n
      BY <3>2 DEF Answer
    <3> QED BY <1>1, <1>2, <1>4, <2>1, <2>2, <3>1, <3>2, <3>3
  <2>3. CASE ~Runs(i)
    <3> DEFINE m == IF ReturnsRows(text[i]) THEN text[i].n ELSE 0
    <3>1. AnswersTo(i) = <<Answer(i, TRUE, m)>> /\ m \in Nat
      BY <1>1, <1>4, <2>3 DEF AnswersTo
    <3> HIDE DEF m
    <3>2. AnswersTo(i) \in Seq(AnswerType) /\ AnswerTo(i) = Answer(i, TRUE, m)
      BY <1>one, <1>1, <1>2, <3>1 DEF AnswerTo
    <3>3. AnswerTo(i).of = {i} /\ AnswerTo(i).hasRows = TRUE /\ AnswerTo(i).n = m
      BY <3>2 DEF Answer
    <3> QED BY <1>1, <1>2, <1>4, <2>1, <2>3, <3>1, <3>2, <3>3 DEF m
  <2> QED BY <2>2, <2>3
<1>5. CASE adapter # "sqlite" /\ ~(adapter = "mysql" /\ text[i].kind = "CALL")
  <2>1. AnswersTo(i) = <<Answer(i, ReturnsRows(text[i]), text[i].n)>>
    BY <1>5 DEF AnswersTo
  <2>2. ReturnsRows(text[i]) \in BOOLEAN
    BY DEF ReturnsRows
  <2> QED BY <1>1, <1>2, <1>5, <2>1, <2>2 DEF AnswerTo, Answer
<1> QED BY <1>3, <1>4, <1>5

\* An element of a sequence and its place.
LEMMA Element ==
    ASSUME NEW S, NEW s \in Seq(S), NEW k \in DOMAIN s
    PROVE  k \in Nat /\ k >= 1 /\ s[k] \in S
  BY LenProperties

\* A list of the first values of g, with one more.
LEMMA OneMore ==
    ASSUME NEW S, NEW m \in Nat, NEW g, NEW s \in Seq(S), g[m + 1] \in S,
           s = [i \in 1..m |-> g[i]]
    PROVE  Append(s, g[m + 1]) = [i \in 1..(m + 1) |-> g[i]]
<1> DEFINE t == Append(s, g[m + 1])
<1>1. DOMAIN s = 1..Len(s) /\ Len(s) \in Nat /\ DOMAIN s = 1..m
  BY LenProperties
<1>2. Len(s) = m
  BY <1>1
<1>3. /\ t \in Seq(S) /\ Len(t) = m + 1
      /\ \A i \in 1..m : t[i] = s[i]
      /\ t[m + 1] = g[m + 1]
  BY <1>2, AppendProperties
<1>4. t \in [1..(m + 1) -> S]
  BY <1>3, LenProperties
<1>5. \A i \in 1..(m + 1) : t[i] = g[i]
  BY <1>3
<1> QED BY <1>4, <1>5

-----------------------------------------------------------------------------
LEMMA ResultsInit == Init => ResultsInv
<1> SUFFICES ASSUME Init PROVE ResultsInv
  OBVIOUS
<1>1. text \in Seq(Statement) /\ Len(text) <= Length
  <2>1. PICK m \in 0..Length : text \in [1..m -> Statement]
    BY DEF Init, BoundedSeq, SeqOf
  <2>2. m \in Nat /\ m <= Length
    BY <2>1, ResultsAssumption
  <2>3. text \in Seq(Statement)
    BY <2>1, <2>2, SeqDef
  <2>4. Len(text) = m
    BY <2>1, <2>2, <2>3, LenProperties
  <2> QED BY <2>2, <2>3, <2>4
<1>2. Given
  <2>1. next = 1 /\ 1..(next - 1) = {} /\ Len(text) \in Nat
    BY <1>1, LenProperties DEF Init
  <2> QED BY <1>1, <2>1 DEF Init, Given
<1>3. 1..(next - 1) = {} /\ DOMAIN <<>> = {}
  BY DEF Init
<1>4. AnswersInOrder
  BY <1>3 DEF Init, AnswersInOrder
<1>5. SetsInOrder
  BY <1>3 DEF Init, SetsInOrder
<1> QED BY <1>2, <1>4, <1>5 DEF Init, ResultsInv

\* Executing a statement adds its answer.
LEMMA ExecuteKeeps ==
    ASSUME ResultsInv, Execute
    PROVE  ResultsInv'
<1> USE DEF ResultsInv
<1>1. /\ outcome = "pending" /\ next \in Sent /\ next \in DOMAIN text /\ next' = next + 1
      /\ UNCHANGED <<adapter, text, commands, outcome, results>>
      /\ next \in Nat
  BY CommandsAre DEF Execute, Given
<1>before. \A i \in 1..(next - 1) : i \in DOMAIN text /\ i \in Sent
  BY CommandsAre DEF Given
<1>2. Given'
  <2>1. next \in 1..Len(text) /\ Len(text) \in Nat
    BY <1>1, LenProperties DEF Given
  <2>2. Sent' = Sent /\ 1..(next' - 1) \subseteq Sent
    BY <1>1, <1>before DEF Sent
  <2>3. Identified' /\ (Len(text) <= Length)' /\ (next \in 1..(Len(text) + 1))'
    BY <1>1, <2>1 DEF Given, Identified, Strict, Types
  <2>4. Accepted'
    BY <1>1 DEF Given, Accepted
  <2> QED BY <1>1, <2>2, <2>3, <2>4 DEF Given
<1>3. \A i \in Nat : AnswerTo(i)' = AnswerTo(i)
  BY <1>1 DEF AnswerTo, AnswersTo, Runs
<1>4. (Plain <=> Plain') /\ AnswerType' = AnswerType
  BY <1>1 DEF Plain, Procedures, AnswerType
<1>a. /\ AnswersTo(next) \in Seq(AnswerType)
      /\ AnswerTo(next) \in AnswerType /\ AnswerTo(next).of = {next}
      /\ Plain => AnswersTo(next) = <<AnswerTo(next)>>
  BY <1>1, AnswersAre
<1>list. ASSUME NEW S, NEW s \in Seq(S), AnswerTo(next) \in S,
                s = [i \in 1..(next - 1) |-> AnswerTo(i)]
         PROVE  Append(s, AnswerTo(next)) = [i \in 1..next |-> AnswerTo(i)]
  <2> DEFINE g == [i \in Nat |-> AnswerTo(i)]
  <2>1. next - 1 \in Nat /\ (next - 1) + 1 = next
    BY <1>1 DEF Given
  <2>2. \A i \in 1..next : g[i] = AnswerTo(i)
    OBVIOUS
  <2>3. s = [i \in 1..(next - 1) |-> g[i]] /\ g[(next - 1) + 1] = AnswerTo(next)
    BY <1>1, <1>list, <2>1, <2>2
  <2>4. Append(s, AnswerTo(next)) = [i \in 1..next |-> g[i]]
    <3> HIDE DEF g
    <3>1. Append(s, g[(next - 1) + 1]) = [i \in 1..((next - 1) + 1) |-> g[i]]
      BY <1>list, <2>1, <2>3, OneMore
    <3> QED BY <2>1, <2>3, <3>1
  <2> QED BY <2>2, <2>4
<1>5. AnswersInOrder'
  <2>1. answers' = answers \o AnswersTo(next) /\ answers \in Seq(AnswerType)
    BY DEF Execute, AnswersInOrder
  <2>2. answers' \in Seq(AnswerType)
    BY <2>1, <1>a, ConcatProperties
  <2>3. ASSUME Plain PROVE answers' = [i \in 1..next |-> AnswerTo(i)]
    <3>1. answers = [i \in 1..(next - 1) |-> AnswerTo(i)]
      BY <2>3 DEF AnswersInOrder
    <3>2. answers' = Append(answers, AnswerTo(next))
      BY <2>1, <2>3, <1>a, AppendIsConcat
    <3> QED BY <1>a, <1>list, <2>1, <3>1, <3>2
  <2> QED BY <2>2, <2>3, <1>1, <1>3, <1>4 DEF AnswersInOrder
<1>6. SetsInOrder'
  <2> DEFINE SetType == [of : SUBSET DOMAIN text, hasRows : {TRUE}, n : Nat]
             a == AnswerTo(next)
  <2>1. /\ affected' = affected + a.n
        /\ recordSets' = IF a.hasRows THEN Append(recordSets, a) ELSE recordSets
    BY DEF Execute, Collect, AnswerTo
  <2>2. affected' \in Nat
    BY <2>1, <1>a DEF SetsInOrder, AnswerType
  <2>3. a.hasRows => a \in SetType
    BY <1>a DEF AnswerType
  <2>4. recordSets \in Seq(SetType) /\ SetType' = SetType
    BY <1>1 DEF SetsInOrder
  <2>old. /\ \A k \in DOMAIN recordSets : \E i \in 1..(next - 1) :
                recordSets[k] = AnswerTo(i) /\ AnswerTo(i).hasRows
          /\ \A i \in 1..(next - 1) : AnswerTo(i).hasRows =>
                \E k \in DOMAIN recordSets : recordSets[k] = AnswerTo(i)
          /\ \A j, k \in DOMAIN recordSets : j < k =>
                \A x \in recordSets[j].of, y \in recordSets[k].of : x < y
    BY DEF SetsInOrder
  <2>n. \A i \in 1..next : i \in 1..(next - 1) \/ i = next
    BY <1>1
  <2>goal. ASSUME recordSets' \in Seq(SetType),
                  \A k \in DOMAIN recordSets' : \E i \in 1..next :
                    recordSets'[k] = AnswerTo(i) /\ AnswerTo(i).hasRows,
                  \A i \in 1..next : AnswerTo(i).hasRows =>
                    \E k \in DOMAIN recordSets' : recordSets'[k] = AnswerTo(i),
                  \A j, k \in DOMAIN recordSets' : j < k =>
                    \A x \in recordSets'[j].of, y \in recordSets'[k].of : x < y,
                  (\A i \in 1..next : AnswerTo(i).hasRows)
                    => recordSets' = [i \in 1..next |-> AnswerTo(i)]
           PROVE  SetsInOrder'
    <3>1. next' - 1 = next /\ \A i \in 1..next : AnswerTo(i)' = AnswerTo(i)
      BY <1>1, <1>3
    <3>2. (recordSets \in Seq([of : SUBSET DOMAIN text, hasRows : {TRUE}, n : Nat]))'
      BY <1>1, <2>goal
    <3> HIDE DEF SetType, a
    <3>3. (\A k \in DOMAIN recordSets : \E i \in 1..(next - 1) :
             recordSets[k] = AnswerTo(i) /\ AnswerTo(i).hasRows)'
      <4> SUFFICES ASSUME NEW k \in DOMAIN recordSets'
                   PROVE  \E i \in 1..(next' - 1) :
                            recordSets'[k] = AnswerTo(i)' /\ AnswerTo(i)'.hasRows
        OBVIOUS
      <4>1. PICK i \in 1..next : recordSets'[k] = AnswerTo(i) /\ AnswerTo(i).hasRows
        BY <2>goal
      <4>2. i \in 1..(next' - 1) /\ AnswerTo(i)' = AnswerTo(i)
        BY <3>1
      <4> QED BY <4>1, <4>2
    <3>4. (\A i \in 1..(next - 1) : AnswerTo(i).hasRows =>
             \E k \in DOMAIN recordSets : recordSets[k] = AnswerTo(i))'
      BY <2>goal, <3>1
    <3>5. ((\A i \in 1..(next - 1) : AnswerTo(i).hasRows)
             => recordSets = [i \in 1..(next - 1) |-> AnswerTo(i)])'
      <4>1. [i \in 1..(next' - 1) |-> AnswerTo(i)'] = [i \in 1..next |-> AnswerTo(i)]
        BY <3>1
      <4>2. (\A i \in 1..(next' - 1) : AnswerTo(i).hasRows')
              <=> (\A i \in 1..next : AnswerTo(i).hasRows)
        BY <3>1
      <4> QED BY <2>goal, <4>1, <4>2
    <3> QED BY <2>2, <2>goal, <3>2, <3>3, <3>4, <3>5 DEF SetsInOrder
  <2>5. CASE ~a.hasRows
    <3>1. recordSets' = recordSets /\ ~AnswerTo(next).hasRows
      BY <2>1, <2>5
    <3>2. /\ \A k \in DOMAIN recordSets : \E i \in 1..next :
                recordSets[k] = AnswerTo(i) /\ AnswerTo(i).hasRows
          /\ \A i \in 1..next : AnswerTo(i).hasRows =>
                \E k \in DOMAIN recordSets : recordSets[k] = AnswerTo(i)
      BY <1>1, <2>old, <2>n, <3>1
    <3>3. next \in 1..next
      BY <1>1 DEF Given
    <3> HIDE DEF SetType
    <3> QED BY <2>4, <2>old, <2>goal, <3>1, <3>2, <3>3
  <2>6. CASE a.hasRows
    <3>1. recordSets' = Append(recordSets, a) /\ a \in SetType
      BY <2>1, <2>3, <2>6
    <3> DEFINE m == Len(recordSets)
    <3>2. /\ recordSets' \in Seq(SetType) /\ m \in Nat
          /\ DOMAIN recordSets = 1..m /\ DOMAIN recordSets' = 1..(m + 1)
          /\ \A k \in 1..m : recordSets'[k] = recordSets[k]
          /\ recordSets'[m + 1] = a
      <4> HIDE DEF SetType, a
      <4> QED BY <2>4, <3>1, AppendProperties, LenProperties
    <3> HIDE DEF m
    <3>3. \A k \in 1..(m + 1) : k \in 1..m \/ k = m + 1
      BY <3>2
    <3>4. \A k \in 1..(m + 1) : \E i \in 1..next :
            recordSets'[k] = AnswerTo(i) /\ AnswerTo(i).hasRows
      <4> SUFFICES ASSUME NEW k \in 1..(m + 1)
                   PROVE  \E i \in 1..next : recordSets'[k] = AnswerTo(i) /\ AnswerTo(i).hasRows
        OBVIOUS
      <4>1. CASE k \in 1..m
        <5>1. PICK i \in 1..(next - 1) : recordSets[k] = AnswerTo(i) /\ AnswerTo(i).hasRows
          BY <2>old, <3>2, <4>1
        <5>2. i \in 1..next
          BY <1>1
        <5> QED BY <3>2, <4>1, <5>1, <5>2
      <4>2. CASE k = m + 1
        <5>1. next \in 1..next
          BY <1>1 DEF Given
        <5> QED BY <2>6, <3>2, <4>2, <5>1
      <4> QED BY <3>3, <4>1, <4>2
    <3>5. \A i \in 1..next : AnswerTo(i).hasRows =>
            \E k \in 1..(m + 1) : recordSets'[k] = AnswerTo(i)
      <4> SUFFICES ASSUME NEW i \in 1..next, AnswerTo(i).hasRows
                   PROVE  \E k \in 1..(m + 1) : recordSets'[k] = AnswerTo(i)
        OBVIOUS
      <4>1. CASE i = next
        BY <3>2, <4>1
      <4>2. CASE i \in 1..(next - 1)
        BY <2>old, <3>2, <4>2
      <4> QED BY <2>n, <4>1, <4>2
    <3>6. \A j, k \in 1..(m + 1) : j < k =>
            \A x \in recordSets'[j].of, y \in recordSets'[k].of : x < y
      <4> SUFFICES ASSUME NEW j \in 1..(m + 1), NEW k \in 1..(m + 1), j < k,
                          NEW x \in recordSets'[j].of, NEW y \in recordSets'[k].of
                   PROVE  x < y
        OBVIOUS
      <4>1. j \in 1..m /\ recordSets'[j] = recordSets[j]
        BY <3>2
      <4>2. CASE k \in 1..m
        BY <2>old, <3>2, <4>1, <4>2
      <4>3. CASE k = m + 1
        <5>1. y = next
          BY <1>a, <3>2, <4>3
        <5>2. PICK i \in 1..(next - 1) : recordSets[j] = AnswerTo(i)
          BY <2>old, <3>2, <4>1
        <5>3. x = i
          <6>1. i \in DOMAIN text /\ i \in Sent
            BY <1>1, <1>before
          <6> QED BY <4>1, <5>2, <6>1, AnswersAre
        <5> QED BY <1>1, <5>1, <5>2, <5>3
      <4> QED BY <3>3, <4>2, <4>3
    <3>7. (\A i \in 1..next : AnswerTo(i).hasRows)
            => recordSets' = [i \in 1..next |-> AnswerTo(i)]
      <4> SUFFICES ASSUME \A i \in 1..next : AnswerTo(i).hasRows
                   PROVE  recordSets' = [i \in 1..next |-> AnswerTo(i)]
        OBVIOUS
      <4>1. recordSets = [i \in 1..(next - 1) |-> AnswerTo(i)]
        BY <1>1 DEF SetsInOrder
      <4> HIDE DEF SetType
      <4> QED BY <1>list, <2>4, <3>1, <4>1
    <3> HIDE DEF SetType
    <3> QED BY <2>goal, <3>2, <3>4, <3>5, <3>6, <3>7
  <2> QED BY <2>5, <2>6
<1> QED BY <1>1, <1>2, <1>5, <1>6

LEMMA ResultsNext == ResultsInv /\ [Next]_vars => ResultsInv'
<1> SUFFICES ASSUME ResultsInv, [Next]_vars PROVE ResultsInv'
  OBVIOUS
<1>1. ASSUME UNCHANGED <<adapter, text, commands, next, answers, recordSets, affected>>,
             outcome' \in {"pending", "resolved", "rejected"},
             IF outcome' = "resolved" THEN next \notin Sent /\ results' = Parsed
             ELSE results' = <<>>
      PROVE  ResultsInv'
  <2>1. Given' /\ Sent' = Sent
    BY <1>1 DEF ResultsInv, Given, Accepted, Identified, Strict, Types, Sent
  <2>2. \A i \in Nat : AnswerTo(i)' = AnswerTo(i)
    BY <1>1 DEF AnswerTo, AnswersTo, Runs
  <2>3. AnswersInOrder'
    BY <1>1, <2>2 DEF ResultsInv, AnswersInOrder, AnswerType, Plain, Procedures
  <2>4. SetsInOrder'
    <3> DEFINE here == 1..(next - 1)
    <3>1. next' = next /\ recordSets' = recordSets /\ \A i \in here : AnswerTo(i)' = AnswerTo(i)
      BY <1>1, <2>2
    <3>2. (recordSets \in Seq([of : SUBSET DOMAIN text, hasRows : {TRUE}, n : Nat]))'
            /\ affected' \in Nat
      BY <1>1 DEF ResultsInv, SetsInOrder
    <3>3. /\ \A k \in DOMAIN recordSets : \E i \in here :
                recordSets[k] = AnswerTo(i) /\ AnswerTo(i).hasRows
          /\ \A i \in here : AnswerTo(i).hasRows =>
                \E k \in DOMAIN recordSets : recordSets[k] = AnswerTo(i)
          /\ (\A i \in here : AnswerTo(i).hasRows) => recordSets = [i \in here |-> AnswerTo(i)]
      BY DEF ResultsInv, SetsInOrder
    <3> HIDE DEF here
    <3>4. [i \in here |-> AnswerTo(i)'] = [i \in here |-> AnswerTo(i)]
      BY <3>1
    <3>5. /\ \A k \in DOMAIN recordSets' : \E i \in here :
                recordSets'[k] = AnswerTo(i)' /\ AnswerTo(i)'.hasRows
          /\ \A i \in here : AnswerTo(i)'.hasRows =>
                \E k \in DOMAIN recordSets' : recordSets'[k] = AnswerTo(i)'
          /\ (\A i \in here : AnswerTo(i)'.hasRows) => recordSets' = [i \in here |-> AnswerTo(i)']
      BY <3>1, <3>3, <3>4
    <3>6. \A j, k \in DOMAIN recordSets' : j < k =>
            \A x \in recordSets'[j].of, y \in recordSets'[k].of : x < y
      BY <3>1 DEF ResultsInv, SetsInOrder
    <3> QED BY <3>1, <3>2, <3>5, <3>6 DEF SetsInOrder, here
  <2>5. Parsed' = Parsed
    BY <1>1 DEF Parsed, MysqlResults, IsMultipleQuery, FirstField, SqlServerResults, SetsOrEmpty,
       PostgresResult, MysqlResult, SqliteResult, SqlServerResult, CassandraResult, CommandOr,
       CommandAt
  <2> QED BY <1>1, <2>1, <2>3, <2>4, <2>5 DEF ResultsInv
<1>2. CASE Execute
  BY <1>2, ExecuteKeeps
<1>3. CASE Fail
  BY <1>1, <1>3 DEF Fail, ResultsInv
<1>4. CASE Return
  BY <1>1, <1>4 DEF Return, ResultsInv
<1>5. CASE UNCHANGED vars
  BY <1>1, <1>5 DEF vars, ResultsInv, Given
<1> QED BY <1>2, <1>3, <1>4, <1>5 DEF Next

\* ResultsInv holds in every reachable state.
THEOREM ResultsInvariant == Spec => []ResultsInv
  BY ResultsInit, ResultsNext, PTL DEF Spec

-----------------------------------------------------------------------------
\* When the promise is resolved all has been executed that was sent.
LEMMA AllSent ==
    ASSUME ResultsInv, outcome = "resolved"
    PROVE  /\ 1..(next - 1) = Sent
           /\ adapter # "sqlite" => Sent = DOMAIN text
           /\ adapter = "sqlite" => Sent = DOMAIN commands
           /\ Plain => answers = [i \in Sent |-> AnswerTo(i)]
<1>1. Sent = DOMAIN text \/ Sent = DOMAIN commands
  BY DEF Sent
<1>2. /\ DOMAIN text = 1..Len(text) /\ Len(text) \in Nat
      /\ DOMAIN commands = 1..Len(commands) /\ Len(commands) \in Nat
  BY CommandsAre, LenProperties DEF ResultsInv, Given
<1>3. PICK m \in Nat : Sent = 1..m
  BY <1>1, <1>2
<1>4. next \in Nat /\ next >= 1 /\ next \notin 1..m /\ 1..(next - 1) \subseteq 1..m
  BY <1>2, <1>3 DEF ResultsInv, Given
<1>5. next = m + 1
  <2>1. next > m
    BY <1>4
  <2>2. next > 1 => next - 1 \in 1..(next - 1)
    BY <1>4
  <2>3. next - 1 <= m
    BY <1>4, <2>2
  <2> QED BY <1>4, <2>1, <2>3
<1> QED BY <1>3, <1>5 DEF Sent, ResultsInv, AnswersInOrder

\* isMultipleQuery() tells one answer from several.
LEMMA MysqlResultsAre ==
    ASSUME answers \in Seq(AnswerType)
    PROVE  MysqlResults = [i \in DOMAIN answers |-> MysqlResult(i, answers[i])]
<1>0. DOMAIN answers = 1..Len(answers) /\ Len(answers) \in Nat
  BY LenProperties
<1>1. CASE Len(answers) = 0
  <2>1. answers = <<>> /\ DOMAIN answers = {}
    BY <1>0, <1>1
  <2> QED BY <2>1 DEF MysqlResults
<1>2. CASE Len(answers) = 1
  <2>1. answers # <<>> /\ DOMAIN answers = {1}
    BY <1>0, <1>2
  <2>2. ~IsMultipleQuery
    BY <1>2, <2>1 DEF IsMultipleQuery, FirstField, Undefined
  <2>3. MysqlResults = <<MysqlResult(1, answers[1])>>
    BY <1>2, <2>1, <2>2 DEF MysqlResults
  <2> QED BY <2>1, <2>3
<1>3. CASE Len(answers) # 0 /\ Len(answers) # 1
  <2>1. answers # <<>>
    BY <1>3
  <2>2. IsMultipleQuery
    BY <1>3, <2>1 DEF IsMultipleQuery, FirstField
  <2> QED BY <2>1, <2>2 DEF MysqlResults
<1> QED BY <1>1, <1>2, <1>3

\* What a result can be.
LEMMA ResultIs ==
    ASSUME ResultsInv, outcome = "resolved", NEW k \in DOMAIN results
    PROVE  \/ /\ adapter = "postgresql" /\ k \in DOMAIN text
              /\ results[k] = PostgresResult(k, AnswerTo(k))
           \/ /\ adapter = "mysql" /\ k \in DOMAIN answers
              /\ results[k] = MysqlResult(k, answers[k])
           \/ /\ adapter = "sqlite" /\ k \in DOMAIN commands
              /\ results[k] = SqliteResult(k, AnswerTo(k))
           \/ /\ adapter = "cassandra" /\ k = 1 /\ DOMAIN text = {1}
              /\ results[k] = CassandraResult(k, AnswerTo(k))
           \/ /\ adapter = "sqlserver" /\ k \in DOMAIN SetsOrEmpty
              /\ results[k] = SqlServerResult(k, SetsOrEmpty[k])
<1>1. results = Parsed /\ adapter \in Adapters
  BY DEF ResultsInv, Given
<1>2. CASE adapter = "postgresql"
  BY <1>1, <1>2, AllSent DEF Parsed, Plain
<1>3. CASE adapter = "mysql"
  <2>1. answers \in Seq(AnswerType)
    BY DEF ResultsInv, AnswersInOrder
  <2>2. results = [i \in DOMAIN answers |-> MysqlResult(i, answers[i])]
    BY <1>1, <1>3, <2>1, MysqlResultsAre DEF Parsed
  <2> QED BY <1>3, <2>2
<1>4. CASE adapter = "sqlite"
  BY <1>1, <1>4, AllSent DEF Parsed, Plain
<1>5. CASE adapter = "cassandra"
  <2>1. DOMAIN text = {1}
    BY <1>5, LenProperties DEF ResultsInv, Given, Accepted
  <2>2. answers[1] = AnswerTo(1)
    BY <1>5, <2>1, AllSent DEF Plain
  <2>3. results = <<CassandraResult(1, answers[1])>>
    BY <1>1, <1>5 DEF Parsed
  <2> QED BY <1>5, <2>1, <2>2, <2>3
<1>6. CASE adapter = "sqlserver"
  BY <1>1, <1>6 DEF Parsed, SqlServerResults
<1> QED BY <1>1, <1>2, <1>3, <1>4, <1>5, <1>6 DEF Adapters

\* The statement that a result is of, if it is of one only.
LEMMA StatementOf ==
    ASSUME ResultsInv, NEW i \in DOMAIN text, i \in Sent
    PROVE  /\ text[i].kind \in Kinds /\ text[i].n \in Nat
           /\ i \in DOMAIN commands =>
                /\ commands[i] = TypeOf(text[i])
                /\ Strict => TypeOf(text[i]) \in Known
           /\ PostgresResult(i, AnswerTo(i)) =
                Result(AnswerTo(i), CommandOr(i, text[i].kind),
                       IF text[i].kind = "SELECT" THEN {text[i].n} ELSE {},
                       IF text[i].kind \notin {"SELECT", "SHOW", "CALL"} THEN {AnswerTo(i).n} ELSE {})
                \/ adapter # "postgresql"
<1>1. Given /\ text \in Seq(Statement)
  BY DEF ResultsInv, Given
<1>2. text[i] \in Statement
  BY <1>1
<1>3. text[i].kind \in Kinds /\ text[i].n \in Nat
  BY <1>2, ResultsAssumption DEF Statement
<1>4. i \in DOMAIN commands =>
        /\ commands[i] = TypeOf(text[i])
        /\ Strict => TypeOf(text[i]) \in Known
  BY <1>1, CommandsAre, LenProperties
<1>5. ASSUME adapter = "postgresql"
      PROVE  PostgresResult(i, AnswerTo(i)) =
                Result(AnswerTo(i), CommandOr(i, text[i].kind),
                       IF text[i].kind = "SELECT" THEN {text[i].n} ELSE {},
                       IF text[i].kind \notin {"SELECT", "SHOW", "CALL"} THEN {AnswerTo(i).n} ELSE {})
  <2>1. AnswerTo(i).of = {i} /\ AnswerTo(i).n = text[i].n
    BY <1>1, <1>5, AnswersAre
  <2>2. (CHOOSE x \in AnswerTo(i).of : TRUE) = i
    BY <2>1
  <2> QED BY <2>1, <2>2 DEF PostgresResult
<1> QED BY <1>3, <1>4, <1>5

\* What `command || fallback` can be, wherever the command is taken from.
LEMMA CommandIs ==
    ASSUME Given, NEW i \in Nat, NEW fallback
    PROVE  CommandOr(i, fallback) \in Known \cup {"UNKNOWN", fallback}
<1>1. i \in DOMAIN commands => commands[i] \in Known \cup {"UNKNOWN"}
  BY CommandsAre
<1> QED BY <1>1 DEF CommandOr, CommandAt

\* Every result has a command and counts, whatever the identifier knew.
THEOREM TypeCorrect == Spec => []TypeOK
<1>1. ResultsInv => TypeOK
  <2> SUFFICES ASSUME ResultsInv PROVE TypeOK
    OBVIOUS
  <2> USE DEF ResultsInv
  <2>1. Given /\ AnswersInOrder /\ SetsInOrder
    OBVIOUS
  <2>2. /\ adapter \in Adapters /\ text \in Seq(Statement)
        /\ commands \in Seq(Known \cup {"UNKNOWN"})
        /\ next \in 1..(Length + 1)
        /\ outcome \in {"pending", "resolved", "rejected"}
    <3>1. Len(text) \in Nat /\ Length \in Nat /\ Len(text) <= Length
      BY <2>1, LenProperties, ResultsAssumption DEF Given
    <3> QED BY <2>1, <3>1, CommandsAre DEF Given
  <2>3. /\ answers \in Seq([of : SUBSET DOMAIN text, hasRows : BOOLEAN, n : Nat])
        /\ recordSets \in Seq([of : SUBSET DOMAIN text, hasRows : {TRUE}, n : Nat])
        /\ affected \in Nat
    BY <2>1 DEF AnswersInOrder, SetsInOrder, AnswerType
  <2>4. ASSUME NEW k \in DOMAIN results
        PROVE  /\ results[k].command \in Kinds \cup {"UNKNOWN"}
                     \cup (IF adapter \in {"sqlserver", "cassandra"} THEN {"false"} ELSE {})
               /\ results[k].rowCount \subseteq Nat /\ results[k].affectedRows \subseteq Nat
    <3>0. outcome = "resolved"
      BY <2>4
    <3> USE DEF Result
    <3>1. CASE adapter = "postgresql"
      <4>1. k \in DOMAIN text /\ k \in Sent /\ results[k] = PostgresResult(k, AnswerTo(k))
        BY <3>0, <3>1, ResultIs DEF Sent
      <4>2. k \in Nat /\ AnswerTo(k).n \in Nat
        BY <2>1, <4>1, AnswersAre, LenProperties DEF AnswerType, Given
      <4>3. CommandOr(k, text[k].kind) \in Kinds \cup {"UNKNOWN"}
        BY <2>1, <4>1, <4>2, CommandIs, StatementOf DEF Kinds
      <4> QED BY <3>1, <4>1, <4>2, <4>3, StatementOf
    <3>2. CASE adapter = "mysql"
      <4>1. k \in DOMAIN answers /\ results[k] = MysqlResult(k, answers[k])
        BY <3>0, <3>2, ResultIs
      <4>2. k \in Nat /\ answers[k].n \in Nat
        <5>1. answers[k] \in [of : SUBSET DOMAIN text, hasRows : BOOLEAN, n : Nat] /\ k \in Nat
          BY <2>3, <4>1, Element
        <5> QED BY <5>1
      <4>3. CommandOr(k, IF answers[k].hasRows THEN "SELECT" ELSE "UNKNOWN") \in Kinds \cup {"UNKNOWN"}
        BY <2>1, <4>2, CommandIs DEF Kinds, Known
      <4> QED BY <3>2, <4>1, <4>2, <4>3 DEF MysqlResult
    <3>3. CASE adapter = "sqlite"
      <4>1. k \in DOMAIN commands /\ results[k] = SqliteResult(k, AnswerTo(k))
        BY <3>0, <3>3, ResultIs
      <4>2. k \in Nat /\ k \in DOMAIN text /\ k \in Sent
        BY <2>1, <3>3, <4>1, CommandsAre, LenProperties DEF Sent
      <4>3. AnswerTo(k).n \in Nat /\ AnswerTo(k).hasRows = (text[k].kind # "INSERT")
        BY <2>1, <3>3, <4>2, AnswersAre DEF AnswerType
      <4>4. CommandOr(k, IF AnswerTo(k).hasRows THEN "SELECT" ELSE "false") \in Known \cup {"UNKNOWN"}
        <5>1. commands[k] \in Known \cup {"UNKNOWN"}
          BY <2>1, <4>1, <4>2, CommandsAre
        <5> QED BY <4>1, <5>1 DEF CommandOr, CommandAt, Undefined, Known
      <4> QED BY <3>3, <4>1, <4>3, <4>4 DEF SqliteResult, Kinds
    <3>4. CASE adapter = "cassandra"
      <4>1. k = 1 /\ results[k] = CassandraResult(k, AnswerTo(k)) /\ k \in DOMAIN text /\ k \in Sent
        BY <3>0, <3>4, ResultIs DEF Sent
      <4>2. AnswerTo(k).n \in Nat
        BY <2>1, <4>1, AnswersAre DEF AnswerType
      <4> DEFINE isSelect == CommandOr(k, IF AnswerTo(k).hasRows THEN "SELECT" ELSE "false") = "SELECT"
                 command  == CommandOr(k, IF isSelect THEN "SELECT" ELSE "false")
                 a        == AnswerTo(k)
      <4>3. /\ results[k].command = command
            /\ results[k].rowCount = IF isSelect THEN {a.n} ELSE {}
            /\ results[k].affectedRows = IF ~isSelect /\ a.hasRows THEN {a.n} ELSE {}
        BY <4>1 DEF CassandraResult, Result
      <4>4. command \in Known \cup {"UNKNOWN", "SELECT", "false"}
        BY <2>1, <4>1, CommandIs
      <4> HIDE DEF command, isSelect
      <4> QED BY <3>4, <4>2, <4>3, <4>4 DEF Kinds, Known
    <3>5. CASE adapter = "sqlserver"
      <4>1. k \in DOMAIN SetsOrEmpty /\ results[k] = SqlServerResult(k, SetsOrEmpty[k])
        BY <3>0, <3>5, ResultIs
      <4>2. k \in Nat /\ SetsOrEmpty[k].n \in Nat
        <5>1. SetsOrEmpty = recordSets \/ SetsOrEmpty = <<[of |-> DOMAIN text, hasRows |-> FALSE, n |-> 0]>>
          BY DEF SetsOrEmpty
        <5>2. CASE SetsOrEmpty = recordSets
          <6>1. /\ SetsOrEmpty[k] \in [of : SUBSET DOMAIN text, hasRows : {TRUE}, n : Nat]
                /\ k \in Nat
            BY <2>3, <4>1, <5>2, Element
          <6> QED BY <6>1
        <5>3. CASE SetsOrEmpty = <<[of |-> DOMAIN text, hasRows |-> FALSE, n |-> 0]>>
          BY <4>1, <5>3
        <5> QED BY <5>1, <5>2, <5>3
      <4> DEFINE fallback == IF SetsOrEmpty[k].n > 0 \/ affected = 0 THEN "SELECT" ELSE "false"
      <4>3. /\ results[k].command = CommandOr(k, fallback)
            /\ results[k].rowCount = {SetsOrEmpty[k].n} /\ results[k].affectedRows = {affected}
        BY <4>1 DEF SqlServerResult
      <4>4. fallback \in {"SELECT", "false"}
        OBVIOUS
      <4> HIDE DEF fallback
      <4>5. CommandOr(k, fallback) \in Known \cup {"UNKNOWN", fallback}
        BY <2>1, <4>2, CommandIs
      <4> QED BY <2>3, <3>5, <4>2, <4>3, <4>4, <4>5 DEF Kinds, Known
    <3> QED BY <2>2, <3>1, <3>2, <3>3, <3>4, <3>5 DEF Adapters
  <2> QED BY <2>2, <2>3, <2>4 DEF TypeOK, ToSet
<1> QED BY <1>1, ResultsInvariant, PTL

\* Results are in the order of the statements, one for each, or, in SQL Server, one for
\* each statement that returns rows, or one or none if no statement does.
THEOREM OneEach == Spec => []OneResultEach
<1>1. ResultsInv => OneResultEach
  <2> SUFFICES ASSUME ResultsInv, outcome = "resolved"
               PROVE  LET of == [i \in DOMAIN results |-> results[i].of] IN
                      CASE adapter = "sqlserver" ->
                             \/ of \in {<<>>, <<DOMAIN text>>} /\ \A s \in ToSet(text) : ~ReturnsRows(s)
                             \/ /\ ToSet(of) = {{i} : i \in {i \in DOMAIN text : ReturnsRows(text[i])}}
                                /\ \A j, k \in DOMAIN of : j < k =>
                                     \A x \in of[j], y \in of[k] : x < y
                        [] adapter = "sqlite" -> of = [i \in DOMAIN commands |-> {i}]
                        [] OTHER -> of = [i \in DOMAIN text |-> {i}] \/ (adapter = "mysql" /\ Procedures)
    BY DEF OneResultEach
  <2> DEFINE of == [i \in DOMAIN results |-> results[i].of]
  <2>1. Given /\ AnswersInOrder /\ SetsInOrder /\ results = Parsed
    BY DEF ResultsInv
  <2>2. CASE adapter = "postgresql"
    <3>1. DOMAIN results = DOMAIN text /\ Sent = DOMAIN text
      BY <2>1, <2>2, AllSent DEF Parsed, Plain
    <3>2. \A k \in DOMAIN text : results[k] = PostgresResult(k, AnswerTo(k)) /\ AnswerTo(k).of = {k}
      BY <2>1, <2>2, <3>1, ResultIs, AnswersAre
    <3>3. \A k \in DOMAIN text : results[k].of = {k}
      <4> SUFFICES ASSUME NEW k \in DOMAIN text PROVE results[k].of = {k}
        OBVIOUS
      <4>1. PostgresResult(k, AnswerTo(k)).of = AnswerTo(k).of
        BY DEF PostgresResult, Result
      <4> QED BY <3>2, <4>1
    <3>4. of = [i \in DOMAIN text |-> {i}]
      BY <3>1, <3>3
    <3> QED BY <2>2, <3>4
  <2>3. CASE adapter = "mysql"
    <3>0. CASE Procedures
      BY <2>3, <3>0
    <3>1. CASE ~Procedures
      <4>1. Plain /\ Sent = DOMAIN text /\ answers = [i \in Sent |-> AnswerTo(i)]
        BY <2>3, <3>1, AllSent DEF Plain
      <4>2. results = [i \in DOMAIN answers |-> MysqlResult(i, answers[i])]
        BY <2>1, <2>3, MysqlResultsAre DEF Parsed, AnswersInOrder
      <4>3. DOMAIN results = DOMAIN text
            /\ \A k \in DOMAIN text : results[k] = MysqlResult(k, AnswerTo(k))
        BY <4>1, <4>2
      <4>4. \A k \in DOMAIN text : results[k].of = {k}
        BY <2>1, <4>1, <4>3, AnswersAre DEF MysqlResult, Result
      <4>5. of = [i \in DOMAIN text |-> {i}]
        BY <4>3, <4>4
      <4> QED BY <2>3, <4>5
    <3> QED BY <3>0, <3>1
  <2>4. CASE adapter = "sqlite"
    <3>1. DOMAIN results = DOMAIN commands /\ Sent = DOMAIN commands /\ Sent \subseteq DOMAIN text
      BY <2>1, <2>4, AllSent, CommandsAre DEF Parsed, Plain
    <3>2. \A k \in DOMAIN commands : results[k] = SqliteResult(k, AnswerTo(k)) /\ AnswerTo(k).of = {k}
      BY <2>1, <2>4, <3>1, ResultIs, AnswersAre
    <3>3. \A k \in DOMAIN commands : results[k].of = {k}
      <4> SUFFICES ASSUME NEW k \in DOMAIN commands PROVE results[k].of = {k}
        OBVIOUS
      <4>1. SqliteResult(k, AnswerTo(k)).of = AnswerTo(k).of
        BY DEF SqliteResult, Result
      <4> QED BY <3>2, <4>1
    <3>4. of = [i \in DOMAIN commands |-> {i}]
      BY <3>1, <3>3
    <3> QED BY <2>4, <3>4
  <2>5. CASE adapter = "cassandra"
    <3>1. DOMAIN text = {1} /\ Sent = DOMAIN text
      BY <2>1, <2>5, LenProperties DEF Given, Accepted, Sent
    <3>2. answers[1] = AnswerTo(1) /\ AnswerTo(1).of = {1}
      BY <2>1, <2>5, <3>1, AllSent, AnswersAre DEF Plain
    <3>3. results = <<CassandraResult(1, AnswerTo(1))>> /\ CassandraResult(1, AnswerTo(1)).of = {1}
      BY <2>1, <2>5, <3>2 DEF Parsed, CassandraResult, Result
    <3>4. of = [i \in DOMAIN text |-> {i}]
      BY <3>1, <3>3
    <3> QED BY <2>5, <3>4
  <2>6. CASE adapter = "sqlserver"
    <3>1. results = [i \in DOMAIN SetsOrEmpty |-> SqlServerResult(i, SetsOrEmpty[i])]
      BY <2>1, <2>6 DEF Parsed, SqlServerResults
    <3>2. of = [i \in DOMAIN SetsOrEmpty |-> SetsOrEmpty[i].of]
      BY <3>1 DEF SqlServerResult, Result
    <3>3. Sent = DOMAIN text /\ 1..(next - 1) = Sent
      BY <2>6, AllSent
    <3>4. \A i \in DOMAIN text : AnswerTo(i).of = {i} /\ AnswerTo(i).hasRows = ReturnsRows(text[i])
      BY <2>1, <2>6, <3>3, AnswersAre
    <3>5. /\ \A k \in DOMAIN recordSets : \E i \in DOMAIN text :
                recordSets[k].of = {i} /\ ReturnsRows(text[i])
          /\ \A i \in DOMAIN text : ReturnsRows(text[i]) =>
                \E k \in DOMAIN recordSets : recordSets[k].of = {i}
          /\ \A j, k \in DOMAIN recordSets : j < k =>
                \A x \in recordSets[j].of, y \in recordSets[k].of : x < y
      <4>1. ASSUME NEW k \in DOMAIN recordSets
            PROVE  \E i \in DOMAIN text : recordSets[k].of = {i} /\ ReturnsRows(text[i])
        <5>1. PICK i \in 1..(next - 1) : recordSets[k] = AnswerTo(i) /\ AnswerTo(i).hasRows
          BY <2>1 DEF SetsInOrder
        <5>2. i \in DOMAIN text
          BY <3>3
        <5> QED BY <3>4, <5>1, <5>2
      <4>2. ASSUME NEW i \in DOMAIN text, ReturnsRows(text[i])
            PROVE  \E k \in DOMAIN recordSets : recordSets[k].of = {i}
        <5>1. i \in 1..(next - 1) /\ AnswerTo(i).hasRows
          BY <3>3, <3>4, <4>2
        <5>2. PICK k \in DOMAIN recordSets : recordSets[k] = AnswerTo(i)
          BY <2>1, <5>1 DEF SetsInOrder
        <5> QED BY <3>4, <5>2
      <4>3. \A j, k \in DOMAIN recordSets : j < k =>
                \A x \in recordSets[j].of, y \in recordSets[k].of : x < y
        BY <2>1 DEF SetsInOrder
      <4> QED BY <4>1, <4>2, <4>3
    <3>6. CASE SetsOrEmpty = recordSets
      <4>1. of = [i \in DOMAIN recordSets |-> recordSets[i].of]
        BY <3>2, <3>6
      <4>2. ToSet(of) = {{i} : i \in {i \in DOMAIN text : ReturnsRows(text[i])}}
        <5> DEFINE Of == {{i} : i \in {i \in DOMAIN text : ReturnsRows(text[i])}}
        <5>1. ASSUME NEW k \in DOMAIN of PROVE of[k] \in Of
          <6>1. PICK i \in DOMAIN text : recordSets[k].of = {i} /\ ReturnsRows(text[i])
            BY <3>5, <4>1
          <6> QED BY <4>1, <6>1
        <5>2. ASSUME NEW i \in DOMAIN text, ReturnsRows(text[i])
              PROVE  \E k \in DOMAIN of : of[k] = {i}
          <6>1. PICK k \in DOMAIN recordSets : recordSets[k].of = {i}
            BY <3>5, <5>2
          <6> QED BY <4>1, <6>1
        <5> HIDE DEF of
        <5>3. ToSet(of) = {of[k] : k \in DOMAIN of}
          BY DEF ToSet
        <5> QED BY <5>1, <5>2, <5>3
      <4>3. \A j, k \in DOMAIN of : j < k => \A x \in of[j], y \in of[k] : x < y
        BY <3>5, <4>1
      <4> QED BY <2>6, <4>2, <4>3
    <3>7. CASE SetsOrEmpty # recordSets
      <4>1. recordSets = <<>>
            /\ SetsOrEmpty = <<[of |-> DOMAIN text, hasRows |-> FALSE, n |-> 0]>>
        BY <3>7 DEF SetsOrEmpty
      <4>2. of = <<DOMAIN text>>
        BY <3>2, <4>1
      <4>3. \A s \in ToSet(text) : ~ReturnsRows(s)
        BY <3>5, <4>1 DEF ToSet
      <4> QED BY <2>6, <4>2, <4>3
    <3> QED BY <3>6, <3>7
  <2> QED BY <2>1, <2>2, <2>3, <2>4, <2>5, <2>6 DEF Given, Adapters
<1> QED BY <1>1, ResultsInvariant, PTL

\* Where each statement has its answer, the result of a statement is made of it, with
\* its own command or with the adapter's guess.
LEMMA OwnResult ==
    ASSUME ResultsInv, outcome = "resolved", Plain, adapter # "sqlserver",
           NEW k \in DOMAIN results
    PROVE  /\ k \in Nat /\ k \in DOMAIN text /\ k \in Sent /\ Given
           /\ results[k].of = {k}
           /\ \/ adapter = "postgresql" /\ results[k] = PostgresResult(k, AnswerTo(k))
              \/ adapter = "mysql" /\ results[k] = MysqlResult(k, AnswerTo(k))
              \/ /\ adapter = "sqlite" /\ results[k] = SqliteResult(k, AnswerTo(k))
                 /\ k \in DOMAIN commands
              \/ adapter = "cassandra" /\ results[k] = CassandraResult(k, AnswerTo(k))
<1>1. Given /\ adapter \in Adapters
  BY DEF ResultsInv, Given
<1>2. /\ k \in Sent
      /\ \/ adapter = "postgresql" /\ results[k] = PostgresResult(k, AnswerTo(k))
         \/ adapter = "mysql" /\ results[k] = MysqlResult(k, AnswerTo(k))
         \/ /\ adapter = "sqlite" /\ results[k] = SqliteResult(k, AnswerTo(k))
            /\ k \in DOMAIN commands
         \/ adapter = "cassandra" /\ results[k] = CassandraResult(k, AnswerTo(k))
  <2>1. answers = [i \in Sent |-> AnswerTo(i)]
    BY AllSent
  <2>2. k \in DOMAIN answers => k \in Sent /\ answers[k] = AnswerTo(k)
    BY <2>1
  <2>3. adapter # "sqlite" => Sent = DOMAIN text
    BY DEF Sent
  <2>4. adapter = "sqlite" => Sent = DOMAIN commands
    BY DEF Sent
  <2> QED BY <2>2, <2>3, <2>4, ResultIs
<1>3. k \in DOMAIN text /\ k \in Nat
  <2>1. k \in DOMAIN text
    BY <1>1, <1>2, CommandsAre
  <2> QED BY <2>1, LenProperties DEF ResultsInv, Given
<1>4. AnswerTo(k).of = {k}
  BY <1>1, <1>2, <1>3, AnswersAre
<1>5. /\ PostgresResult(k, AnswerTo(k)).of = AnswerTo(k).of
      /\ MysqlResult(k, AnswerTo(k)).of = AnswerTo(k).of
      /\ SqliteResult(k, AnswerTo(k)).of = AnswerTo(k).of
      /\ CassandraResult(k, AnswerTo(k)).of = AnswerTo(k).of
  BY DEF PostgresResult, MysqlResult, SqliteResult, CassandraResult, Result
<1> QED BY <1>1, <1>2, <1>3, <1>4, <1>5

\* The identifier's word is the statement's own; without it the guess stands.
LEMMA OwnCommand ==
    ASSUME ResultsInv, NEW i \in DOMAIN text, i \in Nat, NEW guess
    PROVE  \/ /\ i \in DOMAIN commands
              /\ CommandOr(i, guess) = TypeOf(text[i])
              /\ Strict => TypeOf(text[i]) \in Known
           \/ i \notin DOMAIN commands /\ CommandOr(i, guess) = guess
<1>1. Given
  BY DEF ResultsInv
<1>2. CASE i \in DOMAIN commands
  <2>1. /\ commands[i] = TypeOf(text[i])
        /\ Strict => TypeOf(text[i]) \in Known
    BY <1>1, <1>2, CommandsAre
  <2>2. TypeOf(text[i]) # "undefined"
    BY TypeIs DEF Known
  <2> QED BY <1>2, <2>1, <2>2 DEF CommandOr, CommandAt, Undefined
<1>3. CASE i \notin DOMAIN commands
  BY <1>3 DEF CommandOr, CommandAt
<1> QED BY <1>2, <1>3

\* No result has the command of another statement, except where the adapters mix them
\* up: SQL Server's of texts that return rows only in part, MySQL's with procedures.
THEOREM OwnCommandsOnly == Spec => []OwnCommands
<1>1. ResultsInv => OwnCommands
  <2> SUFFICES ASSUME ResultsInv, NEW k \in DOMAIN results, Plain,
                      ~(adapter = "sqlserver"
                          /\ \E s, t \in ToSet(text) : ReturnsRows(s) /\ ~ReturnsRows(t))
               PROVE  CommandIsOwn(results[k])
    BY DEF OwnCommands, ToSet, Plain
  <2>0. /\ outcome = "resolved" /\ results = Parsed /\ next \notin Sent
        /\ Given /\ SetsInOrder /\ text \in Seq(Statement)
    BY DEF ResultsInv, Given
  <2>1. CASE adapter # "sqlserver"
    <3>1. k \in Nat /\ k \in DOMAIN text /\ k \in Sent /\ results[k].of = {k}
      BY <2>0, <2>1, OwnResult
    <3> SUFFICES /\ results[k].command = "INSERT" => TypeOf(text[k]) = "INSERT"
                 /\ results[k].command = "SELECT" =>
                      \/ text[k].kind \in {"SELECT", "SHOW", "CALL"}
                      \/ text[k].kind = "CONDITIONAL" /\ commands = <<>>
      BY <3>1 DEF CommandIsOwn
    <3>type. TypeOf(text[k]) = "SELECT" <=> text[k].kind = "SELECT"
      BY TypeIs
    <3>insert. TypeOf(text[k]) = "INSERT" <=> text[k].kind \in {"INSERT", "CONDITIONAL"}
      BY TypeIs
    <3>plain. adapter # "cassandra" => text[k].kind # "CONDITIONAL"
      BY <2>0, <3>1, NoneConditional
    <3>2. CASE adapter = "postgresql"
      <4>1. results[k] = PostgresResult(k, AnswerTo(k))
        BY <2>0, <3>2, OwnResult
      <4>2. results[k].command = CommandOr(k, text[k].kind)
        BY <3>1, <3>2, <4>1, StatementOf DEF Result
      <4> QED BY <3>1, <3>2, <3>type, <3>insert, <3>plain, <4>2, OwnCommand
    <3>3. CASE adapter = "mysql"
      <4> DEFINE guess == IF AnswerTo(k).hasRows THEN "SELECT" ELSE "UNKNOWN"
      <4>1. results[k].command = CommandOr(k, guess)
        BY <2>0, <3>3, OwnResult DEF MysqlResult, Result
      <4>2. guess = "SELECT" => text[k].kind \in {"SELECT", "SHOW", "CALL"}
        BY <2>0, <3>1, <3>3, <3>plain, AnswersAre DEF ReturnsRows
      <4>3. guess # "INSERT"
        OBVIOUS
      <4> HIDE DEF guess
      <4> QED BY <3>1, <3>type, <4>1, <4>2, <4>3, OwnCommand
    <3>4. CASE adapter = "sqlite"
      <4> DEFINE guess == IF AnswerTo(k).hasRows THEN "SELECT" ELSE "false"
      <4>1. results[k].command = CommandOr(k, guess) /\ k \in DOMAIN commands
        BY <2>0, <3>4, OwnResult DEF SqliteResult, Result
      <4> HIDE DEF guess
      <4> QED BY <3>1, <3>type, <4>1, OwnCommand
    <3>5. CASE adapter = "cassandra"
      <4> DEFINE first == IF AnswerTo(k).hasRows THEN "SELECT" ELSE "false"
                 guess == IF CommandOr(k, first) = "SELECT" THEN "SELECT" ELSE "false"
      <4>1. results[k].command = CommandOr(k, guess)
        BY <2>0, <3>5, OwnResult DEF CassandraResult, Result
      <4>2. first = "SELECT" => text[k].kind \in {"SELECT", "CONDITIONAL", "SHOW"}
        BY <2>0, <3>1, <3>5, AnswersAre DEF ReturnsRows
      <4> HIDE DEF first
      <4>3. guess # "INSERT" /\ (guess = "SELECT" => CommandOr(k, first) = "SELECT")
        OBVIOUS
      <4> HIDE DEF guess
      <4>4. CASE k \in DOMAIN commands
        BY <3>1, <3>type, <4>1, <4>3, <4>4, OwnCommand
      <4>5. CASE k \notin DOMAIN commands
        <5>1. commands = <<>>
          <6>1. commands = <<>> \/ DOMAIN commands = DOMAIN text
            BY <2>0 DEF Given, Identified, Types
          <6> QED BY <3>1, <4>5, <6>1
        <5>2. \A g : CommandOr(k, g) = g
          BY <4>5 DEF CommandOr, CommandAt
        <5>3. results[k].command = "SELECT" => first = "SELECT"
          BY <4>1, <4>3, <5>2
        <5>4. results[k].command # "INSERT"
          BY <4>1, <4>3, <5>2
        <5> QED BY <4>2, <5>1, <5>3, <5>4
      <4> QED BY <4>4, <4>5
    <3> QED BY <2>0, <2>1, <3>2, <3>3, <3>4, <3>5 DEF Given, Adapters
  <2>2. CASE adapter = "sqlserver"
    <3> DEFINE a == SetsOrEmpty[k]
               guess == IF a.n > 0 \/ affected = 0 THEN "SELECT" ELSE "false"
    <3>1. k \in DOMAIN SetsOrEmpty /\ results[k] = SqlServerResult(k, a)
      BY <2>0, <2>2, ResultIs
    <3>2. results[k].of = a.of /\ results[k].command = CommandOr(k, guess)
      BY <3>1 DEF SqlServerResult, Result
    <3>3. Sent = DOMAIN text /\ 1..(next - 1) = Sent
      BY <2>0, <2>2, AllSent
    <3>4. CASE SetsOrEmpty = recordSets
      <4>1. PICK i \in DOMAIN text : ReturnsRows(text[i])
        <5>1. PICK i \in 1..(next - 1) : AnswerTo(i).hasRows
          BY <2>0, <3>1, <3>4 DEF SetsInOrder
        <5> QED BY <2>0, <2>2, <3>3, <5>1, AnswersAre
      <4>2. \A j \in DOMAIN text : ReturnsRows(text[j])
        BY <2>2, <4>1 DEF ToSet
      <4>3. recordSets = [j \in 1..(next - 1) |-> AnswerTo(j)]
        <5>1. \A j \in 1..(next - 1) : AnswerTo(j).hasRows
          BY <2>0, <2>2, <3>3, <4>2, AnswersAre
        <5> QED BY <2>0, <5>1 DEF SetsInOrder
      <4>4. k \in DOMAIN text /\ a = AnswerTo(k)
        BY <3>1, <3>3, <3>4, <4>3
      <4>5. k \in Nat /\ a.of = {k} /\ text[k].kind \in {"SELECT", "SHOW"}
        <5>1. k \in Nat
          BY <2>0, <4>4, LenProperties
        <5>2. text[k].kind # "CONDITIONAL"
          BY <2>0, <2>2, <4>4, NoneConditional
        <5> QED BY <2>0, <2>2, <3>3, <4>2, <4>4, <5>1, <5>2, AnswersAre DEF ReturnsRows
      <4>6. guess \in {"SELECT", "false"}
        OBVIOUS
      <4> HIDE DEF a, guess
      <4>7. TypeOf(text[k]) \in Known \cup {"UNKNOWN"} /\ TypeOf(text[k]) # "INSERT"
        BY <4>5, TypeIs
      <4> QED BY <3>2, <4>4, <4>5, <4>6, <4>7, OwnCommand DEF CommandIsOwn
    <3>5. CASE SetsOrEmpty # recordSets
      <4>1. /\ affected > 0 /\ affected \in Nat
            /\ SetsOrEmpty = <<[of |-> DOMAIN text, hasRows |-> FALSE, n |-> 0]>>
        BY <2>0, <3>5 DEF SetsOrEmpty, SetsInOrder
      <4>2. k = 1 /\ a.of = DOMAIN text /\ a.n = 0
        BY <3>1, <4>1
      <4>3. guess = "false"
        BY <4>1, <4>2
      <4> HIDE DEF a, guess
      <4>4. CASE 1 \in DOMAIN commands
        <5>1. 1 \in DOMAIN text
          BY <2>0, <4>4, CommandsAre
        <5>2. TypeOf(text[1]) = "SELECT" <=> text[1].kind = "SELECT"
          BY TypeIs
        <5> QED BY <3>2, <4>2, <4>4, <5>1, <5>2, OwnCommand DEF CommandIsOwn
      <4>5. CASE 1 \notin DOMAIN commands
        <5>1. CommandOr(1, guess) = "false"
          BY <4>3, <4>5 DEF CommandOr, CommandAt
        <5> QED BY <3>2, <4>2, <5>1 DEF CommandIsOwn
      <4> QED BY <4>4, <4>5
    <3> QED BY <3>4, <3>5
  <2> QED BY <2>1, <2>2
<1> QED BY <1>1, ResultsInvariant, PTL

\* Where there are neither SQL Server's sums nor procedures, the rows of a SELECT and
\* the rows an INSERT has affected are those of the statement itself.
THEOREM OwnCounts == Spec => []CountsAreTrue
<1>1. ResultsInv => CountsAreTrue
  <2> SUFFICES ASSUME ResultsInv, adapter # "sqlserver", ~Procedures,
                      NEW k \in DOMAIN results, NEW i \in results[k].of
               PROVE  CountIsTrue(results[k], text[i])
    BY DEF CountsAreTrue, ToSet
  <2>0. outcome = "resolved" /\ Plain
    BY DEF ResultsInv, Plain
  <2>1. k \in Nat /\ k \in DOMAIN text /\ k \in Sent /\ i = k /\ Given
    BY <2>0, OwnResult
  <2>plain. adapter # "cassandra" => text[k].kind # "CONDITIONAL"
    BY <2>1, NoneConditional
  <2> DEFINE kind == text[k].kind
             n    == text[k].n
             a    == AnswerTo(k)
  <2>2. CASE adapter = "postgresql"
    <3>1. results[k] = PostgresResult(k, a) /\ a.n = n
      BY <2>0, <2>1, <2>2, OwnResult, AnswersAre
    <3>2. /\ results[k].rowCount = IF kind = "SELECT" THEN {n} ELSE {}
          /\ results[k].affectedRows = IF kind \notin {"SELECT", "SHOW", "CALL"} THEN {n} ELSE {}
      <4>1. PostgresResult(k, a) =
              Result(a, CommandOr(k, kind), IF kind = "SELECT" THEN {n} ELSE {},
                     IF kind \notin {"SELECT", "SHOW", "CALL"} THEN {a.n} ELSE {})
        BY <2>1, <2>2, StatementOf
      <4> HIDE DEF a, kind, n
      <4> QED BY <3>1, <4>1 DEF Result
    <3> QED BY <2>1, <2>2, <2>plain, <3>2 DEF CountIsTrue
  <2>3. CASE adapter = "mysql"
    <3>1. a.n = n /\ a.hasRows = (ReturnsRows(text[k]) \/ kind = "CALL")
      BY <2>1, <2>3, AnswersAre
    <3>2. /\ results[k].rowCount = IF a.hasRows THEN {a.n} ELSE {}
          /\ results[k].affectedRows = IF a.hasRows THEN {} ELSE {a.n}
      <4>1. results[k] = MysqlResult(k, a)
        BY <2>0, <2>3, OwnResult
      <4> HIDE DEF a
      <4> QED BY <4>1 DEF MysqlResult, Result
    <3> QED BY <2>1, <2>3, <2>plain, <3>1, <3>2 DEF ReturnsRows, CountIsTrue
  <2>4. CASE adapter = "sqlite"
    <3>1. /\ a.hasRows = (kind # "INSERT")
          /\ a.n = IF kind = "INSERT" \/ ReturnsRows(text[k]) THEN n ELSE 0
      BY <2>1, <2>4, AnswersAre
    <3>2. /\ results[k].rowCount = IF a.hasRows THEN {a.n} ELSE {}
          /\ results[k].affectedRows = IF a.hasRows THEN {0} ELSE {a.n}
      <4>1. results[k] = SqliteResult(k, a)
        BY <2>0, <2>4, OwnResult
      <4> HIDE DEF a
      <4> QED BY <4>1 DEF SqliteResult, Result
    <3> QED BY <2>1, <2>4, <2>plain, <3>1, <3>2 DEF ReturnsRows, CountIsTrue
  <2>5. CASE adapter = "cassandra"
    <3> DEFINE guess    == IF a.hasRows THEN "SELECT" ELSE "false"
               isSelect == CommandOr(k, guess) = "SELECT"
    <3>1. a.n = n /\ a.hasRows = ReturnsRows(text[k])
      BY <2>1, <2>5, AnswersAre
    <3>2. /\ results[k].rowCount = IF isSelect THEN {n} ELSE {}
          /\ results[k].affectedRows = IF ~isSelect /\ a.hasRows THEN {n} ELSE {}
      <4>1. results[k] = CassandraResult(k, a)
        BY <2>0, <2>5, OwnResult
      <4> HIDE DEF a, n
      <4> QED BY <3>1, <4>1 DEF CassandraResult, Result
    <3>3. /\ kind \in {"SELECT", "CONDITIONAL"} => a.hasRows /\ guess = "SELECT"
          /\ kind = "INSERT" => ~a.hasRows /\ guess = "false"
      BY <3>1 DEF ReturnsRows
    <3> HIDE DEF guess
    <3>4. /\ kind = "SELECT" => isSelect
          /\ kind = "INSERT" => ~isSelect
          /\ kind = "CONDITIONAL" => (isSelect <=> commands = <<>>)
      <4>1. /\ TypeOf(text[k]) = "SELECT" <=> kind = "SELECT"
            /\ TypeOf(text[k]) = "INSERT" <=> kind \in {"INSERT", "CONDITIONAL"}
        BY TypeIs
      <4>2. commands = <<>> \/ DOMAIN commands = DOMAIN text
        BY <2>1 DEF Given, Identified, Types
      <4>3. k \in DOMAIN commands <=> commands # <<>>
        BY <2>1, <4>2
      <4> HIDE DEF kind
      <4> QED BY <2>1, <3>3, <4>1, <4>3, OwnCommand
    <3> HIDE DEF isSelect
    <3>5. results[k].rowCount \subseteq {0, n}
      BY <3>2
    <3> QED BY <2>1, <2>5, <3>2, <3>3, <3>4, <3>5 DEF CountIsTrue
  <2> QED BY <2>0, <2>1, <2>2, <2>3, <2>4, <2>5 DEF Given, Adapters
<1> QED BY <1>1, ResultsInvariant, PTL
=============================================================================
