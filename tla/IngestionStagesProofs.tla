----------------------- MODULE IngestionStagesProofs -----------------------
(***************************************************************************)
(* Proofs about the parts of an ingestion.  For every graph and every      *)
(* bound the batches of Describe partition the tables in order, keep       *)
(* within their bounds and are no smaller than those require, and each     *)
(* description comes from the answer for the table's own batch.  Whatever  *)
(* a database holds and however it changes, Metadata accepts closed        *)
(* schemas only, and shows the owner every key.  Whatever the keys, the    *)
(* sets of SpanningForest's union-find are the trees of the chosen edges,  *)
(* and the walk orders the tables along these.                             *)
(***************************************************************************)
EXTENDS IngestionStages, FiniteSetTheorems, WellFoundedInduction, TLAPS

-----------------------------------------------------------------------------
(* Describe                                                                *)

\* Where the batch being filled begins and what it has counted.
Filling ==
  /\ first = Start(Len(batches) + 1)
  /\ first <= taken + 1
  /\ taken + 1 - first <= batch_size
  /\ current_columns <= max_batch_columns \/ first = taken
  /\ first = taken + 1 => taken = 0 /\ current_columns = 0

\* What the answers so far have described.
Describing ==
  /\ phase = "chunking" => descriptions = [t \in Table |-> NoAnswer]
  /\ phase # "chunking" =>
       \A t \in Table : t < Start(asked) => descriptions[t] # NoAnswer
  /\ phase = "done" => asked = Len(batches) + 1

IInv ==
  /\ TypeOK /\ EachTableOnce /\ BatchesAreBounded /\ DescribedInOwnBatch
  /\ phase = "chunking" => Filling
  /\ Describing

LEMMA Appending ==
  ASSUME NEW s \in Seq(Batch), NEW b \in Batch
  PROVE  /\ Append(s, b) \in Seq(Batch) /\ Len(Append(s, b)) = Len(s) + 1
         /\ \A i \in 1 .. Len(s) : Append(s, b)[i] = s[i]
         /\ Append(s, b)[Len(s) + 1] = b
OBVIOUS

LEMMA TypesInit == Init => TypeOK
<1> SUFFICES ASSUME Init PROVE TypeOK
  OBVIOUS
<1>1. PICK n \in 0 .. MaxTables : nodes \in [1 .. n -> Width]
  BY DEF Init
<1>a. MaxTables \in Nat /\ Width \subseteq Nat
  BY BoundAssumption
<1>2. n \in Nat /\ nodes \in [1 .. n -> Nat]
  <2>1. n \in Nat
    BY <1>a
  <2>2. \A i \in 1 .. n : nodes[i] \in Nat
    BY <1>a, <1>1
  <2>3. QED
    BY <1>1, <2>1, <2>2
<1>3. nodes \in Seq(Nat) /\ Len(nodes) = n
  BY <1>2
<1>4. QED
  BY <1>3, BoundAssumption DEF Init, TypeOK, Table

LEMMA Initially == Init => IInv
<1> SUFFICES ASSUME Init PROVE IInv
  OBVIOUS
<1>1. TypeOK
  BY TypesInit
<1>2. QED
  BY <1>1, BoundAssumption
     DEF Init, IInv, EachTableOnce, BatchesAreBounded, DescribedInOwnBatch,
         Filling, Describing, Start, TypeOK, Table

\* A batch is closed: what that does to the batches there are.
LEMMA Closing ==
  ASSUME IInv, phase = "chunking", batches' = Append(batches, Current),
         first <= taken
  PROVE  /\ batches' \in Seq(Batch) /\ Len(batches') = Len(batches) + 1
         /\ \A b \in DOMAIN batches' :
              batches'[b].first = Start(b)' /\ batches'[b].first <= batches'[b].last
         /\ Start(Len(batches) + 1)' = taken + 1
         /\ BatchesAreBounded'
<1>1. batches \in Seq(Batch) /\ Current \in Batch /\ Len(batches) \in Nat
  BY DEF IInv, TypeOK, Batch, Current
<1>2. /\ batches' \in Seq(Batch) /\ Len(batches') = Len(batches) + 1
      /\ \A i \in 1 .. Len(batches) : batches'[i] = batches[i]
      /\ batches'[Len(batches) + 1] = Current
  BY <1>1, Appending
<1>3. Filling /\ EachTableOnce /\ BatchesAreBounded
  BY DEF IInv
<1>4. \A b \in DOMAIN batches' : b \in 1 .. Len(batches) \/ b = Len(batches) + 1
  BY <1>1, <1>2
<1>5. \A b \in 1 .. Len(batches) + 1 : Start(b)' = Start(b)
  BY <1>1, <1>2 DEF Start
<1>6. Start(Len(batches) + 1)' = taken + 1
  BY <1>1, <1>2 DEF Start, Current
<1>7. \A b \in DOMAIN batches' :
        batches'[b].first = Start(b)' /\ batches'[b].first <= batches'[b].last
  <2>1. SUFFICES ASSUME NEW b \in DOMAIN batches'
                 PROVE  /\ batches'[b].first = Start(b)'
                        /\ batches'[b].first <= batches'[b].last
    OBVIOUS
  <2>2. CASE b \in 1 .. Len(batches)
    BY <1>1, <1>2, <1>3, <1>5, <2>2 DEF EachTableOnce
  <2>3. CASE b = Len(batches) + 1
    BY <1>1, <1>2, <1>3, <1>5, <2>3 DEF Filling, Current
  <2>4. QED
    BY <1>4, <2>2, <2>3
<1>8. BatchesAreBounded'
  <2>1. SUFFICES ASSUME NEW b \in DOMAIN batches'
                 PROVE  /\ batches'[b].last + 1 - batches'[b].first <= batch_size
                        /\ \/ batches'[b].columns <= max_batch_columns
                           \/ batches'[b].first = batches'[b].last
    BY DEF BatchesAreBounded
  <2>2. CASE b \in 1 .. Len(batches)
    BY <1>1, <1>2, <1>3, <2>2 DEF BatchesAreBounded
  <2>3. CASE b = Len(batches) + 1
    BY <1>1, <1>2, <1>3, <2>3 DEF Filling, Current
  <2>4. QED
    BY <1>4, <2>2, <2>3
<1>9. QED
  BY <1>2, <1>6, <1>7, <1>8

\* Ranges of batches in order: a table of one batch is in no earlier one.
LEMMA Ahead ==
  ASSUME IInv, phase # "chunking", asked <= Len(batches), NEW t \in Asked
  PROVE  /\ t >= Start(asked) /\ t < Start(asked + 1)
         /\ asked \in DOMAIN batches /\ t \in Nat
<1>1. asked \in DOMAIN batches /\ asked \in Nat \ {0} /\ batches[asked] \in Batch
  BY DEF IInv, TypeOK
<1>2. batches[asked].first = Start(asked)
  BY <1>1 DEF IInv, EachTableOnce
<1>3. QED
  BY <1>1, <1>2 DEF Asked, Batch, Start

LEMMA Inductive == IInv /\ [Next]_vars => IInv'
<1> SUFFICES ASSUME IInv, [Next]_vars PROVE IInv'
  OBVIOUS
<1> USE BoundAssumption
<1>0. /\ TypeOK /\ EachTableOnce /\ BatchesAreBounded /\ DescribedInOwnBatch
      /\ Describing /\ (phase = "chunking" => Filling)
      /\ Len(nodes) \in Nat /\ Len(batches) \in Nat
  BY DEF IInv, TypeOK
<1>1. CASE AddToBatch
  <2>1. nodes[taken + 1] \in Nat /\ taken + 1 \in 0 .. Len(nodes)
    BY <1>0, <1>1 DEF AddToBatch, TypeOK
  <2>2. TypeOK'
    BY <1>0, <1>1, <2>1 DEF AddToBatch, TypeOK, Table
  <2>3. EachTableOnce' /\ BatchesAreBounded'
    BY <1>0, <1>1 DEF AddToBatch, EachTableOnce, BatchesAreBounded, Start
  <2>4. Filling'
    <3>1. /\ taken' = taken + 1 /\ first' = first /\ batches' = batches
          /\ current_columns' = current_columns + nodes[taken + 1]
          /\ ~Full(nodes[taken + 1])
      BY <1>1 DEF AddToBatch
    <3>2. taken \in Nat /\ first \in Nat /\ current_columns \in Nat
      BY <1>0 DEF TypeOK
    <3>3. first = Start(Len(batches) + 1) /\ first <= taken + 1
      BY <1>0, <1>1 DEF AddToBatch, Filling
    <3> DEFINE c == nodes[taken + 1]
    <3>4. c \in Nat
      BY <2>1
    <3>5. /\ taken + 1 - first < batch_size
          /\ taken >= first => current_columns + c <= max_batch_columns
      BY <3>1, <3>2, <3>4 DEF Full
    <3>6. current_columns' = current_columns + c
      BY <3>1
    <3> HIDE DEF c
    <3>7. /\ taken' + 1 - first <= batch_size
          /\ current_columns' <= max_batch_columns \/ first = taken'
          /\ first <= taken' + 1 /\ first # taken' + 1
      BY <3>1, <3>2, <3>3, <3>4, <3>5, <3>6
    <3>8. Start(Len(batches) + 1)' = Start(Len(batches) + 1)
      BY <3>1 DEF Start
    <3>9. QED
      BY <3>1, <3>3, <3>7, <3>8 DEF Filling
  <2>5. Describing' /\ DescribedInOwnBatch'
    BY <1>0, <1>1 DEF AddToBatch, Describing, DescribedInOwnBatch, Table
  <2>6. QED
    BY <2>2, <2>3, <2>4, <2>5 DEF IInv
<1>2. CASE CloseBatch
  <2>1. nodes[taken + 1] \in Nat /\ taken + 1 \in 0 .. Len(nodes)
    BY <1>0, <1>2 DEF CloseBatch, TypeOK
  <2>2. first <= taken
    BY <1>0, <1>2 DEF CloseBatch, Full, Filling, TypeOK
  <2>3. /\ batches' \in Seq(Batch) /\ Len(batches') = Len(batches) + 1
        /\ \A b \in DOMAIN batches' :
             batches'[b].first = Start(b)' /\ batches'[b].first <= batches'[b].last
        /\ Start(Len(batches) + 1)' = taken + 1
        /\ BatchesAreBounded'
    BY <1>2, <2>2, Closing DEF CloseBatch
  <2>4. TypeOK'
    BY <1>0, <1>2, <2>1, <2>3 DEF CloseBatch, TypeOK, Table
  <2>5. EachTableOnce'
    BY <1>2, <2>3 DEF CloseBatch, EachTableOnce
  <2>6. Filling'
    <3>2. first' = taken + 1 /\ taken' = taken + 1
      BY <1>2 DEF CloseBatch
    <3>3. QED
      BY <1>0, <2>3, <3>2 DEF Filling, TypeOK
  <2>7. Describing' /\ DescribedInOwnBatch'
    BY <1>0, <1>2 DEF CloseBatch, Describing, DescribedInOwnBatch, Table
  <2>8. QED
    BY <2>3, <2>4, <2>5, <2>6, <2>7 DEF IInv
<1>3. CASE LastBatch
  <2>1. phase = "chunking" /\ phase' = "asking" /\ asked' = 1
    BY <1>3 DEF LastBatch
  <2>2. /\ batches' \in Seq(Batch) /\ BatchesAreBounded'
        /\ EachTableOnce'
    <3>1. CASE taken >= first
      <4>1. batches' = Append(batches, Current)
        BY <1>3, <3>1 DEF LastBatch
      <4>2. first <= taken
        BY <1>0, <3>1 DEF TypeOK
      <4>3. /\ batches' \in Seq(Batch) /\ Len(batches') = Len(batches) + 1
            /\ \A b \in DOMAIN batches' :
                 batches'[b].first = Start(b)' /\ batches'[b].first <= batches'[b].last
            /\ Start(Len(batches) + 1)' = taken + 1
            /\ BatchesAreBounded'
        BY <2>1, <4>1, <4>2, Closing
      <4>4. taken = Len(nodes) /\ nodes' = nodes
        BY <1>3 DEF LastBatch
      <4>5. QED
        BY <4>3, <4>4 DEF EachTableOnce
    <3>2. CASE ~(taken >= first)
      <4>1. batches' = batches /\ taken = Len(nodes) /\ nodes' = nodes
        BY <1>3, <3>2 DEF LastBatch
      <4>2. first = taken + 1
        BY <1>0, <2>1, <3>2 DEF Filling, TypeOK
      <4>3. Start(Len(batches) + 1) = Len(nodes) + 1
        BY <1>0, <2>1, <4>1, <4>2 DEF Filling
      <4>4. QED
        BY <1>0, <4>1, <4>3 DEF TypeOK, EachTableOnce, BatchesAreBounded, Start
    <3>3. QED
      BY <3>1, <3>2
  <2>3. TypeOK'
    <3>1. asked' \in 1 .. Len(batches') + 1
      BY <2>1, <2>2
    <3>2. QED
      BY <1>0, <1>3, <2>2, <3>1 DEF LastBatch, TypeOK, Table
  <2>4. \A t \in Table : descriptions'[t] = NoAnswer /\ t >= 1
    BY <1>0, <1>3 DEF LastBatch, Describing, Table, TypeOK
  <2>5. Table' = Table
    BY <1>3 DEF LastBatch, Table
  <2>6. Describing'
    <3>1. Start(asked)' = 1
      BY <2>1 DEF Start
    <3>2. \A t \in Table' : ~(t < Start(asked)')
      BY <1>0, <2>4, <2>5, <3>1 DEF Table, TypeOK
    <3>3. QED
      BY <2>1, <3>2 DEF Describing
  <2>8. DescribedInOwnBatch'
    BY <2>1, <2>4, <2>5, Zenon DEF DescribedInOwnBatch
  <2>7. QED
    BY <2>1, <2>2, <2>3, <2>6, <2>8 DEF IInv
<1>4. ASSUME NEW entries \in SUBSET Table, Answered(entries) PROVE IInv'
  <2>1. /\ phase = "asking" /\ phase' = "asking" /\ asked <= Len(batches)
        /\ asked' = asked + 1 /\ UNCHANGED <<nodes, batches, first, taken, current_columns>>
        /\ asked \in Nat \ {0} /\ attempt' = 1
    BY <1>0, <1>4 DEF Answered, Asking, TypeOK
  <2>2. descriptions' = [t \in Table |->
          IF t \in Asked THEN (IF t \in entries THEN asked ELSE 0)
          ELSE descriptions[t]]
    BY <1>4 DEF Answered
  <2>3. TypeOK'
    <3>1. descriptions' \in [Table' -> Nat \cup {NoAnswer}]
      BY <1>0, <2>1, <2>2 DEF TypeOK, Table
    <3>2. QED
      BY <1>0, <2>1, <3>1 DEF TypeOK
  <2>4. EachTableOnce' /\ BatchesAreBounded'
    BY <1>0, <2>1 DEF EachTableOnce, BatchesAreBounded, Start
  <2>5. Describing'
    <3>1. SUFFICES ASSUME NEW t \in Table, t < Start(asked + 1)
                   PROVE  descriptions'[t] # NoAnswer
      BY <2>1 DEF Describing, Start, Table
    <3>2. CASE t \in Asked
      BY <2>1, <2>2, <3>2
    <3>3. CASE t \notin Asked
      <4>1. batches[asked].first = Start(asked) /\ batches[asked] \in Batch
        BY <1>0, <2>1 DEF EachTableOnce, TypeOK
      <4>2. t \in Nat
        BY <1>0 DEF Table, TypeOK
      <4>5. Start(asked + 1) = batches[asked].last + 1 /\ batches[asked].last \in Nat
        BY <2>1, <4>1 DEF Start, Batch
      <4>6. t < batches[asked].first \/ t > batches[asked].last
        BY <3>3, <4>1, <4>2 DEF Asked, Batch
      <4>3. t < Start(asked)
        BY <3>1, <4>1, <4>2, <4>5, <4>6
      <4>4. QED
        BY <1>0, <2>1, <2>2, <3>3, <4>3 DEF Describing
    <3>4. QED
      BY <3>2, <3>3
  <2>6. DescribedInOwnBatch'
    <3>1. SUFFICES ASSUME NEW t \in Table, descriptions'[t] \notin {NoAnswer, 0}
                   PROVE  /\ descriptions'[t] \in DOMAIN batches
                          /\ t \in batches[descriptions'[t]].first ..
                                   batches[descriptions'[t]].last
      BY <2>1 DEF DescribedInOwnBatch, Table
    <3>2. CASE t \in Asked
      <4>1. descriptions'[t] = asked
        BY <2>2, <3>1, <3>2
      <4>2. QED
        BY <1>0, <2>1, <3>2, <4>1 DEF Asked, TypeOK
    <3>3. CASE t \notin Asked
      BY <1>0, <2>2, <3>1, <3>3 DEF DescribedInOwnBatch
    <3>4. QED
      BY <3>2, <3>3
  <2>7. QED
    BY <2>1, <2>3, <2>4, <2>5, <2>6 DEF IInv
<1>5. CASE AskAgain
  BY <1>0, <1>5 DEF AskAgain, Asking, IInv, TypeOK, EachTableOnce, Start,
     BatchesAreBounded, DescribedInOwnBatch, Describing, Table
<1>6. CASE GiveUp
  BY <1>0, <1>6 DEF GiveUp, Asking, IInv, TypeOK, EachTableOnce, Start,
     BatchesAreBounded, DescribedInOwnBatch, Describing, Table
<1>7. CASE Return
  <2>1. /\ phase = "asking" /\ phase' = "done" /\ asked = Len(batches) + 1
        /\ UNCHANGED <<nodes, batches, first, taken, current_columns, asked,
                       attempt, descriptions>>
    BY <1>0, <1>7 DEF Return, TypeOK
  <2>2. \A t \in Table : descriptions[t] # NoAnswer
    <3>1. Start(asked) = Len(nodes) + 1
      BY <1>0, <2>1 DEF EachTableOnce
    <3>2. \A t \in Table : t < Start(asked)
      BY <1>0, <3>1 DEF Table, TypeOK
    <3>3. QED
      BY <1>0, <2>1, <3>2 DEF Describing
  <2>3. QED
    BY <1>0, <2>1, <2>2 DEF IInv, TypeOK, EachTableOnce, Start,
       BatchesAreBounded, DescribedInOwnBatch, Describing, Table
<1>8. CASE UNCHANGED vars
  BY <1>0, <1>8 DEF vars, IInv, TypeOK, EachTableOnce, Start,
     BatchesAreBounded, DescribedInOwnBatch, Describing, Filling, Table
<1>9. QED
  BY <1>1, <1>2, <1>3, <1>4, <1>5, <1>6, <1>7, <1>8 DEF Next

LEMMA Always == Spec => []IInv
BY Initially, Inductive, PTL DEF Spec

\* Every variable of the description stage keeps its type.
THEOREM DescribeTypes == Spec => []TypeOK
<1>1. IInv => TypeOK
  BY DEF IInv
<1>2. QED
  BY <1>1, Always, PTL

\* The batches hold each table exactly once and in order (_chunk_nodes).
THEOREM BatchesPartition == Spec => []EachTableOnce
<1>1. IInv => EachTableOnce
  BY DEF IInv
<1>2. QED
  BY <1>1, Always, PTL

\* Every batch keeps within both bounds, but for a single wide table.
THEOREM BatchesKeepBounds == Spec => []BatchesAreBounded
<1>1. IInv => BatchesAreBounded
  BY DEF IInv
<1>2. QED
  BY <1>1, Always, PTL

\* Each table that is returned was described by the answer to its own batch's
\* prompt, whatever else the model described in it.
THEOREM DescribedByOwnBatch == Spec => []DescribedInOwnBatch
<1>1. IInv => DescribedInOwnBatch
  BY DEF IInv
<1>2. QED
  BY <1>1, Always, PTL

-----------------------------------------------------------------------------
(* Numbers: what is defined from one to the next                           *)

\* A set of numbers has a least one, as the sets 0 .. n shrink only so often.
LEMMA LeastNumber ==
  ASSUME NEW T \in SUBSET Nat, T # {}
  PROVE  \E n \in T : \A m \in T : n <= m
<1> DEFINE D == {0 .. n : n \in T}
           R == StrictSubsetOrdering(Nat)
           F == FiniteSubsetsOf(Nat)
<1>1. IsWellFoundedOn(R, F)
  BY FS_StrictSubsetOrderingWellFounded
<1>2. \A n \in T : 0 .. n \in F
  <2>1. TAKE n \in T
  <2>2. n \in Int /\ 0 \in Int
    OBVIOUS
  <2>3. IsFiniteSet(0 .. n)
    BY <2>2, FS_Interval
  <2>4. QED
    BY <2>3 DEF FiniteSubsetsOf
<1>3. D \subseteq F /\ D # {}
  BY <1>2
<1>4. \E x \in D : \A y \in D : ~ (<<y, x>> \in R)
  <2> HIDE DEF D, R, F
  <2> QED
    BY <1>1, <1>3, WFMin
<1>5. PICK n \in T : \A m \in T : ~ (<<0 .. m, 0 .. n>> \in R)
  BY <1>4
<1>6. ASSUME NEW m \in T, m < n PROVE FALSE
  <2>1. 0 .. m \in SUBSET Nat /\ 0 .. n \in SUBSET Nat /\ 0 .. m \subseteq 0 .. n
    BY <1>6
  <2>2. n \in 0 .. n /\ n \notin 0 .. m
    BY <1>6
  <2>3. QED
    BY <1>5, <2>1, <2>2 DEF StrictSubsetOrdering
<1>7. QED
  BY <1>6

\* Induction, for a set of numbers.
LEMMA Induction ==
  ASSUME NEW T \in SUBSET Nat, 0 \in T, \A n \in T : n + 1 \in T
  PROVE  T = Nat
<1>1. SUFFICES ASSUME Nat \ T # {} PROVE FALSE
  OBVIOUS
<1>2. PICK n \in Nat \ T : \A m \in Nat \ T : n <= m
  BY <1>1, LeastNumber
<1>3. n # 0 /\ n - 1 \in Nat /\ n - 1 \notin Nat \ T
  BY <1>2
<1>4. QED
  BY <1>2, <1>3

Recurs(S, base, N, step) ==
  \E f \in [0 .. N -> S] : f[0] = base /\ \A i \in 1 .. N : f[i] = step[<<i, f[i - 1]>>]

\* What takes its value at i from that at i - 1 exists.
LEMMA Recursion ==
  ASSUME NEW S, NEW base \in S, NEW N \in Nat, NEW step \in [(1 .. N) \X S -> S]
  PROVE  Recurs(S, base, N, step)
<1> DEFINE Good(n, f) == f[0] = base /\ \A i \in 1 .. n : f[i] = step[<<i, f[i - 1]>>]
           T == {n \in Nat : n <= N => \E f \in [0 .. n -> S] : Good(n, f)}
<1>1. 0 \in T
  <2>1. [i \in 0 .. 0 |-> base] \in [0 .. 0 -> S] /\ Good(0, [i \in 0 .. 0 |-> base])
    OBVIOUS
  <2>2. QED
    BY <2>1
<1>2. ASSUME NEW n \in T PROVE n + 1 \in T
  <2>1. SUFFICES ASSUME n + 1 <= N
                 PROVE  \E f \in [0 .. n + 1 -> S] : Good(n + 1, f)
    <3>1. n \in Nat /\ n + 1 \in Nat
      OBVIOUS
    <3> HIDE DEF Good
    <3> QED
      BY <3>1
  <2>2. PICK f \in [0 .. n -> S] : Good(n, f)
    BY <2>1
  <2>3. n \in 0 .. n /\ n + 1 \in 1 .. N
    BY <2>1
  <2>4. PICK v \in S : v = step[<<n + 1, f[n]>>]
    BY <2>3
  <2> DEFINE g == [i \in 0 .. n + 1 |-> IF i = n + 1 THEN v ELSE f[i]]
  <2>5. \A i \in 0 .. n + 1 : i = n + 1 \/ i \in 0 .. n
    OBVIOUS
  <2>6. g \in [0 .. n + 1 -> S]
    BY <2>5
  <2>7. g[n + 1] = v /\ \A i \in 0 .. n : g[i] = f[i]
    OBVIOUS
  <2> HIDE DEF g
  <2>8. g[0] = base
    BY <2>2, <2>7
  <2>9. ASSUME NEW i \in 1 .. n + 1 PROVE g[i] = step[<<i, g[i - 1]>>]
    <3>1. CASE i = n + 1
      <4>1. i - 1 = n /\ g[n] = f[n] /\ g[i] = v
        BY <2>3, <2>7, <3>1
      <4>2. QED
        BY <2>4, <3>1, <4>1
    <3>2. CASE i # n + 1
      <4>1. i \in 1 .. n /\ i \in 0 .. n /\ i - 1 \in 0 .. n
        BY <3>2
      <4>2. QED
        BY <2>2, <2>7, <4>1
    <3>3. QED
      BY <3>1, <3>2
  <2>10. QED
    BY <2>6, <2>8, <2>9
<1>3. T = Nat
  <2>1. T \in SUBSET Nat
    OBVIOUS
  <2> HIDE DEF T
  <2>2. QED
    BY <1>1, <1>2, <2>1, Induction
<1>4. N \in T
  <2> HIDE DEF T
  <2> QED
    BY <1>3
<1>5. PICK f \in [0 .. N -> S] : Good(N, f)
  BY <1>4
<1>6. QED
  BY <1>5 DEF Recurs

-----------------------------------------------------------------------------
(* Describe: no batch is smaller than the bounds require                   *)

LEMMA UptoCounts ==
  ASSUME nodes \in Seq(Nat)
  PROVE  /\ \A n \in 0 .. Len(nodes) : Upto[n] \in Int
         /\ Upto[0] = 0
         /\ \A n \in 1 .. Len(nodes) : Upto[n] = Upto[n - 1] + nodes[n]
<1> DEFINE N == Len(nodes)
           step == [x \in (1 .. N) \X Int |-> x[2] + nodes[x[1]]]
<1>1. N \in Nat /\ 0 \in Int /\ \A n \in 1 .. N : nodes[n] \in Int
  OBVIOUS
<1>2. step \in [(1 .. N) \X Int -> Int]
  <2>1. ASSUME NEW x \in (1 .. N) \X Int PROVE x[2] + nodes[x[1]] \in Int
    <3>1. x[1] \in 1 .. N /\ x[2] \in Int
      OBVIOUS
    <3>2. QED
      BY <1>1, <3>1
  <2>2. QED
    BY <2>1
<1>3. \A i \in 1 .. N, n \in Int : step[<<i, n>>] = n + nodes[i]
  OBVIOUS
<1>4. PICK f \in [0 .. N -> Int] : f[0] = 0 /\ \A i \in 1 .. N : f[i] = step[<<i, f[i - 1]>>]
  <2> HIDE DEF step, N
  <2>1. Recurs(Int, 0, N, step)
    BY <1>1, <1>2, Recursion
  <2>2. QED
    BY <2>1 DEF Recurs
<1>5. ASSUME NEW i \in 1 .. N PROVE f[i] = f[i - 1] + nodes[i]
  <2>1. i - 1 \in 0 .. N
    BY <1>1
  <2>2. f[i - 1] \in Int
    BY <1>4, <2>1
  <2> HIDE DEF step
  <2>3. QED
    BY <1>3, <1>4, <2>2
<1>6. f = [n \in 0 .. N |-> IF n = 0 THEN 0 ELSE f[n - 1] + nodes[n]]
  <2>1. \A n \in 0 .. N : n = 0 \/ n \in 1 .. N
    OBVIOUS
  <2>2. QED
    BY <1>4, <1>5, <2>1
<1>7. Upto = CHOOSE g : g = [n \in 0 .. N |-> IF n = 0 THEN 0 ELSE g[n - 1] + nodes[n]]
  BY DEF Upto
<1>8. Upto = [n \in 0 .. N |-> IF n = 0 THEN 0 ELSE Upto[n - 1] + nodes[n]]
  BY <1>6, <1>7, Zenon
<1>9. Upto[0] = 0 /\ \A n \in 1 .. N : Upto[n] = Upto[n - 1] + nodes[n]
  BY <1>1, <1>8
<1> DEFINE T == {n \in Nat : n \in 0 .. N => Upto[n] \in Int}
<1>10. 0 \in T
  BY <1>9
<1>11. ASSUME NEW n \in T PROVE n + 1 \in T
  <2>1. SUFFICES ASSUME n + 1 \in 0 .. N PROVE Upto[n + 1] \in Int
    OBVIOUS
  <2>2. n + 1 \in 1 .. N /\ (n + 1) - 1 = n /\ Upto[n] \in Int
    BY <1>1, <2>1
  <2>3. Upto[n + 1] = Upto[n] + nodes[n + 1]
    BY <1>9, <2>2
  <2>4. QED
    BY <1>1, <2>2, <2>3
<1>12. T = Nat
  <2>1. T \in SUBSET Nat
    OBVIOUS
  <2> HIDE DEF T
  <2>2. QED
    BY <1>10, <1>11, <2>1, Induction
<1>13. \A n \in 0 .. N : Upto[n] \in Int
  <2>1. \A n \in 0 .. N : n \in T
    <3> HIDE DEF T
    <3>1. \A n \in 0 .. N : n \in Nat
      BY <1>1
    <3>2. QED
      BY <1>12, <3>1
  <2>2. QED
    BY <2>1
<1>14. QED
  BY <1>9, <1>13

Greedy(b) ==
  \/ batches[b].last + 1 - batches[b].first = batch_size
  \/ Upto[batches[b].last + 1] - Upto[batches[b].first - 1] > max_batch_columns

\* The columns that are counted are those of the batch being filled, and every
\* batch that was closed, but for the last of all, was closed for the next table.
Counting ==
  /\ phase = "chunking" => current_columns = Upto[taken] - Upto[first - 1]
  /\ \A b \in 1 .. Len(batches) : phase = "chunking" \/ b < Len(batches) => Greedy(b)

LEMMA CountingInit == Init => Counting
<1> SUFFICES ASSUME Init PROVE Counting
  OBVIOUS
<1>1. nodes \in Seq(Nat)
  BY TypesInit DEF TypeOK
<1>2. Upto[0] = 0
  BY <1>1, UptoCounts
<1>3. QED
  BY <1>2 DEF Init, Counting

LEMMA CountingStep == IInv /\ Counting /\ [Next]_vars => Counting'
<1> SUFFICES ASSUME IInv, Counting, [Next]_vars PROVE Counting'
  OBVIOUS
<1>1. /\ nodes \in Seq(Nat) /\ Len(nodes) \in Nat /\ batches \in Seq(Batch)
      /\ first \in Nat \ {0} /\ taken \in 0 .. Len(nodes) /\ Len(batches) \in Nat
  BY DEF IInv, TypeOK
<1>2. nodes' = nodes
  BY DEF Next, AddToBatch, CloseBatch, LastBatch, Answered, AskAgain, GiveUp, Return, vars
<1>3. Upto' = Upto
  BY <1>2 DEF Upto
<1>4. /\ \A n \in 0 .. Len(nodes) : Upto[n] \in Int
      /\ \A n \in 1 .. Len(nodes) : Upto[n] = Upto[n - 1] + nodes[n]
  BY <1>1, UptoCounts
<1>5. CASE AddToBatch
  <2>1. taken + 1 \in 1 .. Len(nodes) /\ (taken + 1) - 1 = taken
    BY <1>1, <1>5 DEF AddToBatch
  <2>2. Upto[taken + 1] = Upto[taken] + nodes[taken + 1] /\ first - 1 \in 0 .. Len(nodes)
    <3>1. Upto[taken + 1] = Upto[(taken + 1) - 1] + nodes[taken + 1]
      BY <1>4, <2>1
    <3>2. phase = "chunking"
      BY <1>5 DEF AddToBatch
    <3>3. Filling
      BY <3>2 DEF IInv
    <3>4. first <= taken + 1 /\ taken \in Nat /\ first \in Nat /\ 1 <= first
      BY <1>1, <3>3 DEF Filling
    <3>5. first - 1 \in 0 .. Len(nodes)
      BY ONLY <1>1, <2>1, <3>4
    <3>6. QED
      BY ONLY <2>1, <3>1, <3>5
  <2>3. /\ current_columns = Upto[taken] - Upto[first - 1] /\ nodes[taken + 1] \in Int
        /\ Upto[taken] \in Int /\ Upto[first - 1] \in Int
    BY <1>1, <1>4, <1>5, <2>1, <2>2 DEF AddToBatch, Counting
  <2>4. current_columns' = Upto[taken + 1] - Upto[first - 1]
    <3>1. current_columns' = current_columns + nodes[taken + 1]
      BY <1>5 DEF AddToBatch
    <3>2. QED
      BY <2>2, <2>3, <3>1
  <2>5. QED
    BY <1>3, <1>5, <2>4 DEF AddToBatch, Counting, Greedy
<1>6. CASE CloseBatch
  <2>1. /\ taken + 1 \in 1 .. Len(nodes) /\ (taken + 1) - 1 = taken /\ phase = "chunking"
        /\ phase' = "chunking" /\ batches' = Append(batches, Current)
        /\ first' = taken + 1 /\ taken' = taken + 1 /\ current_columns' = nodes[taken + 1]
        /\ Full(nodes[taken + 1])
    BY <1>1, <1>6 DEF CloseBatch
  <2>2. /\ Filling /\ current_columns = Upto[taken] - Upto[first - 1]
        /\ \A b \in 1 .. Len(batches) : Greedy(b)
    BY <2>1 DEF IInv, Counting
  <2>3. /\ Upto[taken + 1] = Upto[taken] + nodes[taken + 1] /\ nodes[taken + 1] \in Int
        /\ Upto[taken] \in Int /\ Upto[first - 1] \in Int /\ Upto[taken + 1] \in Int
    <3>1. first - 1 \in 0 .. Len(nodes) /\ taken + 1 \in 0 .. Len(nodes)
      <4>1. first <= taken + 1
        BY ONLY <2>2 DEF Filling
      <4>2. first \in Nat /\ 1 <= first /\ taken \in Nat /\ Len(nodes) \in Nat
        BY <1>1
      <4>3. QED
        BY ONLY <2>1, <4>1, <4>2
    <3>2. Upto[taken + 1] = Upto[(taken + 1) - 1] + nodes[taken + 1]
      BY <1>4, <2>1
    <3>3. nodes[taken + 1] \in Int
      BY <1>1, <2>1
    <3>4. Upto[taken] \in Int /\ Upto[first - 1] \in Int /\ Upto[taken + 1] \in Int
      BY <1>1, <1>4, <3>1
    <3>5. QED
      BY <2>1, <3>2, <3>3, <3>4
  <2>4. current_columns' = Upto[taken'] - Upto[first' - 1]
    BY <2>1, <2>3
  <2>5. /\ Current \in Batch /\ Current.first = first /\ Current.last = taken
    BY DEF IInv, TypeOK, Batch, Current
  <2>6. /\ Len(batches') = Len(batches) + 1
        /\ \A i \in 1 .. Len(batches) : batches'[i] = batches[i]
        /\ batches'[Len(batches) + 1] = Current
    BY <1>1, <2>1, <2>5, Appending
  <2>7. \/ taken + 1 - first = batch_size
        \/ Upto[taken + 1] - Upto[first - 1] > max_batch_columns
    <3>1. batch_size \in Nat /\ max_batch_columns \in Nat
      BY BoundAssumption
    <3>2. CASE taken + 1 - first >= batch_size
      <4>1. taken + 1 - first <= batch_size
        BY ONLY <2>2 DEF Filling
      <4>2. taken \in Nat /\ first \in Nat
        BY <1>1
      <4>3. QED
        BY ONLY <3>1, <3>2, <4>1, <4>2
    <3>3. CASE current_columns + nodes[taken + 1] > max_batch_columns
      BY <2>2, <2>3, <3>1, <3>3
    <3>4. QED
      BY <2>1, <3>2, <3>3 DEF Full
  <2>8. ASSUME NEW b \in 1 .. Len(batches') PROVE Greedy(b)'
    <3>1. CASE b \in 1 .. Len(batches)
      BY <1>3, <2>2, <2>6, <3>1 DEF Greedy
    <3>2. CASE b = Len(batches) + 1
      BY <1>3, <2>5, <2>6, <2>7, <3>2 DEF Greedy
    <3>3. b \in 1 .. Len(batches) + 1
      BY ONLY <2>6, <2>8
    <3>4. b \in 1 .. Len(batches) \/ b = Len(batches) + 1
      BY ONLY <1>1, <3>3
    <3>5. QED
      BY ONLY <3>1, <3>2, <3>4
  <2>9. QED
    BY <1>3, <2>1, <2>4, <2>8 DEF Counting
<1>7. CASE LastBatch
  <2>1. /\ phase = "chunking" /\ phase' = "asking"
        /\ batches' = batches \/ batches' = Append(batches, Current)
    BY <1>7 DEF LastBatch
  <2>2. Current \in Batch
    BY DEF IInv, TypeOK, Batch, Current
  <2>3. ASSUME NEW b \in 1 .. Len(batches'), b < Len(batches') PROVE Greedy(b)'
    <3>1. b \in 1 .. Len(batches) /\ batches'[b] = batches[b]
      BY <1>1, <2>1, <2>2, <2>3, Appending
    <3>2. Greedy(b)
      BY <2>1, <3>1 DEF Counting
    <3>3. QED
      BY <1>3, <3>1, <3>2 DEF Greedy
  <2>4. QED
    BY <2>1, <2>3 DEF Counting
<1>8. CASE /\ UNCHANGED <<batches, first, taken, current_columns>>
           /\ phase' = phase \/ (phase = "asking" /\ phase' \in {"done", "failed"})
  <2>1. \A b : Greedy(b)' <=> Greedy(b)
    BY <1>3, <1>8 DEF Greedy
  <2>2. (phase = "chunking") <=> (phase' = "chunking")
    BY <1>8
  <2>3. phase' = "chunking" => current_columns' = Upto'[taken'] - Upto'[first' - 1]
    BY <1>3, <1>8, <2>2 DEF Counting
  <2>4. ASSUME NEW b \in 1 .. Len(batches'), phase' = "chunking" \/ b < Len(batches')
        PROVE  Greedy(b)'
    BY <1>8, <2>1, <2>2, <2>4 DEF Counting
  <2>5. QED
    BY <2>3, <2>4 DEF Counting
<1>9. ASSUME NEW entries \in SUBSET Table, Answered(entries) PROVE Counting'
  BY <1>8, <1>9 DEF Answered
<1>11. CASE AskAgain
  BY <1>8, <1>11 DEF AskAgain
<1>12. CASE GiveUp
  BY <1>8, <1>12 DEF GiveUp, Asking
<1>13. CASE Return
  BY <1>8, <1>13 DEF Return
<1>14. CASE UNCHANGED vars
  BY <1>8, <1>14 DEF vars
<1>10. QED
  BY <1>5, <1>6, <1>7, <1>9, <1>11, <1>12, <1>13, <1>14 DEF Next

-----------------------------------------------------------------------------
(* Metadata: the three queries, and what changes between them              *)

\* What the queries so far have found, and what it still has to do with the
\* database as it is.
Found ==
  /\ changes = 0 => steady
  /\ extracting # "tables" /\ changes = 0 => seen = DOMAIN tables
  /\ extracting \in {"tables", "columns"} => fields = <<>>
  /\ extracting \in {"keys", "done", "refused"} =>
       /\ DOMAIN fields = seen
       /\ steady => fields = [t \in seen |-> IF t \in DOMAIN tables THEN tables[t].columns ELSE {}]
  /\ extracting \in {"done", "refused"} =>
       /\ extracted = {r \in Extraction!Joined : {r.from, r.to} \subseteq seen}
       /\ extracting = "done" <=> Extraction!Consistent(fields, extracted)

ExtractInv == Extraction!TypeOK /\ Found

\* The columns of a key are one or two, numbered from 1.
LEMMA Columns ==
  ASSUME NEW s \in Extraction!Distinct
  PROVE  /\ Len(s) \in {1, 2} /\ DOMAIN s = 1 .. Len(s)
         /\ \A i \in DOMAIN s : s[i] \in Column
         /\ Extraction!Range(s) \subseteq Column
         /\ \A i \in DOMAIN s : s[i] \in Extraction!Range(s)
         /\ \A c \in Extraction!Range(s) : \E i \in DOMAIN s : c = s[i]
<1>1. s \in [1 .. 1 -> Column] \/ s \in [1 .. 2 -> Column]
  BY DEF Extraction!Distinct
<1>2. Len(s) \in {1, 2} /\ DOMAIN s = 1 .. Len(s)
  <2>1. ASSUME NEW n \in Nat, s \in [1 .. n -> Column] PROVE Len(s) = n /\ DOMAIN s = 1 .. n
    BY <2>1
  <2>2. QED
    BY <1>1, <2>1
<1>3. \A i \in DOMAIN s : s[i] \in Column
  BY <1>1
<1>4. QED
  BY <1>2, <1>3 DEF Extraction!Range

\* What is joined is a column of one key, the constraint of another with its
\* name, and a column of a primary key.
LEMMA JoinedFrom ==
  ASSUME Extraction!TypeOK, NEW r \in Extraction!Joined
  PROVE  /\ access = "own"
         /\ \E k, l \in keys, t \in DOMAIN tables :
              /\ k.name = l.name /\ k.table.schema = l.table.schema
              /\ l.to.name = t.name /\ l.to.schema = t.schema
              /\ r.from = k.table /\ r.column \in Extraction!Range(k.columns)
              /\ r.to = t /\ r.target \in Extraction!Range(tables[t].key)
              /\ r = [from |-> r.from, column |-> r.column, to |-> r.to, target |-> r.target]
<1> DEFINE K == Extraction!key_column_usage
           R == Extraction!referential_constraints
           U == Extraction!constraint_column_usage
<1>1. PICK x \in K \X R \X U :
        /\ Extraction!Matches(x[1], x[2], x[3])
        /\ r = [from |-> x[1].table, column |-> x[1].column, to |-> x[3].table, target |-> x[3].column]
  BY DEF Extraction!Joined
<1>2. x[1] \in K /\ x[2] \in R /\ x[3] \in U
  <2> HIDE DEF K, R, U
  <2> QED
    BY <1>1
<1>3. PICK k \in keys : \E c \in Extraction!Range(k.columns) :
        x[1] = [table |-> k.table, name |-> k.name, column |-> c]
  BY <1>2 DEF Extraction!key_column_usage
<1>4. PICK l \in keys : x[2] = [schema |-> l.table.schema, name |-> l.name,
                                unique_schema |-> l.to.schema, unique |-> l.to.name]
  BY <1>2 DEF Extraction!referential_constraints
<1>5. access = "own"
  BY <1>2 DEF Extraction!constraint_column_usage
<1>6. PICK t \in DOMAIN tables : \E c \in Extraction!Range(tables[t].key) :
        x[3] = [table |-> t, name |-> t.name, column |-> c]
  BY <1>2, <1>5 DEF Extraction!constraint_column_usage
<1>7. /\ x[1].table = k.table /\ x[1].name = k.name /\ x[1].column \in Extraction!Range(k.columns)
      /\ x[2].schema = l.table.schema /\ x[2].name = l.name
      /\ x[2].unique_schema = l.to.schema /\ x[2].unique = l.to.name
      /\ x[3].table = t /\ x[3].name = t.name /\ x[3].column \in Extraction!Range(tables[t].key)
  BY <1>3, <1>4, <1>6
<1>8. /\ k.name = l.name /\ k.table.schema = l.table.schema
      /\ l.to.name = t.name /\ l.to.schema = t.schema
  BY <1>1, <1>7 DEF Extraction!Matches
<1>9. QED
  BY <1>1, <1>5, <1>7, <1>8

\* Every pair of columns of a key is joined for the owner.
LEMMA PairsJoined ==
  ASSUME Extraction!TypeOK, access = "own", NEW k \in keys
  PROVE  Extraction!Pairs(k) \subseteq Extraction!Joined
<1>1. SUFFICES ASSUME NEW i \in DOMAIN k.columns
               PROVE  [from |-> k.table, column |-> k.columns[i], to |-> k.to,
                       target |-> tables[k.to].key[i]] \in Extraction!Joined
  BY DEF Extraction!Pairs
<1>2. /\ k.columns \in Extraction!Distinct /\ k.to \in DOMAIN tables
      /\ Len(k.columns) = Len(tables[k.to].key) /\ tables[k.to].key \in Extraction!Distinct
  <2>1. k \in Extraction!ForeignKey /\ Extraction!Fits(tables, k)
    BY DEF Extraction!TypeOK
  <2>2. k.to \in DOMAIN tables
    BY <2>1 DEF Extraction!Fits
  <2>3. tables[k.to] \in Extraction!Shape
    BY <2>2 DEF Extraction!TypeOK, Extraction!Range
  <2>4. QED
    BY <2>1, <2>2, <2>3 DEF Extraction!Fits, Extraction!Shape, Extraction!ForeignKey
<1>3. k.columns[i] \in Extraction!Range(k.columns)
  BY <1>2, Columns
<1>4. tables[k.to].key[i] \in Extraction!Range(tables[k.to].key)
  BY <1>2, Columns
<1> DEFINE a == [table |-> k.table, name |-> k.name, column |-> k.columns[i]]
           b == [schema |-> k.table.schema, name |-> k.name,
                 unique_schema |-> k.to.schema, unique |-> k.to.name]
           c == [table |-> k.to, name |-> k.to.name, column |-> tables[k.to].key[i]]
<1>5. a \in Extraction!key_column_usage
  <2>1. a \in {[table |-> k.table, name |-> k.name, column |-> d] : d \in Extraction!Range(k.columns)}
    BY <1>3
  <2> HIDE DEF a
  <2>2. QED
    BY <2>1 DEF Extraction!key_column_usage
<1>6. b \in Extraction!referential_constraints
  BY DEF Extraction!referential_constraints
<1>7. c \in Extraction!constraint_column_usage
  <2>1. c \in {[table |-> k.to, name |-> k.to.name, column |-> d]
              : d \in Extraction!Range(tables[k.to].key)}
    BY <1>4
  <2> HIDE DEF c
  <2>2. QED
    BY <1>2, <2>1 DEF Extraction!constraint_column_usage
<1>8. Extraction!Matches(a, b, c)
  BY DEF Extraction!Matches
<1>9. /\ a.table = k.table /\ a.column = k.columns[i]
      /\ c.table = k.to /\ c.column = tables[k.to].key[i]
  OBVIOUS
<1>10. <<a, b, c>> \in {y \in Extraction!key_column_usage \X Extraction!referential_constraints
                              \X Extraction!constraint_column_usage :
                           Extraction!Matches(y[1], y[2], y[3])}
  <2> HIDE DEF a, b, c
  <2> QED
    BY <1>5, <1>6, <1>7, <1>8
<1>11. QED
  <2> HIDE DEF a, b, c
  <2> QED
    BY <1>9, <1>10 DEF Extraction!Joined

\* What names, when it is folded, is told apart by.
LEMMA SameFolded ==
  ASSUME NEW t \in Relation, NEW u \in Relation, t # u
  PROVE  (Extraction!Folded(t) = Extraction!Folded(u)) <=> Extraction!DifferInCase(t, u)
<1> DEFINE F(x) == Extraction!Folded(x)
<1>1. \A x \in Relation :
        /\ x.schema = "public" => /\ DOMAIN F(x) = 1 .. 1 /\ F(x)[1] = Lower[x.name]
                                  /\ F(x) = <<Lower[x.name]>>
        /\ x.schema # "public" => /\ DOMAIN F(x) = 1 .. 2
                                  /\ F(x)[1] = Lower[x.schema] /\ F(x)[2] = Lower[x.name]
                                  /\ F(x) = <<Lower[x.schema], Lower[x.name]>>
  <2>1. SUFFICES ASSUME NEW x \in Relation
                 PROVE  /\ x.schema = "public" => /\ DOMAIN F(x) = 1 .. 1 /\ F(x)[1] = Lower[x.name]
                                                  /\ F(x) = <<Lower[x.name]>>
                        /\ x.schema # "public" =>
                             /\ DOMAIN F(x) = 1 .. 2
                             /\ F(x)[1] = Lower[x.schema] /\ F(x)[2] = Lower[x.name]
                             /\ F(x) = <<Lower[x.schema], Lower[x.name]>>
    OBVIOUS
  <2>2. CASE x.schema = "public"
    <3>1. Extraction!CatalogName(x) = <<x.name>>
      BY <2>2 DEF Extraction!CatalogName
    <3>2. F(x) = [i \in 1 .. 1 |-> Lower[<<x.name>>[i]]]
      BY <3>1 DEF Extraction!Folded
    <3>3. QED
      BY <2>2, <3>2
  <2>3. CASE x.schema # "public"
    <3>1. Extraction!CatalogName(x) = <<x.schema, x.name>>
      BY <2>3 DEF Extraction!CatalogName
    <3>2. F(x) = [i \in 1 .. 2 |-> Lower[<<x.schema, x.name>>[i]]]
      BY <3>1 DEF Extraction!Folded
    <3>3. QED
      BY <2>3, <3>2
  <2>4. QED
    BY <2>2, <2>3
<1> HIDE DEF F
<1>2. 1 .. 1 # 1 .. 2
  <2>1. 2 \in 1 .. 2 /\ 2 \notin 1 .. 1
    OBVIOUS
  <2>2. QED
    BY <2>1
<1>3. CASE t.schema = "public" /\ u.schema = "public"
  BY <1>1, <1>3 DEF Extraction!DifferInCase, F
<1>4. CASE t.schema # "public" /\ u.schema # "public"
  BY <1>1, <1>4 DEF Extraction!DifferInCase, F
<1>5. CASE (t.schema = "public") # (u.schema = "public")
  <2>1. F(t) # F(u)
    BY <1>1, <1>2, <1>5
  <2>2. ~ Extraction!DifferInCase(t, u)
    BY <1>5 DEF Extraction!DifferInCase
  <2>3. QED
    BY <2>1, <2>2 DEF F
<1>6. QED
  BY <1>3, <1>4, <1>5

LEMMA ExtractInit == Extraction!Init => ExtractInv
<1> SUFFICES ASSUME Extraction!Init PROVE ExtractInv
  OBVIOUS
<1>1. PICK s \in SUBSET Relation : tables \in [s -> Extraction!Shape]
  BY DEF Extraction!Init
<1>2. keys \subseteq {k \in Extraction!ForeignKey : Extraction!Fits(tables, k)}
  <2> DEFINE fit == {k \in Extraction!ForeignKey : Extraction!Fits(tables, k)}
  <2>1. PICK n \in 0 .. MaxReferences : \E f \in [1 .. n -> fit] : keys = Extraction!Range(f)
    BY DEF Extraction!Init
  <2> HIDE DEF fit
  <2>2. QED
    BY <2>1 DEF Extraction!Range, fit
<1>3. DOMAIN tables \subseteq Relation /\ Extraction!Range(tables) \subseteq Extraction!Shape
  BY <1>1 DEF Extraction!Range
<1>4. /\ access \in {"read", "write", "own"} /\ extracting = "tables" /\ seen = {}
      /\ fields = <<>> /\ extracted = {} /\ changes = 0 /\ steady = TRUE
  BY DEF Extraction!Init
<1>5. MaxChanges \in Nat
  BY InstanceAssumption DEF Extraction!Parameters
<1>6. Extraction!TypeOK
  BY <1>2, <1>3, <1>4, <1>5 DEF Extraction!TypeOK
<1>7. QED
  BY <1>4, <1>6 DEF ExtractInv, Found

LEMMA NotExtracting == NoExtraction => ExtractInv
<1> SUFFICES ASSUME NoExtraction PROVE ExtractInv
  OBVIOUS
<1>1. MaxChanges \in Nat
  BY InstanceAssumption DEF Extraction!Parameters
<1>2. Extraction!TypeOK
  BY <1>1 DEF NoExtraction, Extraction!TypeOK, Extraction!Range
<1>3. QED
  BY <1>2 DEF NoExtraction, ExtractInv, Found

\* The tables after a change still have their shape, and its keys still fit.
LEMMA Changed ==
  ASSUME ExtractInv, Extraction!Changing,
         DOMAIN tables' \subseteq Relation,
         \A t \in DOMAIN tables' : tables'[t] \in Extraction!Shape,
         keys' \subseteq Extraction!ForeignKey,
         \A k \in keys' : Extraction!Fits(tables', k)
  PROVE  ExtractInv'
<1>1. /\ changes < MaxChanges /\ changes' = changes + 1 /\ steady' = FALSE
      /\ UNCHANGED <<access, extracting, seen, fields, extracted>>
      /\ extracting \in {"tables", "columns", "keys"}
  BY DEF Extraction!Changing, Extraction!Running
<1>2. MaxChanges \in Nat /\ changes \in 0 .. MaxChanges
  BY InstanceAssumption DEF Extraction!Parameters, ExtractInv, Extraction!TypeOK
<1>3. changes' \in 0 .. MaxChanges /\ changes' # 0
  BY <1>1, <1>2
<1>4. Extraction!Range(tables') \subseteq Extraction!Shape
  BY DEF Extraction!Range
<1>5. Extraction!TypeOK'
  BY <1>1, <1>3, <1>4 DEF ExtractInv, Extraction!TypeOK, Extraction!Fits
<1>6. Found'
  BY <1>1, <1>3 DEF ExtractInv, Found
<1>7. QED
  BY <1>5, <1>6 DEF ExtractInv

LEMMA ExtractStutter == ExtractInv /\ UNCHANGED extraction => ExtractInv'
<1> SUFFICES ASSUME ExtractInv, UNCHANGED extraction PROVE ExtractInv'
  OBVIOUS
<1>1. /\ tables' = tables /\ keys' = keys /\ access' = access /\ extracting' = extracting
      /\ seen' = seen /\ fields' = fields /\ extracted' = extracted
      /\ changes' = changes /\ steady' = steady
  BY DEF extraction
<1>2. Extraction!Joined' = Extraction!Joined
  BY <1>1 DEF Extraction!Joined, Extraction!Matches, Extraction!key_column_usage,
     Extraction!referential_constraints, Extraction!constraint_column_usage
<1>3. Extraction!TypeOK'
  BY <1>1 DEF ExtractInv, Extraction!TypeOK, Extraction!Fits, Extraction!Range
<1>4. Found'
  BY <1>1, <1>2 DEF ExtractInv, Found
<1>5. QED
  BY <1>3, <1>4 DEF ExtractInv

LEMMA ExtractStep == ExtractInv /\ Extraction!Next => ExtractInv'
<1> SUFFICES ASSUME ExtractInv, Extraction!Next PROVE ExtractInv'
  OBVIOUS
<1>1. /\ DOMAIN tables \subseteq Relation
      /\ \A t \in DOMAIN tables : tables[t] \in Extraction!Shape
      /\ keys \subseteq Extraction!ForeignKey /\ \A k \in keys : Extraction!Fits(tables, k)
      /\ Extraction!TypeOK /\ Found
  BY DEF ExtractInv, Extraction!TypeOK, Extraction!Range
<1>2. \A t \in DOMAIN tables : /\ tables[t].columns \subseteq Column
                               /\ tables[t].key \in Extraction!Distinct
                               /\ Extraction!Range(tables[t].key) \subseteq tables[t].columns
                               /\ tables[t] = [columns |-> tables[t].columns, key |-> tables[t].key]
  BY <1>1 DEF Extraction!Shape
<1>3. CASE Extraction!ListTables
  <2>1. /\ extracting = "tables" /\ extracting' = "columns" /\ seen' = DOMAIN tables
        /\ UNCHANGED <<tables, keys, access, fields, extracted, changes, steady>>
    BY <1>3 DEF Extraction!ListTables, Extraction!database
  <2>2. fields = <<>>
    BY <1>1, <2>1 DEF Found
  <2>3. Extraction!TypeOK'
    BY <1>1, <2>1, <2>2 DEF Extraction!TypeOK, Extraction!Fits, Extraction!Range
  <2>4. Found'
    BY <1>1, <2>1, <2>2 DEF Found
  <2>5. QED
    BY <2>3, <2>4 DEF ExtractInv
<1>4. CASE Extraction!ListColumns
  <2>1. /\ extracting = "columns" /\ extracting' = "keys" /\ steady' = TRUE
        /\ fields' = [t \in seen |-> IF t \in DOMAIN tables THEN tables[t].columns ELSE {}]
        /\ UNCHANGED <<tables, keys, access, seen, extracted, changes>>
    BY <1>4 DEF Extraction!ListColumns, Extraction!database
  <2>2. DOMAIN fields' = seen /\ \A t \in DOMAIN fields' : fields'[t] \subseteq Column
    BY <1>2, <2>1
  <2>3. Extraction!TypeOK'
    BY <1>1, <2>1, <2>2 DEF Extraction!TypeOK, Extraction!Fits, Extraction!Range
  <2>4. Found'
    BY <1>1, <2>1, <2>2 DEF Found
  <2>5. QED
    BY <2>3, <2>4 DEF ExtractInv
<1>5. CASE Extraction!ListKeys
  <2>1. /\ extracting = "keys"
        /\ extracted' = {r \in Extraction!Joined : {r.from, r.to} \subseteq seen}
        /\ extracting' = IF Extraction!Consistent(fields, extracted') THEN "done" ELSE "refused"
        /\ UNCHANGED <<tables, keys, access, seen, fields, changes, steady>>
    BY <1>5 DEF Extraction!ListKeys, Extraction!database
  <2>2. ASSUME NEW r \in extracted'
        PROVE  r \in [from : Relation, column : Column, to : Relation, target : Column]
    <3>1. r \in Extraction!Joined
      BY <2>1
    <3>2. PICK k \in keys, t \in DOMAIN tables :
            /\ r.from = k.table /\ r.column \in Extraction!Range(k.columns)
            /\ r.to = t /\ r.target \in Extraction!Range(tables[t].key)
            /\ r = [from |-> r.from, column |-> r.column, to |-> r.to, target |-> r.target]
      BY <1>1, <3>1, JoinedFrom
    <3>3. k.table \in Relation /\ Extraction!Range(k.columns) \subseteq Column
      BY <1>1, Columns DEF Extraction!ForeignKey
    <3>4. t \in Relation /\ Extraction!Range(tables[t].key) \subseteq Column
      BY <1>1, <1>2, Columns
    <3>5. QED
      BY <3>2, <3>3, <3>4
  <2>3. extracting' \in {"done", "refused"}
    BY <2>1
  <2>4. Extraction!Joined' = Extraction!Joined
    BY <2>1 DEF Extraction!Joined, Extraction!Matches, Extraction!key_column_usage,
       Extraction!referential_constraints, Extraction!constraint_column_usage
  <2>5. Extraction!TypeOK'
    BY <1>1, <2>1, <2>2, <2>3 DEF Extraction!TypeOK, Extraction!Fits, Extraction!Range
  <2>6. (extracting' = "done") <=> Extraction!Consistent(fields', extracted')
    BY <2>1
  <2>7. Found'
    BY <1>1, <2>1, <2>3, <2>4, <2>6 DEF Found
  <2>8. QED
    BY <2>5, <2>7 DEF ExtractInv
<1>6. CASE Extraction!CreateTable
  <2>1. PICK t \in Relation \ DOMAIN tables, s \in Extraction!Shape :
          tables' = [u \in DOMAIN tables \cup {t} |-> IF u = t THEN s ELSE tables[u]]
    BY <1>6 DEF Extraction!CreateTable
  <2>2. Extraction!Changing /\ keys' = keys
    BY <1>6 DEF Extraction!CreateTable
  <2>3. DOMAIN tables' = DOMAIN tables \cup {t} /\ \A u \in DOMAIN tables : tables'[u] = tables[u]
    BY <2>1
  <2>4. \A u \in DOMAIN tables' : tables'[u] \in Extraction!Shape
    BY <1>1, <2>1
  <2>5. \A k \in keys' : Extraction!Fits(tables', k)
    BY <1>1, <2>2, <2>3 DEF Extraction!Fits
  <2>6. DOMAIN tables' \subseteq Relation
    BY <1>1, <2>3
  <2>7. QED
    BY <1>1, <2>2, <2>4, <2>5, <2>6, Changed
<1>7. CASE Extraction!DropTable
  <2>1. PICK t \in DOMAIN tables :
          /\ \A k \in keys : k.to = t => k.table = t
          /\ tables' = Extraction!Restrict(tables, DOMAIN tables \ {t})
          /\ keys' = {k \in keys : k.table # t}
    BY <1>7 DEF Extraction!DropTable
  <2>2. Extraction!Changing
    BY <1>7 DEF Extraction!DropTable
  <2>3. /\ DOMAIN tables' = DOMAIN tables \ {t}
        /\ \A u \in DOMAIN tables \ {t} : tables'[u] = tables[u]
    BY <2>1 DEF Extraction!Restrict
  <2>4. \A k \in keys' : Extraction!Fits(tables', k)
    BY <1>1, <2>1, <2>3 DEF Extraction!Fits
  <2>5. QED
    BY <1>1, <2>1, <2>2, <2>3, <2>4, Changed
<1>8. CASE Extraction!AddColumn
  <2>1. PICK t \in DOMAIN tables : \E c \in Column \ tables[t].columns :
          tables' = [tables EXCEPT ![t].columns = @ \cup {c}]
    BY <1>8 DEF Extraction!AddColumn
  <2>2. PICK c \in Column : tables' = [tables EXCEPT ![t].columns = @ \cup {c}]
    BY <2>1
  <2>3. Extraction!Changing /\ keys' = keys
    BY <1>8 DEF Extraction!AddColumn
  <2>4. /\ DOMAIN tables' = DOMAIN tables
        /\ \A u \in DOMAIN tables : u # t => tables'[u] = tables[u]
        /\ tables'[t] = [tables[t] EXCEPT !.columns = @ \cup {c}]
    BY <2>2
  <2>5. /\ tables'[t].columns = tables[t].columns \cup {c} /\ tables'[t].key = tables[t].key
        /\ tables'[t] \in Extraction!Shape
    BY <1>1, <2>4 DEF Extraction!Shape
  <2>6. \A u \in DOMAIN tables' : tables'[u] \in Extraction!Shape
    BY <1>1, <2>4, <2>5
  <2>7. \A u \in DOMAIN tables : tables[u].columns \subseteq tables'[u].columns /\ tables'[u].key = tables[u].key
    BY <2>4, <2>5
  <2>8. \A k \in keys' : Extraction!Fits(tables', k)
    BY <1>1, <2>3, <2>4, <2>7 DEF Extraction!Fits
  <2>9. QED
    BY <1>1, <2>3, <2>4, <2>6, <2>8, Changed
<1>9. CASE Extraction!AddKey
  <2>1. PICK k \in Extraction!ForeignKey : Extraction!Fits(tables, k) /\ keys' = keys \cup {k}
    BY <1>9 DEF Extraction!AddKey
  <2>2. Extraction!Changing /\ tables' = tables
    BY <1>9 DEF Extraction!AddKey
  <2>3. QED
    BY <1>1, <2>1, <2>2, Changed
<1>10. CASE Extraction!Over
  <2>1. UNCHANGED extraction
    BY <1>10 DEF Extraction!Over, Extraction!vars, Extraction!database, extraction
  <2>2. QED
    BY <2>1, ExtractStutter
<1>11. QED
  BY <1>3, <1>4, <1>5, <1>6, <1>7, <1>8, <1>9, <1>10 DEF Extraction!Next

\* A table's columns, and which of them a relationship may join.
LEMMA JoinsColumns ==
  ASSUME Extraction!TypeOK, NEW r \in Extraction!Joined
  PROVE  /\ r.from \in DOMAIN tables /\ r.column \in tables[r.from].columns
         /\ r.to \in DOMAIN tables /\ r.target \in tables[r.to].columns
<1>1. PICK k \in keys, t \in DOMAIN tables :
        /\ r.from = k.table /\ r.column \in Extraction!Range(k.columns)
        /\ r.to = t /\ r.target \in Extraction!Range(tables[t].key)
  BY JoinedFrom
<1>2. Extraction!Fits(tables, k)
  BY DEF Extraction!TypeOK
<1>3. tables[t] \in Extraction!Shape
  BY DEF Extraction!TypeOK, Extraction!Range
<1>4. QED
  BY <1>1, <1>2, <1>3 DEF Extraction!Fits, Extraction!Shape

LEMMA Accepted == ExtractInv => Extraction!AcceptedIsClosed
<1> SUFFICES ASSUME ExtractInv, extracting = "done" PROVE Extraction!AcceptedIsClosed
  BY DEF Extraction!AcceptedIsClosed
<1>1. /\ Extraction!TypeOK /\ DOMAIN fields = seen /\ seen \subseteq Relation
      /\ extracted = {r \in Extraction!Joined : {r.from, r.to} \subseteq seen}
      /\ Extraction!Consistent(fields, extracted)
  BY DEF ExtractInv, Found, Extraction!TypeOK
<1>2. ASSUME NEW t \in seen, NEW u \in seen, Extraction!DifferInCase(t, u) PROVE FALSE
  <2>1. t \in Relation /\ u \in Relation /\ t # u
    BY <1>1, <1>2 DEF Extraction!DifferInCase
  <2>2. Extraction!Folded(t) = Extraction!Folded(u)
    BY <1>2, <2>1, SameFolded
  <2>3. QED
    BY <1>1, <2>1, <2>2 DEF Extraction!Consistent, Extraction!SameName
<1>3. \A r \in extracted : /\ r.from \in seen /\ r.to \in seen
                           /\ r.column \in fields[r.from] /\ r.target \in fields[r.to]
  BY <1>1 DEF Extraction!Consistent
<1>4. QED
  BY <1>2, <1>3 DEF Extraction!AcceptedIsClosed

LEMMA Refused == ExtractInv => Extraction!RefusalHasReason
<1> SUFFICES ASSUME ExtractInv, extracting = "refused", steady
             PROVE  \E t, u \in seen : Extraction!DifferInCase(t, u)
  BY DEF Extraction!RefusalHasReason
<1>1. /\ Extraction!TypeOK /\ DOMAIN fields = seen /\ seen \subseteq Relation
      /\ fields = [t \in seen |-> IF t \in DOMAIN tables THEN tables[t].columns ELSE {}]
      /\ extracted = {r \in Extraction!Joined : {r.from, r.to} \subseteq seen}
      /\ ~ Extraction!Consistent(fields, extracted)
  BY DEF ExtractInv, Found, Extraction!TypeOK
<1>2. ASSUME NEW r \in extracted PROVE r.column \in fields[r.from] /\ r.target \in fields[r.to]
  <2>1. r \in Extraction!Joined /\ r.from \in seen /\ r.to \in seen
    BY <1>1
  <2>2. /\ r.from \in DOMAIN tables /\ r.column \in tables[r.from].columns
        /\ r.to \in DOMAIN tables /\ r.target \in tables[r.to].columns
    BY <1>1, <2>1, JoinsColumns
  <2>3. QED
    BY <1>1, <2>1, <2>2
<1>3. Extraction!SameName(seen)
  BY <1>1, <1>2 DEF Extraction!Consistent
<1>4. PICK t \in seen, u \in seen : t # u /\ Extraction!Folded(t) = Extraction!Folded(u)
  BY <1>3 DEF Extraction!SameName
<1>5. QED
  BY <1>1, <1>4, SameFolded

LEMMA NoneMissed == ExtractInv => Extraction!OwnerMissesNoKey
<1> SUFFICES ASSUME ExtractInv, extracting = "done", changes = 0, access = "own",
                    NEW k \in keys, NEW r \in Extraction!Pairs(k)
             PROVE  r \in extracted
  BY DEF Extraction!OwnerMissesNoKey
<1>1. /\ Extraction!TypeOK /\ seen = DOMAIN tables
      /\ extracted = {x \in Extraction!Joined : {x.from, x.to} \subseteq seen}
  BY DEF ExtractInv, Found
<1>2. r \in Extraction!Joined
  BY <1>1, PairsJoined
<1>3. r.from \in DOMAIN tables /\ r.to \in DOMAIN tables
  BY <1>1, <1>2, JoinsColumns
<1>4. QED
  BY <1>1, <1>2, <1>3

LEMMA NoneAdded == ExtractInv => Extraction!PlainKeysAreExact
<1> SUFFICES ASSUME ExtractInv, extracting = "done", changes = 0, Extraction!PlainKeys,
                    NEW r \in extracted
             PROVE  \E k \in keys : r \in Extraction!Pairs(k)
  BY DEF Extraction!PlainKeysAreExact
<1>1. Extraction!TypeOK /\ r \in Extraction!Joined
  BY DEF ExtractInv, Found
<1>2. PICK k \in keys, l \in keys, t \in DOMAIN tables :
        /\ k.name = l.name /\ k.table.schema = l.table.schema
        /\ l.to.name = t.name /\ l.to.schema = t.schema
        /\ r.from = k.table /\ r.column \in Extraction!Range(k.columns)
        /\ r.to = t /\ r.target \in Extraction!Range(tables[t].key)
        /\ r = [from |-> r.from, column |-> r.column, to |-> r.to, target |-> r.target]
  BY <1>1, JoinedFrom
<1>3. k = l
  BY <1>2 DEF Extraction!PlainKeys
<1>4. /\ k.to \in Relation /\ t \in Relation /\ k.columns \in Extraction!Distinct
      /\ Extraction!Fits(tables, k)
  BY <1>1 DEF Extraction!TypeOK, Extraction!ForeignKey
<1>5. t = k.to
  BY <1>2, <1>3, <1>4, InstanceAssumption DEF Extraction!Parameters
<1>6. tables[t].key \in Extraction!Distinct
  BY <1>1 DEF Extraction!TypeOK, Extraction!Range, Extraction!Shape
<1>7. Len(k.columns) = 1 /\ Len(tables[t].key) = 1
  BY <1>4, <1>5 DEF Extraction!PlainKeys, Extraction!Fits
<1>8. DOMAIN k.columns = 1 .. 1 /\ DOMAIN tables[t].key = 1 .. 1
  BY <1>4, <1>6, <1>7, Columns
<1>9. r.column = k.columns[1] /\ r.target = tables[k.to].key[1]
  BY <1>2, <1>5, <1>8 DEF Extraction!Range
<1>10. r = [from |-> k.table, column |-> k.columns[1], to |-> k.to, target |-> tables[k.to].key[1]]
  BY <1>2, <1>5, <1>9
<1>11. QED
  BY <1>8, <1>10 DEF Extraction!Pairs

-----------------------------------------------------------------------------
(* The reduction: what edges join                                          *)

Nodes == 1 .. MaxNodes

LEMMA NodesAreFinite ==
  /\ MaxNodes \in Nat /\ MaxNodes # 0 /\ Reduction!node_ids = Nodes
  /\ IsFiniteSet(Nodes) /\ Cardinality(Nodes) = MaxNodes
<1>1. MaxNodes \in Nat /\ MaxNodes # 0
  BY InstanceAssumption DEF Reduction!Parameters
<1>2. IsFiniteSet(1 .. MaxNodes) /\ Cardinality(1 .. MaxNodes) = MaxNodes
  <2>1. 1 \in Int /\ MaxNodes \in Int /\ ~(1 > MaxNodes) /\ MaxNodes - 1 + 1 = MaxNodes
    BY <1>1
  <2>2. QED
    BY <2>1, FS_Interval
<1>3. QED
  BY <1>1, <1>2 DEF Nodes, Reduction!node_ids

NearTo(E, S) ==
  S \cup {m \in Nodes : \E e \in E : \/ e.from \in S /\ m = e.to
                                     \/ e.to \in S /\ m = e.from}

Closed(E, S) == \A e \in E : e.from \in S <=> e.to \in S

LEMMA WithinRecurs ==
  ASSUME NEW E, NEW n \in Nodes
  PROVE  /\ Reduction!Within(E, n)[0] = {n}
         /\ \A k \in 1 .. MaxNodes : Reduction!Within(E, n)[k] = NearTo(E, Reduction!Within(E, n)[k - 1])
<1> DEFINE N == MaxNodes
           D == SUBSET Nodes
           step == [x \in (1 .. N) \X D |-> NearTo(E, x[2])]
<1>1. N \in Nat /\ {n} \in D
  BY NodesAreFinite
<1>2. step \in [(1 .. N) \X D -> D]
  BY DEF NearTo
<1>3. \A i \in 1 .. N, S \in D : step[<<i, S>>] = NearTo(E, S)
  OBVIOUS
<1>4. PICK base \in D : base = {n}
  BY <1>1
<1>5. PICK W \in [0 .. N -> D] :
        W[0] = base /\ \A i \in 1 .. N : W[i] = step[<<i, W[i - 1]>>]
  <2> HIDE DEF step, N, D
  <2>1. Recurs(D, base, N, step)
    BY <1>1, <1>2, Recursion
  <2>2. QED
    BY <2>1 DEF Recurs
<1>6. ASSUME NEW i \in 1 .. N PROVE W[i] = NearTo(E, W[i - 1])
  <2>1. i - 1 \in 0 .. N
    BY <1>1
  <2>2. W[i - 1] \in D
    BY <1>5, <2>1
  <2> HIDE DEF step, D
  <2>3. QED
    BY <1>3, <1>5, <2>2
<1>7. W = [k \in 0 .. N |-> IF k = 0 THEN {n} ELSE NearTo(E, W[k - 1])]
  <2>1. \A k \in 0 .. N : k = 0 \/ k \in 1 .. N
    BY <1>1
  <2> HIDE DEF step
  <2>2. QED
    BY <1>4, <1>5, <1>6, <2>1
<1> DEFINE w == Reduction!Within(E, n)
<1>8. w = [k \in 0 .. N |-> IF k = 0 THEN {n} ELSE NearTo(E, w[k - 1])]
  <2>1. w = CHOOSE v : v = [k \in 0 .. N |-> IF k = 0 THEN {n} ELSE NearTo(E, v[k - 1])]
    BY DEF Reduction!Within, Reduction!node_ids, NearTo, Nodes
  <2>2. QED
    BY <1>7, <2>1, Zenon
<1>9. QED
  <2>1. 0 \in 0 .. N /\ \A k \in 1 .. N : k \in 0 .. N /\ k # 0
    BY <1>1
  <2>2. QED
    BY <1>8, <2>1

LEMMA WithinTypes ==
  ASSUME NEW E, NEW n \in Nodes
  PROVE  \A k \in 0 .. MaxNodes : Reduction!Within(E, n)[k] \in SUBSET Nodes /\ n \in Reduction!Within(E, n)[k]
<1> DEFINE T == {k \in Nat : k <= MaxNodes =>
                   Reduction!Within(E, n)[k] \in SUBSET Nodes /\ n \in Reduction!Within(E, n)[k]}
<1>1. 0 \in T
  BY WithinRecurs
<1>2. ASSUME NEW k \in T PROVE k + 1 \in T
  <2>1. SUFFICES ASSUME k + 1 <= MaxNodes
                 PROVE  Reduction!Within(E, n)[k + 1] \in SUBSET Nodes /\ n \in Reduction!Within(E, n)[k + 1]
    OBVIOUS
  <2>2. k \in Nat /\ k + 1 \in 1 .. MaxNodes /\ (k + 1) - 1 = k /\ k <= MaxNodes
    BY <2>1, NodesAreFinite
  <2>3. Reduction!Within(E, n)[k + 1] = NearTo(E, Reduction!Within(E, n)[k])
    BY <2>2, WithinRecurs
  <2>4. QED
    BY <2>2, <2>3 DEF NearTo
<1>3. T = Nat
  <2>1. T \in SUBSET Nat
    OBVIOUS
  <2> HIDE DEF T
  <2>2. QED
    BY <1>1, <1>2, <2>1, Induction
<1>4. \A k \in 0 .. MaxNodes : k \in T
  <2> HIDE DEF T
  <2> QED
    BY <1>3, NodesAreFinite
<1>5. QED
  BY <1>4, NodesAreFinite

\* What grows by a node in each step cannot do so as often as there are nodes.
LEMMA WithinStops ==
  ASSUME NEW E, NEW n \in Nodes
  PROVE  NearTo(E, Reduction!Within(E, n)[MaxNodes]) = Reduction!Within(E, n)[MaxNodes]
<1> DEFINE N == MaxNodes
           W == Reduction!Within(E, n)
           Size(k) == Cardinality(W[k])
           Good(k) == NearTo(E, W[k]) = W[k] \/ Size(k) >= k + 1
           T == {k \in Nat : k <= N => Good(k)}
<1>1. \A k \in 0 .. N : IsFiniteSet(W[k]) /\ Size(k) \in Nat /\ Size(k) <= N
  <2>1. TAKE k \in 0 .. N
  <2>2. W[k] \in SUBSET Nodes
    BY WithinTypes
  <2>3. IsFiniteSet(W[k]) /\ Cardinality(W[k]) <= Cardinality(Nodes)
    BY <2>2, FS_Subset, NodesAreFinite
  <2>4. QED
    BY <2>3, FS_CardinalityType, NodesAreFinite
<1>2. 0 \in T
  <2>1. 0 \in 0 .. N /\ n \in W[0]
    BY NodesAreFinite, WithinTypes
  <2>2. Size(0) # 0
    BY <1>1, <2>1, FS_EmptySet
  <2> HIDE DEF W
  <2>3. QED
    BY <1>1, <2>1, <2>2
<1>3. ASSUME NEW k \in T PROVE k + 1 \in T
  <2>1. SUFFICES ASSUME k + 1 <= N PROVE Good(k + 1)
    OBVIOUS
  <2>2. /\ k \in Nat /\ k \in 0 .. N /\ k + 1 \in 0 .. N /\ k + 1 \in 1 .. N
        /\ (k + 1) - 1 = k
    BY <2>1, NodesAreFinite
  <2>3. Good(k) /\ W[k + 1] = NearTo(E, W[k])
    BY <2>1, <2>2, WithinRecurs
  <2>4. CASE W[k + 1] = W[k]
    BY <2>3, <2>4
  <2>5. CASE W[k + 1] # W[k]
    <3>1. W[k] \in SUBSET W[k + 1]
      BY <2>3 DEF NearTo
    <3> HIDE DEF W
    <3>2. Size(k) <= Size(k + 1) /\ Size(k) # Size(k + 1)
      BY <1>1, <2>2, <2>5, <3>1, FS_Subset
    <3>3. Size(k) >= k + 1
      BY <2>3, <2>5
    <3>4. QED
      BY <1>1, <2>2, <3>2, <3>3
  <2>6. QED
    BY <2>4, <2>5
<1>4. T = Nat
  <2>1. T \in SUBSET Nat
    OBVIOUS
  <2> HIDE DEF T
  <2>2. QED
    BY <1>2, <1>3, <2>1, Induction
<1>5. Good(N)
  <2>1. N \in T
    <3> HIDE DEF T
    <3> QED
      BY <1>4, NodesAreFinite
  <2>2. QED
    BY <2>1
<1>6. N \in 0 .. N /\ N \in Nat
  BY NodesAreFinite
<1>7. QED
  <2> HIDE DEF W
  <2>1. ~(Size(N) >= N + 1)
    BY <1>1, <1>6
  <2>2. QED
    BY <1>5, <2>1 DEF W

LEMMA StaysWithin ==
  ASSUME NEW E, NEW n \in Nodes, NEW S \in SUBSET Nodes, n \in S, Closed(E, S)
  PROVE  Reduction!Within(E, n)[MaxNodes] \subseteq S
<1> DEFINE T == {k \in Nat : k <= MaxNodes => Reduction!Within(E, n)[k] \subseteq S}
<1>1. 0 \in T
  BY WithinRecurs
<1>2. ASSUME NEW k \in T PROVE k + 1 \in T
  <2>1. SUFFICES ASSUME k + 1 <= MaxNodes PROVE Reduction!Within(E, n)[k + 1] \subseteq S
    OBVIOUS
  <2>2. k \in Nat /\ k + 1 \in 1 .. MaxNodes /\ (k + 1) - 1 = k /\ k <= MaxNodes
    BY <2>1, NodesAreFinite
  <2>3. Reduction!Within(E, n)[k + 1] = NearTo(E, Reduction!Within(E, n)[k])
    BY <2>2, WithinRecurs
  <2>4. QED
    BY <2>2, <2>3 DEF NearTo, Closed
<1>3. T = Nat
  <2>1. T \in SUBSET Nat
    OBVIOUS
  <2> HIDE DEF T
  <2>2. QED
    BY <1>1, <1>2, <2>1, Induction
<1>4. MaxNodes \in T
  <2> HIDE DEF T
  <2> QED
    BY <1>3, NodesAreFinite
<1>5. QED
  BY <1>4, NodesAreFinite

\* What edges join with a node is the least closed set with it.
LEMMA Connected ==
  ASSUME NEW E \in SUBSET Reduction!Relationship, NEW n \in Nodes
  PROVE  /\ n \in Reduction!Joined(E, n) /\ Reduction!Joined(E, n) \in SUBSET Nodes
         /\ Closed(E, Reduction!Joined(E, n))
         /\ \A S \in SUBSET Nodes : n \in S /\ Closed(E, S) => Reduction!Joined(E, n) \subseteq S
         /\ Reduction!Joined(E, n) = Reduction!Within(E, n)[MaxNodes]
<1>1. Reduction!node_ids = Nodes /\ MaxNodes \in 0 .. MaxNodes
  BY NodesAreFinite
<1>2. Reduction!Joined(E, n) = Reduction!Within(E, n)[MaxNodes]
  BY DEF Reduction!Joined
<1>3. n \in Reduction!Within(E, n)[MaxNodes] /\ Reduction!Within(E, n)[MaxNodes] \in SUBSET Nodes
  BY <1>1, WithinTypes
<1>4. Closed(E, Reduction!Within(E, n)[MaxNodes])
  <2>1. \A e \in E : e.from \in Nodes /\ e.to \in Nodes
    BY <1>1 DEF Reduction!Relationship
  <2>2. QED
    BY <1>3, <2>1, WithinStops DEF NearTo, Closed
<1>5. QED
  BY <1>2, <1>3, <1>4, StaysWithin

-----------------------------------------------------------------------------
(* The reduction: sets and their trees                                     *)

\* R gives the root of each node, and A what may be met on the way to it: a
\* parent has less before it than its child.
Rooted(p, R, A) ==
  \A n \in Nodes :
    /\ R[p[n]] = R[n] /\ p[R[n]] = R[n]
    /\ p[n] = n => R[n] = n /\ A[n] = {n}
    /\ n \in A[n] /\ R[n] \in A[n]
    /\ p[n] # n => A[p[n]] \subseteq A[n] /\ n \notin A[p[n]]

Agrees(R, E) == \A n, m \in Nodes : R[n] = R[m] <=> m \in Reduction!Joined(E, n)

Iterated(S, g, base, N) ==
  \E f \in [0 .. N -> S] : f[0] = base /\ \A i \in 1 .. N : f[i] = g[f[i - 1]]

LEMMA Iterates ==
  ASSUME NEW S, NEW g \in [S -> S], NEW base \in S, NEW N \in Nat
  PROVE  Iterated(S, g, base, N)
<1> DEFINE step == [x \in (1 .. N) \X S |-> g[x[2]]]
<1>1. \A i \in 1 .. N, m \in S : step[<<i, m>>] = g[m]
  OBVIOUS
<1>2. step \in [(1 .. N) \X S -> S]
  OBVIOUS
<1> HIDE DEF step
<1>3. \E f \in [0 .. N -> S] : f[0] = base /\ \A i \in 1 .. N : f[i] = step[<<i, f[i - 1]>>]
  <2>1. Recurs(S, base, N, step)
    BY <1>2, Recursion
  <2>2. QED
    BY <2>1 DEF Recurs
<1>4. PICK f \in [0 .. N -> S] :
        f[0] = base /\ \A i \in 1 .. N : f[i] = step[<<i, f[i - 1]>>]
  BY <1>3
<1>5. ASSUME NEW i \in 1 .. N PROVE f[i] = g[f[i - 1]]
  <2>1. i - 1 \in 0 .. N
    OBVIOUS
  <2>2. f[i - 1] \in S
    BY <2>1
  <2>3. QED
    BY <1>1, <1>4, <2>2
<1>6. QED
  BY <1>4, <1>5 DEF Iterated

LEMMA Climbs ==
  ASSUME parent \in [Nodes -> Nodes], NEW n \in Nodes
  PROVE  \E w \in [0 .. MaxNodes -> Nodes] :
           /\ w[0] = n /\ \A k \in 1 .. MaxNodes : w[k] = parent[w[k - 1]]
           /\ Reduction!RootOf(n) = w[MaxNodes]
<1> DEFINE N == MaxNodes
<1>1. N \in Nat
  BY NodesAreFinite
<1>2. PICK W \in [0 .. N -> Nodes] : W[0] = n /\ \A i \in 1 .. N : W[i] = parent[W[i - 1]]
  <2>1. Iterated(Nodes, parent, n, N)
    BY <1>1, Iterates
  <2>2. QED
    BY <2>1 DEF Iterated
<1>5. W = [k \in 0 .. N |-> IF k = 0 THEN n ELSE parent[W[k - 1]]]
  <2>1. \A k \in 0 .. N : k = 0 \/ k \in 1 .. N
    BY <1>1
  <2>2. QED
    BY <1>2, <2>1
<1> DEFINE w == CHOOSE w : w = [k \in 0 .. N |-> IF k = 0 THEN n ELSE parent[w[k - 1]]]
<1>6. w = [k \in 0 .. N |-> IF k = 0 THEN n ELSE parent[w[k - 1]]]
  BY <1>5, Zenon
<1>7. Reduction!RootOf(n) = w[N]
  BY DEF Reduction!RootOf
<1>8. w[0] = n /\ \A k \in 1 .. N : w[k] = parent[w[k - 1]]
  <2>1. 0 \in 0 .. N /\ \A k \in 1 .. N : k \in 0 .. N /\ k # 0
    BY <1>1
  <2> HIDE DEF w
  <2>2. QED
    BY <1>6, <2>1
<1> DEFINE T == {k \in Nat : k <= N => w[k] \in Nodes}
<1>9. 0 \in T
  <2> HIDE DEF w
  <2> QED
    BY <1>8
<1>10. ASSUME NEW k \in T PROVE k + 1 \in T
  <2> HIDE DEF w
  <2>1. SUFFICES ASSUME k + 1 <= N PROVE w[k + 1] \in Nodes
    OBVIOUS
  <2>2. k \in Nat /\ k + 1 \in 1 .. N /\ (k + 1) - 1 = k /\ k <= N
    BY <2>1, <1>1
  <2>3. w[k + 1] = parent[w[k]] /\ w[k] \in Nodes
    BY <1>8, <2>2
  <2>4. QED
    BY <2>3
<1>11. T = Nat
  <2>1. T \in SUBSET Nat
    OBVIOUS
  <2> HIDE DEF T
  <2>2. QED
    BY <1>9, <1>10, <2>1, Induction
<1>12. \A k \in 0 .. N : w[k] \in Nodes
  <2>1. \A k \in 0 .. N : k \in T
    <3> HIDE DEF T
    <3> QED
      BY <1>1, <1>11
  <2> HIDE DEF w
  <2>2. QED
    BY <1>1, <2>1
<1>13. w \in [0 .. N -> Nodes]
  <2> HIDE DEF w
  <2> QED
    BY <1>6, <1>12
<1>14. QED
  <2> HIDE DEF w
  <2> QED
    BY <1>7, <1>8, <1>13

\* However far compression has got, climbing ends at the root.
LEMMA RootsFound ==
  ASSUME parent \in [Nodes -> Nodes], NEW R \in [Nodes -> Nodes],
         NEW A \in [Nodes -> SUBSET Nodes], Rooted(parent, R, A), NEW n \in Nodes
  PROVE  Reduction!RootOf(n) = R[n]
<1> DEFINE N == MaxNodes
<1>1. PICK w \in [0 .. N -> Nodes] :
        /\ w[0] = n /\ \A k \in 1 .. N : w[k] = parent[w[k - 1]]
        /\ Reduction!RootOf(n) = w[N]
  BY Climbs
<1> DEFINE Left(m) == Cardinality(A[m])
           T == {k \in Nat : k <= N =>
                   R[w[k]] = R[n] /\ (parent[w[k]] = w[k] \/ Left(w[k]) <= N - k)}
<1>2. \A m \in Nodes : IsFiniteSet(A[m]) /\ Left(m) \in Nat /\ Left(m) <= N /\ Left(m) # 0
  <2>1. TAKE m \in Nodes
  <2>2. A[m] \in SUBSET Nodes /\ m \in A[m]
    BY DEF Rooted
  <2>3. IsFiniteSet(A[m]) /\ Cardinality(A[m]) <= Cardinality(Nodes)
    BY <2>2, FS_Subset, NodesAreFinite
  <2>4. QED
    BY <2>2, <2>3, FS_CardinalityType, FS_EmptySet, NodesAreFinite
<1>3. 0 \in T
  <2>1. 0 \in 0 .. N /\ N \in Nat
    BY NodesAreFinite
  <2> HIDE DEF Left
  <2>2. QED
    BY <1>1, <1>2, <2>1
<1>4. ASSUME NEW k \in T PROVE k + 1 \in T
  <2>1. SUFFICES ASSUME k + 1 <= N
                 PROVE  /\ R[w[k + 1]] = R[n]
                        /\ parent[w[k + 1]] = w[k + 1] \/ Left(w[k + 1]) <= N - (k + 1)
    OBVIOUS
  <2>2. /\ k \in Nat /\ k \in 0 .. N /\ k + 1 \in 0 .. N /\ k + 1 \in 1 .. N
        /\ (k + 1) - 1 = k /\ N \in Nat
    BY <2>1, NodesAreFinite
  <2>3. /\ R[w[k]] = R[n] /\ (parent[w[k]] = w[k] \/ Left(w[k]) <= N - k)
        /\ w[k] \in Nodes /\ w[k + 1] \in Nodes /\ w[k + 1] = parent[w[k]]
    BY <1>1, <2>1, <2>2
  <2>4. R[w[k + 1]] = R[n]
    BY <2>3 DEF Rooted
  <2>5. CASE parent[w[k]] = w[k]
    BY <2>3, <2>4, <2>5
  <2>6. CASE parent[w[k]] # w[k]
    <3>1. A[w[k + 1]] \in SUBSET A[w[k]] /\ w[k] \in A[w[k]] /\ w[k] \notin A[w[k + 1]]
      BY <2>3, <2>6 DEF Rooted
    <3>2. Left(w[k + 1]) <= Left(w[k]) /\ Left(w[k + 1]) # Left(w[k])
      <4>1. IsFiniteSet(A[w[k]]) /\ A[w[k + 1]] # A[w[k]]
        BY <1>2, <2>3, <3>1
      <4>2. QED
        BY <3>1, <4>1, FS_Subset
    <3>3. Left(w[k]) \in Nat /\ Left(w[k + 1]) \in Nat /\ Left(w[k]) <= N - k
      BY <1>2, <2>3, <2>6
    <3> HIDE DEF Left
    <3>4. QED
      BY <2>2, <2>4, <3>2, <3>3
  <2>7. QED
    BY <2>5, <2>6
<1>5. T = Nat
  <2>1. T \in SUBSET Nat
    OBVIOUS
  <2> HIDE DEF T
  <2>2. QED
    BY <1>3, <1>4, <2>1, Induction
<1>6. N \in T /\ N \in Nat /\ N \in 0 .. N
  <2> HIDE DEF T
  <2> QED
    BY <1>5, NodesAreFinite
<1>7. w[N] \in Nodes /\ R[w[N]] = R[n] /\ (parent[w[N]] = w[N] \/ Left(w[N]) <= N - N)
  BY <1>1, <1>6
<1>8. parent[w[N]] = w[N]
  <2>1. Left(w[N]) \in Nat /\ Left(w[N]) # 0
    BY <1>2, <1>7
  <2> HIDE DEF Left
  <2>2. QED
    BY <1>6, <1>7, <2>1
<1>9. QED
  BY <1>1, <1>7, <1>8 DEF Rooted

\* Attaching a root to another one.
LEMMA Attached ==
  ASSUME NEW p \in [Nodes -> Nodes], NEW R \in [Nodes -> Nodes],
         NEW A \in [Nodes -> SUBSET Nodes], Rooted(p, R, A),
         NEW a \in Nodes, NEW b \in Nodes, p[a] = a, p[b] = b, a # b,
         NEW R2 \in [Nodes -> Nodes], \A n \in Nodes : R2[n] = IF R[n] = a THEN b ELSE R[n]
  PROVE  \E A2 \in [Nodes -> SUBSET Nodes] : Rooted([p EXCEPT ![a] = b], R2, A2)
<1> DEFINE A2 == [n \in Nodes |-> IF R[n] = a THEN A[n] \cup {b} ELSE A[n]]
           q == [p EXCEPT ![a] = b]
<1>1. A2 \in [Nodes -> SUBSET Nodes]
  OBVIOUS
<1>2. /\ q[a] = b /\ \A n \in Nodes : n # a => q[n] = p[n]
      /\ \A n \in Nodes : q[n] \in Nodes /\ p[n] \in Nodes /\ R[n] \in Nodes
  OBVIOUS
<1>3. R[a] = a /\ R[b] = b /\ A[b] = {b} /\ A[a] = {a}
  BY DEF Rooted
<1>4. /\ \A n \in Nodes : R[n] = a => A2[n] = A[n] \cup {b}
      /\ \A n \in Nodes : R[n] # a => A2[n] = A[n]
  OBVIOUS
<1> HIDE DEF A2, q
<1>5. ASSUME NEW n \in Nodes
      PROVE  /\ R2[q[n]] = R2[n] /\ q[R2[n]] = R2[n]
             /\ q[n] = n => R2[n] = n /\ A2[n] = {n}
             /\ n \in A2[n] /\ R2[n] \in A2[n]
             /\ q[n] # n => A2[q[n]] \subseteq A2[n] /\ n \notin A2[q[n]]
  <2>1. CASE n = a
    BY <1>2, <1>3, <1>4, <2>1
  <2>2. CASE n # a /\ R[n] = a
    <3>1. q[n] = p[n] /\ p[n] # n /\ n # b /\ R[p[n]] = a /\ R2[n] = b
      BY <1>2, <1>3, <2>2 DEF Rooted
    <3>2. A2[n] = A[n] \cup {b} /\ A2[p[n]] = A[p[n]] \cup {b} /\ R2[p[n]] = b
      BY <1>2, <1>4, <2>2, <3>1
    <3>3. n \in A[n] /\ A[p[n]] \subseteq A[n] /\ n \notin A[p[n]]
      BY <3>1 DEF Rooted
    <3>4. q[b] = b
      BY <1>2
    <3>5. QED
      BY <3>1, <3>2, <3>3, <3>4
  <2>3. CASE R[n] # a
    <3>1. n # a /\ q[n] = p[n] /\ R[p[n]] = R[n] /\ p[n] # a
      BY <1>2, <1>3, <2>3 DEF Rooted
    <3>2. A2[n] = A[n] /\ A2[p[n]] = A[p[n]] /\ R2[n] = R[n] /\ R2[p[n]] = R[n]
      BY <1>2, <1>4, <2>3, <3>1
    <3>3. q[R[n]] = p[R[n]]
      BY <1>2, <2>3
    <3>4. QED
      BY <3>1, <3>2, <3>3 DEF Rooted
  <2>4. QED
    BY <2>1, <2>2, <2>3
<1>6. Rooted(q, R2, A2)
  BY <1>5 DEF Rooted
<1>7. QED
  BY <1>1, <1>6 DEF q

\* Letting a node skip to its root.
LEMMA Compressed ==
  ASSUME NEW p \in [Nodes -> Nodes], NEW R \in [Nodes -> Nodes],
         NEW A \in [Nodes -> SUBSET Nodes], Rooted(p, R, A),
         NEW i \in Nodes, NEW b \in Nodes, p[b] = b, R[i] = b, p[i] # b
  PROVE  \E A2 \in [Nodes -> SUBSET Nodes] : Rooted([p EXCEPT ![i] = b], R, A2)
<1> DEFINE A2 == [A EXCEPT ![i] = {i, b}]
           q == [p EXCEPT ![i] = b]
<1>1. A2 \in [Nodes -> SUBSET Nodes]
  OBVIOUS
<1>2. /\ q[i] = b /\ \A n \in Nodes : n # i => q[n] = p[n]
      /\ A2[i] = {i, b} /\ \A n \in Nodes : n # i => A2[n] = A[n]
      /\ \A n \in Nodes : p[n] \in Nodes /\ R[n] \in Nodes
  OBVIOUS
<1>3. R[b] = b /\ A[b] = {b} /\ i # b /\ p[i] # i
  BY DEF Rooted
<1> HIDE DEF A2, q
<1>4. ASSUME NEW n \in Nodes
      PROVE  /\ R[q[n]] = R[n] /\ q[R[n]] = R[n]
             /\ q[n] = n => R[n] = n /\ A2[n] = {n}
             /\ n \in A2[n] /\ R[n] \in A2[n]
             /\ q[n] # n => A2[q[n]] \subseteq A2[n] /\ n \notin A2[q[n]]
  <2>1. R[n] # i /\ q[R[n]] = R[n]
    <3>1. p[R[n]] = R[n]
      BY DEF Rooted
    <3>2. QED
      BY <1>2, <1>3, <3>1
  <2>2. CASE n = i
    BY <1>2, <1>3, <2>1, <2>2
  <2>3. CASE n # i /\ p[n] = i
    <3>1. q[n] = i /\ A2[n] = A[n] /\ A2[i] = {i, b} /\ R[n] = b
      BY <1>2, <2>3 DEF Rooted
    <3>2. i \in A[n] /\ b \in A[n] /\ n \notin A[i] /\ b \in A[i] /\ n \in A[n]
      BY <2>3, <3>1 DEF Rooted
    <3>3. QED
      BY <2>1, <2>3, <3>1, <3>2
  <2>4. CASE n # i /\ p[n] # i
    <3>1. q[n] = p[n] /\ A2[n] = A[n] /\ A2[p[n]] = A[p[n]]
      BY <1>2, <2>4
    <3>2. QED
      BY <2>1, <3>1 DEF Rooted
  <2>5. QED
    BY <2>2, <2>3, <2>4
<1>5. Rooted(q, R, A2)
  BY <1>4 DEF Rooted
<1>6. QED
  BY <1>1, <1>5 DEF q

\* A new edge between two sets joins them and nothing else.
LEMMA JoinedByEdge ==
  ASSUME NEW E \in SUBSET Reduction!Relationship, NEW e \in Reduction!Relationship,
         NEW R \in [Nodes -> Nodes], Agrees(R, E), NEW R2 \in [Nodes -> Nodes],
         \A n \in Nodes : R2[n] = IF R[n] = R[e.from] THEN R[e.to] ELSE R[n]
  PROVE  Agrees(R2, E \cup {e})
<1> DEFINE F == E \cup {e}
           J(n) == Reduction!Joined(F, n)
           K(n) == Reduction!Joined(E, n)
<1>1. F \in SUBSET Reduction!Relationship /\ e \in F /\ E \subseteq F
  OBVIOUS
<1>2. \A d \in F : d.from \in Nodes /\ d.to \in Nodes
  BY NodesAreFinite DEF Reduction!Relationship
<1> HIDE DEF F
<1>3. \A n \in Nodes : /\ n \in J(n) /\ J(n) \in SUBSET Nodes /\ Closed(F, J(n))
                       /\ \A S \in SUBSET Nodes : n \in S /\ Closed(F, S) => J(n) \subseteq S
  BY <1>1, Connected
<1>4. \A n \in Nodes : /\ n \in K(n) /\ K(n) \in SUBSET Nodes /\ Closed(E, K(n))
                       /\ \A S \in SUBSET Nodes : n \in S /\ Closed(E, S) => K(n) \subseteq S
  BY Connected
<1>5. \A n, m \in Nodes : R[n] = R[m] <=> m \in K(n)
  BY DEF Agrees
<1> HIDE DEF J, K
<1>6. \A n \in Nodes : K(n) \subseteq J(n)
  BY <1>1, <1>3, <1>4 DEF Closed
<1>7. \A n, m \in Nodes : m \in J(n) => J(m) \subseteq J(n)
  BY <1>3
<1>8. \A d \in F : R2[d.from] = R2[d.to]
  <2>1. TAKE d \in F
  <2>2. d.from \in Nodes /\ d.to \in Nodes /\ e.from \in Nodes /\ e.to \in Nodes
    BY <1>1, <1>2
  <2>3. CASE d = e
    BY <2>2, <2>3
  <2>4. CASE d \in E
    <3>1. d.to \in K(d.from)
      BY <1>4, <2>2, <2>4 DEF Closed
    <3>2. R[d.from] = R[d.to]
      BY <1>5, <2>2, <3>1
    <3>3. QED
      BY <2>2, <3>2
  <2>5. QED
    BY <2>3, <2>4 DEF F
<1>9. ASSUME NEW n \in Nodes, NEW m \in Nodes, m \in J(n) PROVE R2[n] = R2[m]
  <2> DEFINE S == {x \in Nodes : R2[x] = R2[n]}
  <2>1. S \in SUBSET Nodes /\ n \in S /\ Closed(F, S)
    BY <1>2, <1>8 DEF Closed
  <2> HIDE DEF S
  <2>2. m \in S
    BY <1>3, <1>9, <2>1
  <2>3. QED
    BY <2>2 DEF S
<1>10. ASSUME NEW n \in Nodes, NEW m \in Nodes, R2[n] = R2[m] PROVE m \in J(n)
  <2>1. e.from \in Nodes /\ e.to \in Nodes
    BY <1>1, <1>2
  <2>2. CASE R[n] = R[m]
    BY <1>5, <1>6, <2>2
  <2>3. CASE R[n] # R[m] /\ R[n] = R[e.from]
    <3>1. R[e.to] = R[m]
      BY <1>10, <2>1, <2>3
    <3>2. e.from \in J(n) /\ m \in J(e.to)
      BY <1>5, <1>6, <2>1, <2>3, <3>1
    <3>3. e.to \in J(n)
      BY <1>1, <1>3, <3>2 DEF Closed
    <3>4. QED
      BY <1>7, <2>1, <3>2, <3>3
  <2>4. CASE R[n] # R[m] /\ R[n] # R[e.from]
    <3>1. R[m] = R[e.from] /\ R[n] = R[e.to]
      BY <1>10, <2>1, <2>4
    <3>2. e.to \in J(n) /\ m \in J(e.from)
      BY <1>5, <1>6, <2>1, <3>1
    <3>3. e.from \in J(n)
      BY <1>1, <1>3, <3>2 DEF Closed
    <3>4. QED
      BY <1>7, <2>1, <3>2, <3>3
  <2>5. QED
    BY <2>2, <2>3, <2>4
<1>11. QED
  BY <1>9, <1>10 DEF Agrees, F, J

-----------------------------------------------------------------------------
(* The reduction: tables in order                                          *)

LEMMA Extremes ==
  ASSUME NEW S \in SUBSET Nodes, S # {}
  PROVE  /\ Reduction!Min(S) \in S /\ \A x \in S : Reduction!Min(S) <= x
         /\ \E m \in S : \A x \in S : x <= m
<1>1. S \in SUBSET Nat /\ \A x \in S : x <= MaxNodes
  BY NodesAreFinite DEF Nodes
<1>2. \E n \in S : \A x \in S : n <= x
  BY <1>1, LeastNumber
<1>3. Reduction!Min(S) \in S /\ \A x \in S : Reduction!Min(S) <= x
  <2>1. Reduction!Min(S) = CHOOSE x \in S : \A y \in S : x <= y
    BY DEF Reduction!Min
  <2>2. QED
    BY <1>2, <2>1
<1> DEFINE B == {b \in Nat : \A x \in S : x <= b}
<1>4. B \in SUBSET Nat /\ B # {}
  BY <1>1, NodesAreFinite
<1>5. PICK b \in B : \A c \in B : b <= c
  <2> HIDE DEF B
  <2> QED
    BY <1>4, LeastNumber
<1>6. b \in S
  <2>1. SUFFICES ASSUME b \notin S PROVE FALSE
    OBVIOUS
  <2>2. \A x \in S : x \in Nat /\ x <= b /\ x # b
    BY <1>1, <2>1
  <2>3. b # 0
    <3>1. PICK x \in S : x \in Nat /\ x <= b /\ x # b
      BY <2>2
    <3>2. QED
      BY <3>1
  <2>4. b - 1 \in B
    BY <2>2, <2>3
  <2>5. QED
    BY <1>5, <2>4
<1>7. QED
  BY <1>3, <1>5, <1>6

Ascending(s, S) ==
  /\ s \in [1 .. Cardinality(S) -> S]
  /\ \A i, j \in 1 .. Cardinality(S) : i < j => s[i] < s[j]
  /\ \A x \in S : \E i \in 1 .. Cardinality(S) : s[i] = x

LEMMA AscendingExists ==
  ASSUME NEW S \in SUBSET Nodes
  PROVE  \E s : Ascending(s, S)
<1> DEFINE T == {k \in Nat : \A X \in SUBSET Nodes : Cardinality(X) = k => \E s : Ascending(s, X)}
<1>1. \A X \in SUBSET Nodes : IsFiniteSet(X) /\ Cardinality(X) \in Nat
  BY FS_Subset, FS_CardinalityType, NodesAreFinite
<1>2. 0 \in T
  <2>1. ASSUME NEW X \in SUBSET Nodes, Cardinality(X) = 0 PROVE \E s : Ascending(s, X)
    <3>1. X = {}
      BY <1>1, <2>1, FS_EmptySet
    <3>2. [i \in 1 .. 0 |-> 0] \in [1 .. 0 -> X] /\ \A i \in 1 .. 0 : FALSE
      OBVIOUS
    <3>3. Ascending([i \in 1 .. 0 |-> 0], X)
      BY <2>1, <3>1, <3>2 DEF Ascending
    <3>4. QED
      BY <3>3
  <2>2. QED
    BY <2>1
<1>3. ASSUME NEW k \in T PROVE k + 1 \in T
  <2>1. SUFFICES ASSUME NEW X \in SUBSET Nodes, Cardinality(X) = k + 1
                 PROVE  \E s : Ascending(s, X)
    OBVIOUS
  <2>2. k \in Nat /\ X # {}
    <3>1. k \in Nat /\ k + 1 # 0
      OBVIOUS
    <3>2. QED
      BY <2>1, <3>1, FS_EmptySet
  <2>3. PICK m \in X : \A x \in X : x <= m
    BY <2>2, Extremes
  <2> DEFINE Y == X \ {m}
  <2>4. Y \in SUBSET Nodes /\ Cardinality(Y) = k /\ \A x \in Y : x < m
    <3>1. Cardinality(Y) = k
      <4>1. Cardinality(Y) = Cardinality(X) - 1
        BY <1>1, <2>3, FS_RemoveElement
      <4>2. QED
        BY <2>1, <2>2, <4>1
    <3>2. \A x \in Y : x \in Nat /\ m \in Nat /\ x <= m /\ x # m
      BY <2>3, NodesAreFinite DEF Nodes
    <3>3. QED
      BY <3>1, <3>2
  <2>5. PICK t : Ascending(t, Y)
    <3> HIDE DEF Y
    <3> QED
      BY <2>4
  <2>6. /\ t \in [1 .. k -> Y] /\ \A i, j \in 1 .. k : i < j => t[i] < t[j]
        /\ \A x \in Y : \E i \in 1 .. k : t[i] = x
    BY <2>4, <2>5 DEF Ascending
  <2> DEFINE s == [i \in 1 .. k + 1 |-> IF i = k + 1 THEN m ELSE t[i]]
  <2>7. \A i \in 1 .. k + 1 : i = k + 1 \/ i \in 1 .. k
    BY <2>2
  <2>8. s[k + 1] = m /\ \A i \in 1 .. k : s[i] = t[i] /\ s[i] \in Y
    BY <2>2, <2>6
  <2>9. s \in [1 .. k + 1 -> X]
    BY <2>6, <2>7
  <2> HIDE DEF s
  <2>10. ASSUME NEW i \in 1 .. k + 1, NEW j \in 1 .. k + 1, i < j PROVE s[i] < s[j]
    <3>1. i \in 1 .. k
      BY <2>2, <2>10
    <3>2. CASE j = k + 1
      BY <2>4, <2>8, <3>1, <3>2
    <3>3. CASE j \in 1 .. k
      BY <2>6, <2>8, <2>10, <3>1, <3>3
    <3>4. QED
      BY <2>7, <3>2, <3>3
  <2>11. ASSUME NEW x \in X PROVE \E i \in 1 .. k + 1 : s[i] = x
    <3>1. CASE x = m
      BY <2>2, <2>8, <3>1
    <3>2. CASE x # m
      <4>1. PICK i \in 1 .. k : t[i] = x
        BY <2>6, <3>2
      <4>2. i \in 1 .. k + 1 /\ s[i] = x
        BY <2>2, <2>8, <4>1
      <4>3. QED
        BY <4>2
    <3>3. QED
      BY <3>1, <3>2
  <2>12. Ascending(s, X)
    BY <2>1, <2>9, <2>10, <2>11 DEF Ascending
  <2>13. QED
    BY <2>12
<1>4. T = Nat
  <2>1. T \in SUBSET Nat
    OBVIOUS
  <2> HIDE DEF T
  <2>2. QED
    BY <1>2, <1>3, <2>1, Induction
<1>5. Cardinality(S) \in T
  <2> HIDE DEF T
  <2> QED
    BY <1>1, <1>4
<1>6. QED
  BY <1>5

LEMMA SortedSet ==
  ASSUME NEW S \in SUBSET Nodes
  PROVE  Ascending(Reduction!InOrder(S), S)
<1> DEFINE K == Cardinality(S)
<1>1. K \in Nat
  <2>1. IsFiniteSet(S)
    BY FS_Subset, NodesAreFinite
  <2>2. QED
    BY <2>1, FS_CardinalityType
<1>2. Reduction!Cardinality(S) = K
  BY Zenon DEF Reduction!Cardinality, Cardinality
<1>3. PICK s : Ascending(s, S)
  BY AscendingExists
<1>4. s \in [1 .. K -> S] /\ DOMAIN s = 1 .. K /\ \A i, j \in 1 .. K : i < j => s[i] < s[j]
  BY <1>3 DEF Ascending
<1> DEFINE Up(f) == \A i, j \in DOMAIN f : i < j => f[i] < f[j]
<1>5. ASSUME NEW f, f \in Reduction!SetToSeqs(S)
      PROVE  f \in [1 .. K -> S] /\ \A i, j \in 1 .. K : i # j => f[i] # f[j]
  BY <1>2, <1>5 DEF Reduction!SetToSeqs
<1>6. s \in Reduction!SetToSeqs(S) /\ Up(s)
  <2>1. \A i, j \in 1 .. K : i # j => s[i] # s[j]
    <3>1. \A i \in 1 .. K : s[i] \in Nat
      <4>1. \A x \in S : x \in Nat
        BY NodesAreFinite DEF Nodes
      <4>2. QED
        BY <1>4, <4>1
    <3>2. TAKE i, j \in 1 .. K
    <3>3. i < j \/ j < i \/ i = j
      BY <1>1
    <3> HIDE DEF K
    <3>4. QED
      BY <1>4, <3>1, <3>3
  <2>2. QED
    BY <1>2, <1>4, <2>1 DEF Reduction!SetToSeqs
<1>7. PICK r : r = Reduction!InOrder(S)
  OBVIOUS
<1>8. r \in Reduction!SetToSeqs(S) /\ Up(r)
  <2>1. r = CHOOSE f \in Reduction!SetToSeqs(S) : Up(f)
    BY <1>7 DEF Reduction!InOrder
  <2> HIDE DEF Up
  <2>2. QED
    BY <1>6, <2>1
<1>9. r \in [1 .. K -> S] /\ \A i, j \in 1 .. K : i # j => r[i] # r[j]
  BY <1>5, <1>8
<1>10. \A x \in S : \E i \in 1 .. K : r[i] = x
  <2>1. r \in Injection(1 .. K, S)
    BY <1>9 DEF Injection, IsInjective
  <2>2. IsFiniteSet(S) /\ IsFiniteSet(1 .. K) /\ Cardinality(1 .. K) = K
    <3>1. IsFiniteSet(S)
      BY FS_Subset, NodesAreFinite
    <3> HIDE DEF K
    <3>2. 1 \in Int /\ K \in Int /\ (1 > K => K = 0) /\ (~(1 > K) => K - 1 + 1 = K)
      BY <1>1
    <3>3. QED
      BY <3>1, <3>2, FS_Interval
  <2>3. r \in Surjection(1 .. K, S)
    BY <2>1, <2>2, FS_Injection
  <2>4. QED
    BY <2>3 DEF Surjection
<1>11. QED
  BY <1>7, <1>8, <1>9, <1>10 DEF Ascending

-----------------------------------------------------------------------------
(* The reduction: the sets are the trees of the chosen edges               *)

Chosen == {mst_edges[i] : i \in DOMAIN mst_edges}

Roots(p) == {n \in Nodes : p[n] = n}

\* What a find, or the two of a union, know.
Finds(R) ==
  /\ edge \in sorted_edges /\ R[item] = R[root]
  /\ root_a = 0 => R[item] = R[edge.from]
  /\ root_a # 0 => parent[root_a] = root_a /\ R[edge.from] = root_a /\ R[item] = R[edge.to]

\* R gives the roots.
Kept(R) ==
  /\ \E A \in [Nodes -> SUBSET Nodes] : Rooted(parent, R, A)
  /\ Agrees(R, Chosen)
  /\ \A e \in relationships \ sorted_edges : R[e.from] = R[e.to]
  /\ reducing = "finding" => Finds(R)

ForestInv ==
  /\ Reduction!TypeOK
  /\ \E R \in [Nodes -> Nodes] : Kept(R)
  /\ Len(mst_edges) + Cardinality(Roots(parent)) = MaxNodes
  /\ reducing \in {"walking", "done"} => sorted_edges = {}
  /\ reducing # "walking" => queue = <<>>

LEMMA ReductionTypes ==
  ASSUME Reduction!TypeOK
  PROVE  /\ relationships \in SUBSET Reduction!Relationship /\ sorted_edges \in SUBSET relationships
         /\ mst_edges \in Seq(relationships) /\ parent \in [Nodes -> Nodes]
         /\ Chosen \in SUBSET Reduction!Relationship
         /\ edge.from \in Nodes /\ edge.to \in Nodes
         /\ item \in Nodes /\ root \in Nodes /\ (root_a # 0 => root_a \in Nodes)
         /\ visited \in SUBSET Nodes /\ queue \in Seq(visited) /\ ordered \in Seq(visited)
         /\ Reduction!Range(mst_edges) = Chosen
         /\ \A e \in Reduction!Relationship : e.from \in Nodes /\ e.to \in Nodes
<1>1. Reduction!node_ids = Nodes
  BY NodesAreFinite
<1>2. mst_edges \in Seq(relationships) /\ relationships \in SUBSET Reduction!Relationship
  BY DEF Reduction!TypeOK
<1>3. Chosen \in SUBSET Reduction!Relationship
  BY <1>2 DEF Chosen
<1>4. Reduction!Range(mst_edges) = Chosen
  BY DEF Reduction!Range, Chosen
<1>5. QED
  BY <1>1, <1>2, <1>3, <1>4 DEF Reduction!TypeOK, Reduction!Relationship

LEMMA ReductionInit == Reduction!Init => ForestInv
<1> SUFFICES ASSUME Reduction!Init PROVE ForestInv
  OBVIOUS
<1>1. Reduction!node_ids = Nodes /\ 1 \in Nodes
  BY NodesAreFinite DEF Nodes
<1>2. relationships \subseteq Reduction!Relationship
  <2>1. CASE relationships = {}
    BY <2>1
  <2>2. CASE \E key \in [1 .. MaxKeys -> Reduction!Relationship] : relationships = Reduction!Range(key)
    BY <2>2 DEF Reduction!Range
  <2>3. QED
    BY <2>1, <2>2 DEF Reduction!Init
<1>3. Reduction!TypeOK
  BY <1>1, <1>2 DEF Reduction!Init, Reduction!TypeOK, Reduction!Relationship
<1> DEFINE R == [n \in Nodes |-> n]
           A == [n \in Nodes |-> {n}]
<1>4. R \in [Nodes -> Nodes] /\ A \in [Nodes -> SUBSET Nodes] /\ parent = R
  BY <1>1 DEF Reduction!Init
<1>5. Rooted(parent, R, A)
  BY <1>4 DEF Rooted
<1>6. Chosen = {}
  BY DEF Reduction!Init, Chosen
<1>7. Agrees(R, Chosen)
  <2>1. ASSUME NEW n \in Nodes PROVE Reduction!Joined({}, n) = {n}
    <3>1. {n} \in SUBSET Nodes /\ Closed({}, {n}) /\ {} \in SUBSET Reduction!Relationship
      BY DEF Closed
    <3>2. n \in Reduction!Joined({}, n) /\ Reduction!Joined({}, n) \subseteq {n}
      BY <3>1, Connected
    <3>3. QED
      BY <3>2
  <2>2. QED
    BY <1>6, <2>1 DEF Agrees
<1>8. Kept(R)
  BY <1>4, <1>5, <1>7 DEF Kept, Reduction!Init
<1>9. Len(mst_edges) + Cardinality(Roots(parent)) = MaxNodes
  <2>1. Roots(parent) = Nodes
    BY <1>4 DEF Roots
  <2>2. Len(mst_edges) = 0
    BY DEF Reduction!Init
  <2>3. QED
    BY <2>1, <2>2, NodesAreFinite
<1>10. QED
  BY <1>3, <1>4, <1>8, <1>9 DEF ForestInv, Reduction!Init

\* What a step of the walk, or to it, leaves alone.
LEMMA ForestStays ==
  ASSUME ForestInv, UNCHANGED <<relationships, sorted_edges, mst_edges, parent, edge, item, root, root_a>>,
         Reduction!TypeOK', reducing' # "finding",
         reducing' \in {"walking", "done"} => sorted_edges' = {},
         reducing' # "walking" => queue' = <<>>
  PROVE  ForestInv'
<1>1. PICK R \in [Nodes -> Nodes] : Kept(R)
  BY DEF ForestInv
<1>2. Chosen' = Chosen
  BY DEF Chosen
<1>3. Kept(R)'
  BY <1>1, <1>2 DEF Kept
<1>4. QED
  BY <1>3 DEF ForestInv

LEMMA KeptNextEdge ==
  ASSUME ForestInv, NEW e \in sorted_edges, Reduction!NextEdge(e)
  PROVE  ForestInv'
<1> USE DEF Reduction!NextEdge, Reduction!walk
<1>1. Reduction!TypeOK'
  BY ReductionTypes, NodesAreFinite DEF ForestInv, Reduction!TypeOK
<1>2. PICK R \in [Nodes -> Nodes] : Kept(R)
  BY DEF ForestInv
<1>3. Chosen' = Chosen
  BY DEF Chosen
<1>4. Finds(R)'
  BY DEF Finds
<1>5. Kept(R)'
  BY <1>2, <1>3, <1>4 DEF Kept
<1>6. QED
  BY <1>1, <1>5 DEF ForestInv

LEMMA KeptClimb ==
  ASSUME ForestInv, Reduction!Climb
  PROVE  ForestInv'
<1> USE DEF Reduction!Climb, Reduction!walk
<1>1. parent[root] \in Nodes /\ root \in Nodes
  BY ReductionTypes DEF ForestInv
<1>2. Reduction!TypeOK'
  BY <1>1, NodesAreFinite DEF ForestInv, Reduction!TypeOK
<1>3. PICK R \in [Nodes -> Nodes] : Kept(R)
  BY DEF ForestInv
<1>4. Chosen' = Chosen
  BY DEF Chosen
<1>5. R[parent[root]] = R[root]
  BY <1>1, <1>3 DEF Kept, Rooted
<1>6. Finds(R)'
  BY <1>3, <1>5 DEF Kept, Finds
<1>7. Kept(R)'
  BY <1>3, <1>4, <1>6 DEF Kept
<1>8. QED
  BY <1>2, <1>7 DEF ForestInv

LEMMA KeptCompress ==
  ASSUME ForestInv, Reduction!Compress
  PROVE  ForestInv'
<1>1. /\ reducing = "finding" /\ parent[root] = root /\ parent[item] # root
      /\ parent' = [parent EXCEPT ![item] = root] /\ item' = parent[item]
      /\ UNCHANGED <<relationships, reducing, sorted_edges, mst_edges, edge, root, root_a,
                     visited, queue, ordered>>
  BY DEF Reduction!Compress, Reduction!IsRoot, Reduction!walk
<1>2. parent \in [Nodes -> Nodes] /\ item \in Nodes /\ root \in Nodes /\ parent[item] \in Nodes
  BY ReductionTypes DEF ForestInv
<1>3. Reduction!TypeOK'
  BY <1>1, <1>2, NodesAreFinite DEF ForestInv, Reduction!TypeOK
<1>4. PICK R \in [Nodes -> Nodes] : Kept(R)
  BY DEF ForestInv
<1>5. PICK A \in [Nodes -> SUBSET Nodes] : Rooted(parent, R, A)
  BY <1>4 DEF Kept
<1>6. Finds(R)
  BY <1>1, <1>4 DEF Kept
<1>7. R[item] = root /\ parent[item] # item
  <2>1. R[root] = root /\ R[item] = root
    BY <1>1, <1>2, <1>5, <1>6 DEF Rooted, Finds
  <2>2. parent[item] = item => R[item] = item
    BY <1>2, <1>5 DEF Rooted
  <2>3. QED
    BY <1>1, <2>1, <2>2
<1>8. \E A2 \in [Nodes -> SUBSET Nodes] : Rooted(parent', R, A2)
  BY <1>1, <1>2, <1>5, <1>7, Compressed
<1>9. \A n \in Nodes : parent'[n] = IF n = item THEN root ELSE parent[n]
  BY <1>1, <1>2
<1>10. Finds(R)'
  <2>1. R[parent[item]] = R[item]
    BY <1>2, <1>5 DEF Rooted
  <2>2. root_a # 0 => root_a \in Nodes /\ parent'[root_a] = root_a
    <3>1. root_a # 0 => root_a \in Nodes /\ parent[root_a] = root_a
      BY <1>6, ReductionTypes DEF Finds, ForestInv
    <3>2. QED
      BY <1>7, <1>9, <3>1
  <2>3. QED
    BY <1>1, <1>6, <2>1, <2>2 DEF Finds
<1>11. Chosen' = Chosen
  BY <1>1 DEF Chosen
<1>12. Kept(R)'
  BY <1>1, <1>4, <1>8, <1>10, <1>11 DEF Kept
<1>13. Roots(parent') = Roots(parent)
  <2>1. parent'[item] # item
    BY <1>1, <1>2, <1>7, <1>9
  <2>2. QED
    BY <1>7, <1>9, <2>1 DEF Roots
<1>14. Len(mst_edges') + Cardinality(Roots(parent')) = MaxNodes
  BY <1>1, <1>13 DEF ForestInv
<1>15. QED
  BY <1>1, <1>3, <1>12, <1>14 DEF ForestInv

LEMMA KeptOtherEnd ==
  ASSUME ForestInv, Reduction!OtherEnd
  PROVE  ForestInv'
<1>1. /\ reducing = "finding" /\ parent[root] = root /\ root_a = 0
      /\ root_a' = root /\ item' = edge.to /\ root' = edge.to
      /\ UNCHANGED <<relationships, reducing, sorted_edges, mst_edges, parent, edge,
                     visited, queue, ordered>>
  BY DEF Reduction!OtherEnd, Reduction!Found, Reduction!IsRoot, Reduction!walk
<1>2. item \in Nodes /\ root \in Nodes /\ edge.to \in Nodes
  BY ReductionTypes DEF ForestInv
<1>3. Reduction!TypeOK'
  BY <1>1, <1>2, NodesAreFinite DEF ForestInv, Reduction!TypeOK
<1>4. PICK R \in [Nodes -> Nodes] : Kept(R)
  BY DEF ForestInv
<1>5. Finds(R) /\ R[root] = root
  BY <1>1, <1>2, <1>4 DEF Kept, Rooted
<1>6. Finds(R)'
  <2>1. root # 0
    BY <1>2, NodesAreFinite DEF Nodes
  <2>2. R[edge.from] = root
    BY <1>1, <1>5 DEF Finds
  <2>3. QED
    BY <1>1, <1>5, <2>1, <2>2 DEF Finds
<1>7. Chosen' = Chosen
  BY <1>1 DEF Chosen
<1>8. Kept(R)'
  BY <1>1, <1>4, <1>6, <1>7 DEF Kept
<1>9. QED
  BY <1>1, <1>3, <1>8 DEF ForestInv

LEMMA Adding ==
  ASSUME NEW S, NEW s \in Seq(S), NEW x \in S
  PROVE  /\ Append(s, x) \in Seq(S) /\ Len(Append(s, x)) = Len(s) + 1
         /\ {Append(s, x)[i] : i \in DOMAIN Append(s, x)} = {s[i] : i \in DOMAIN s} \cup {x}
<1>1. /\ Append(s, x) \in Seq(S) /\ Len(s) \in Nat /\ Len(Append(s, x)) = Len(s) + 1
      /\ DOMAIN s = 1 .. Len(s) /\ DOMAIN Append(s, x) = 1 .. Len(s) + 1
      /\ \A i \in 1 .. Len(s) : Append(s, x)[i] = s[i]
      /\ Append(s, x)[Len(s) + 1] = x
  OBVIOUS
<1>2. \A i \in 1 .. Len(s) + 1 : i = Len(s) + 1 \/ i \in 1 .. Len(s)
  BY <1>1
<1>3. Len(s) + 1 \in 1 .. Len(s) + 1 /\ \A i \in 1 .. Len(s) : i \in 1 .. Len(s) + 1
  BY <1>1
<1> QED
  BY <1>1, <1>2, <1>3

LEMMA KeptUnion ==
  ASSUME ForestInv, Reduction!Union
  PROVE  ForestInv'
<1>1. /\ reducing = "finding" /\ parent[root] = root /\ root_a # 0 /\ reducing' = "edges"
      /\ sorted_edges' = sorted_edges \ {edge}
      /\ UNCHANGED <<relationships, edge, item, root, root_a, visited, queue, ordered>>
  BY DEF Reduction!Union, Reduction!Found, Reduction!IsRoot, Reduction!walk, Reduction!finding
<1>2. /\ item \in Nodes /\ root \in Nodes /\ root_a \in Nodes /\ edge.to \in Nodes
      /\ edge.from \in Nodes /\ parent \in [Nodes -> Nodes]
  BY <1>1, ReductionTypes DEF ForestInv
<1>3. PICK R \in [Nodes -> Nodes] : Kept(R)
  BY DEF ForestInv
<1>4. PICK A \in [Nodes -> SUBSET Nodes] : Rooted(parent, R, A)
  BY <1>3 DEF Kept
<1>5. /\ R[edge.from] = root_a /\ R[edge.to] = root /\ parent[root_a] = root_a
      /\ edge \in sorted_edges
  <2>1. Finds(R) /\ R[root] = root
    BY <1>1, <1>2, <1>3, <1>4 DEF Kept, Rooted
  <2>2. QED
    BY <1>1, <2>1 DEF Finds
<1>6. /\ edge \in relationships /\ edge \in Reduction!Relationship
      /\ mst_edges \in Seq(relationships) /\ Chosen \in SUBSET Reduction!Relationship
      /\ \A e \in relationships : e.from \in Nodes /\ e.to \in Nodes
  BY <1>5, ReductionTypes DEF ForestInv
<1>7. \A e \in relationships \ sorted_edges' :
        e = edge \/ e \in relationships \ sorted_edges
  BY <1>1
<1>8. CASE root_a = root
  <2>1. UNCHANGED <<mst_edges, parent>>
    BY <1>8 DEF Reduction!Union
  <2>2. Reduction!TypeOK'
    BY <1>1, <2>1, NodesAreFinite DEF ForestInv, Reduction!TypeOK
  <2>3. Chosen' = Chosen
    BY <2>1 DEF Chosen
  <2>4. \A e \in relationships \ sorted_edges' : R[e.from] = R[e.to]
    BY <1>3, <1>5, <1>7, <1>8 DEF Kept
  <2>5. Kept(R)'
    BY <1>1, <1>3, <2>1, <2>3, <2>4 DEF Kept
  <2>6. QED
    BY <1>1, <2>1, <2>2, <2>5 DEF ForestInv
<1>9. CASE root_a # root
  <2>1. mst_edges' = Append(mst_edges, edge) /\ parent' = [parent EXCEPT ![root_a] = root]
    BY <1>9 DEF Reduction!Union
  <2>2. /\ mst_edges' \in Seq(relationships) /\ Len(mst_edges') = Len(mst_edges) + 1
        /\ Chosen' = Chosen \cup {edge}
    <3>1. mst_edges \in Seq(relationships) /\ edge \in relationships
      BY <1>6
    <3>2. /\ Append(mst_edges, edge) \in Seq(relationships)
          /\ Len(Append(mst_edges, edge)) = Len(mst_edges) + 1
          /\ {Append(mst_edges, edge)[i] : i \in DOMAIN Append(mst_edges, edge)}
               = {mst_edges[i] : i \in DOMAIN mst_edges} \cup {edge}
      BY ONLY <3>1, Adding
    <3>3. QED
      BY <2>1, <3>2, Zenon DEF Chosen
  <2>3. parent' \in [Nodes -> Nodes]
    BY <1>2, <2>1
  <2>4. Reduction!TypeOK'
    BY <1>1, <2>2, <2>3, NodesAreFinite DEF ForestInv, Reduction!TypeOK
  <2>5. PICK R2 \in [Nodes -> Nodes] : \A n \in Nodes : R2[n] = IF R[n] = root_a THEN root ELSE R[n]
    <3> DEFINE F == [n \in Nodes |-> IF R[n] = root_a THEN root ELSE R[n]]
    <3>1. F \in [Nodes -> Nodes] /\ \A n \in Nodes : F[n] = IF R[n] = root_a THEN root ELSE R[n]
      BY <1>2
    <3>2. QED
      BY <3>1
  <2>6. \E A2 \in [Nodes -> SUBSET Nodes] : Rooted(parent', R2, A2)
    <3>1. /\ parent \in [Nodes -> Nodes] /\ root_a \in Nodes /\ root \in Nodes /\ root_a # root
          /\ parent[root_a] = root_a /\ parent[root] = root
      BY <1>1, <1>2, <1>5, <1>9
    <3>2. \E A2 \in [Nodes -> SUBSET Nodes] : Rooted([parent EXCEPT ![root_a] = root], R2, A2)
      BY <1>4, <2>5, <3>1, Attached
    <3>3. QED
      BY <2>1, <3>2
  <2>7. Agrees(R2, Chosen')
    <3>1. \A n \in Nodes : R2[n] = IF R[n] = R[edge.from] THEN R[edge.to] ELSE R[n]
      BY <1>5, <2>5
    <3>2. Agrees(R, Chosen)
      BY <1>3 DEF Kept
    <3>3. Agrees(R2, Chosen \cup {edge})
      BY <1>6, <3>1, <3>2, JoinedByEdge
    <3>4. QED
      BY <2>2, <3>3
  <2>8. \A e \in relationships \ sorted_edges' : R2[e.from] = R2[e.to]
    <3>1. R2[edge.from] = root /\ R2[edge.to] = root
      BY <1>2, <1>5, <1>9, <2>5
    <3>2. \A e \in relationships \ sorted_edges : R[e.from] = R[e.to] /\ e.from \in Nodes /\ e.to \in Nodes
      BY <1>3, <1>6 DEF Kept
    <3>3. QED
      BY <1>7, <2>5, <3>1, <3>2
  <2>9. Kept(R2)'
    BY <1>1, <2>6, <2>7, <2>8 DEF Kept
  <2>10. Len(mst_edges') + Cardinality(Roots(parent')) = MaxNodes
    <3>1. Roots(parent') = Roots(parent) \ {root_a}
      <4>1. \A n \in Nodes : parent'[n] = IF n = root_a THEN root ELSE parent[n]
        BY <1>2, <2>1
      <4>2. QED
        BY <1>9, <4>1 DEF Roots
    <3>2. IsFiniteSet(Roots(parent)) /\ root_a \in Roots(parent)
      <4>1. Roots(parent) \in SUBSET Nodes /\ root_a \in Roots(parent)
        BY <1>2, <1>5 DEF Roots
      <4>2. QED
        BY <4>1, FS_Subset, NodesAreFinite
    <3>3. Cardinality(Roots(parent')) = Cardinality(Roots(parent)) - 1
      BY <3>1, <3>2, FS_RemoveElement
    <3>4. Cardinality(Roots(parent)) \in Nat /\ Len(mst_edges) \in Nat
      BY <1>6, <3>2, FS_CardinalityType
    <3>5. QED
      BY <2>2, <3>3, <3>4 DEF ForestInv
  <2>11. QED
    BY <1>1, <2>4, <2>9, <2>10 DEF ForestInv
<1>10. QED
  BY <1>8, <1>9

-----------------------------------------------------------------------------
(* The reduction: a spanning forest                                        *)

LEMMA SameCardinality == \A S : Reduction!Cardinality(S) = Cardinality(S)
BY Zenon DEF Reduction!Cardinality, Cardinality

LEMMA TreesAreSets ==
  ASSUME ForestInv
  PROVE  Reduction!SetsAreTrees
<1>1. PICK R \in [Nodes -> Nodes] : Kept(R)
  BY DEF ForestInv
<1>2. PICK A \in [Nodes -> SUBSET Nodes] : Rooted(parent, R, A)
  BY <1>1 DEF Kept
<1>3. \A n \in Nodes : Reduction!RootOf(n) = R[n]
  BY <1>2, RootsFound, ReductionTypes DEF ForestInv
<1>4. \A n \in Nodes : Reduction!IsRoot(Reduction!RootOf(n))
  BY <1>2, <1>3 DEF Rooted, Reduction!IsRoot
<1>5. Agrees(R, Chosen) /\ Reduction!Range(mst_edges) = Chosen /\ Reduction!node_ids = Nodes
  BY <1>1, ReductionTypes, NodesAreFinite DEF Kept, ForestInv
<1>6. QED
  BY <1>3, <1>4, <1>5 DEF Reduction!SetsAreTrees, Agrees

\* Each tree has one root.
LEMMA CountTrees ==
  ASSUME NEW R \in [Nodes -> Nodes], NEW p \in [Nodes -> Nodes],
         NEW A \in [Nodes -> SUBSET Nodes], Rooted(p, R, A),
         NEW E \in SUBSET Reduction!Relationship, Agrees(R, E)
  PROVE  Cardinality(Reduction!Trees(E)) = Cardinality(Roots(p))
<1> DEFINE J == [r \in Roots(p) |-> Reduction!Joined(E, r)]
<1>1. \A n \in Nodes : /\ n \in Reduction!Joined(E, n) /\ Reduction!Joined(E, n) \in SUBSET Nodes
                       /\ \A m \in Nodes : m \in Reduction!Joined(E, n) <=> R[n] = R[m]
  BY Connected DEF Agrees
<1>2. \A r \in Roots(p) : r \in Nodes /\ R[r] = r
  BY DEF Roots, Rooted
<1>3. \A n \in Nodes : R[n] \in Roots(p) /\ R[R[n]] = R[n]
  BY DEF Roots, Rooted
<1>4. J \in Injection(Roots(p), Reduction!Trees(E))
  <2>1. ASSUME NEW r \in Roots(p) PROVE J[r] \in Reduction!Trees(E)
    BY <1>2, NodesAreFinite DEF Reduction!Trees
  <2>2. ASSUME NEW r \in Roots(p), NEW s \in Roots(p), J[r] = J[s] PROVE r = s
    <3>1. s \in Reduction!Joined(E, r)
      BY <1>1, <1>2, <2>2
    <3>2. QED
      BY <1>1, <1>2, <3>1
  <2>3. J \in [Roots(p) -> Reduction!Trees(E)]
    BY <2>1
  <2> HIDE DEF J
  <2>4. QED
    BY <2>2, <2>3, Zenon DEF Injection, IsInjective
<1>5. J \in Surjection(Roots(p), Reduction!Trees(E))
  <2>1. ASSUME NEW T \in Reduction!Trees(E) PROVE \E r \in Roots(p) : J[r] = T
    <3>1. PICK n \in Nodes : T = Reduction!Joined(E, n)
      BY NodesAreFinite DEF Reduction!Trees
    <3>2. Reduction!Joined(E, R[n]) = Reduction!Joined(E, n)
      <4>1. R[n] \in Nodes
        OBVIOUS
      <4>2. \A m \in Nodes : m \in Reduction!Joined(E, R[n]) <=> m \in Reduction!Joined(E, n)
        BY <1>1, <1>3, <4>1
      <4>3. QED
        BY <1>1, <4>1, <4>2
    <3>3. R[n] \in Roots(p)
      BY <1>3
    <3>4. QED
      BY <3>1, <3>2, <3>3
  <2>2. J \in [Roots(p) -> Reduction!Trees(E)]
    BY <1>4 DEF Injection
  <2> HIDE DEF J
  <2>3. QED
    BY <2>1, <2>2 DEF Surjection
<1>6. Roots(p) \in SUBSET Nodes /\ IsFiniteSet(Roots(p))
  <2>1. Roots(p) \in SUBSET Nodes
    BY DEF Roots
  <2>2. QED
    BY <2>1, FS_Subset, NodesAreFinite
<1>7. ExistsBijection(Roots(p), Reduction!Trees(E))
  BY <1>4, <1>5 DEF ExistsBijection, Bijection
<1>8. QED
  BY <1>6, <1>7, FS_Bijection

LEMMA ForestSpans ==
  ASSUME ForestInv
  PROVE  Reduction!IsSpanningForest
<1>1. PICK R \in [Nodes -> Nodes] : Kept(R)
  BY DEF ForestInv
<1>2. PICK A \in [Nodes -> SUBSET Nodes] : Rooted(parent, R, A)
  BY <1>1 DEF Kept
<1>3. /\ Agrees(R, Chosen) /\ Reduction!Range(mst_edges) = Chosen /\ Reduction!node_ids = Nodes
      /\ Chosen \in SUBSET relationships
      /\ relationships \in SUBSET Reduction!Relationship /\ parent \in [Nodes -> Nodes]
      /\ \A e \in relationships : e.from \in Nodes /\ e.to \in Nodes
  <2>1. mst_edges \in Seq(relationships)
    BY ReductionTypes DEF ForestInv
  <2>2. Chosen \in SUBSET relationships
    BY <2>1 DEF Chosen
  <2>3. QED
    BY <1>1, <2>2, ReductionTypes, NodesAreFinite DEF Kept, ForestInv
<1>4. Chosen \in SUBSET Reduction!Relationship
  BY <1>3
<1>5. Cardinality(Reduction!Trees(Chosen)) = Cardinality(Roots(parent))
  BY <1>2, <1>3, <1>4, CountTrees
<1>6. Len(mst_edges) + Cardinality(Roots(parent)) = MaxNodes
  BY DEF ForestInv
<1>7. {Reduction!RootOf(n) : n \in Nodes} = Roots(parent)
  <2>1. \A n \in Nodes : Reduction!RootOf(n) = R[n]
    BY <1>2, <1>3, RootsFound
  <2>2. \A n \in Nodes : R[n] \in Roots(parent) /\ (n \in Roots(parent) => R[n] = n)
    BY <1>2 DEF Rooted, Roots
  <2>3. Roots(parent) \subseteq Nodes
    BY DEF Roots
  <2>4. QED
    BY <2>1, <2>2, <2>3
<1>8. ASSUME reducing \in {"walking", "done"}
      PROVE  Reduction!Trees(Chosen) = Reduction!Trees(relationships)
  <2>1. \A e \in relationships : R[e.from] = R[e.to]
    BY <1>1, <1>8 DEF Kept, ForestInv
  <2>2. ASSUME NEW n \in Nodes PROVE Reduction!Joined(relationships, n) = Reduction!Joined(Chosen, n)
    <3> DEFINE C == Reduction!Joined(Chosen, n)
               B == Reduction!Joined(relationships, n)
    <3>1. /\ n \in C /\ C \in SUBSET Nodes
          /\ \A m \in Nodes : m \in C <=> R[n] = R[m]
          /\ \A S \in SUBSET Nodes : n \in S /\ Closed(Chosen, S) => C \subseteq S
      BY <1>3, <1>4, Connected DEF Agrees
    <3>2. /\ n \in B /\ B \in SUBSET Nodes /\ Closed(relationships, B)
          /\ \A S \in SUBSET Nodes : n \in S /\ Closed(relationships, S) => B \subseteq S
      BY <1>3, Connected
    <3> HIDE DEF B, C
    <3>3. Closed(relationships, C)
      BY <1>3, <2>1, <3>1 DEF Closed
    <3>4. Closed(Chosen, B)
      BY <1>3, <3>2 DEF Closed
    <3>5. B \subseteq C /\ C \subseteq B
      BY <3>1, <3>2, <3>3, <3>4
    <3>6. QED
      BY <3>5 DEF B, C
  <2>3. QED
    BY <1>3, <2>2 DEF Reduction!Trees
<1>9. QED
  BY <1>3, <1>5, <1>6, <1>7, <1>8, SameCardinality DEF Reduction!IsSpanningForest

-----------------------------------------------------------------------------
(* The reduction: the order of the walk                                    *)

\* What the walk needs to know of the forest: the first table of each tree, the
\* depths below it and the neighbors.
Shape(F, D, Adj) ==
  \A n \in Nodes :
    /\ F[n] \in Nodes /\ F[F[n]] = F[n] /\ F[n] <= n /\ (D[n] = 0 => n = F[n])
    /\ D[n] # 0 => \E p \in Adj[n] : D[p] < D[n]
    /\ \A m \in Adj[n] : n \in Adj[m] /\ F[m] = F[n] /\ D[m] <= D[n] + 1

Firsts == [n \in Nodes |-> Reduction!FirstOf(n)]
Depths == [n \in Nodes |-> Reduction!Depth(n)]
Neighbors == [n \in Nodes |-> Reduction!adjacency(n)]

LEMMA DepthIs ==
  ASSUME ForestInv, NEW n \in Nodes
  PROVE  /\ Reduction!FirstOf(n) \in Nodes
         /\ Reduction!Depth(n) \in 0 .. MaxNodes
         /\ n \in Reduction!Within(Chosen, Reduction!FirstOf(n))[Reduction!Depth(n)]
         /\ \A k \in 0 .. MaxNodes : n \in Reduction!Within(Chosen, Reduction!FirstOf(n))[k] =>
              Reduction!Depth(n) <= k
         /\ Reduction!FirstOf(n) <= n
         /\ \A m \in Reduction!Joined(Chosen, n) : Reduction!FirstOf(m) = Reduction!FirstOf(n)
         /\ Reduction!FirstOf(n) \in Reduction!Joined(Chosen, n)
<1>1. PICK R \in [Nodes -> Nodes] : Kept(R)
  BY DEF ForestInv
<1>2. /\ Agrees(R, Chosen) /\ Reduction!Range(mst_edges) = Chosen
      /\ Chosen \in SUBSET Reduction!Relationship /\ MaxNodes \in Nat
  BY <1>1, ReductionTypes, NodesAreFinite DEF Kept, ForestInv
<1>3. \A m \in Nodes : /\ m \in Reduction!Joined(Chosen, m)
                       /\ Reduction!Joined(Chosen, m) \in SUBSET Nodes
                       /\ \A x \in Nodes : x \in Reduction!Joined(Chosen, m) <=> R[m] = R[x]
  BY <1>2, Connected DEF Agrees
<1>4. \A m \in Nodes : /\ Reduction!FirstOf(m) = Reduction!Min(Reduction!Joined(Chosen, m))
                       /\ Reduction!FirstOf(m) \in Reduction!Joined(Chosen, m)
                       /\ Reduction!FirstOf(m) \in Nodes /\ Reduction!FirstOf(m) <= m
  <2>1. TAKE m \in Nodes
  <2>2. Reduction!FirstOf(m) = Reduction!Min(Reduction!Joined(Chosen, m))
    BY <1>2 DEF Reduction!FirstOf
  <2>3. Reduction!Joined(Chosen, m) \in SUBSET Nodes /\ m \in Reduction!Joined(Chosen, m)
    BY <1>3
  <2>4. QED
    BY <2>2, <2>3, Extremes
<1>5. ASSUME NEW m \in Reduction!Joined(Chosen, n)
      PROVE  Reduction!FirstOf(m) = Reduction!FirstOf(n)
  <2>1. m \in Nodes /\ R[m] = R[n]
    BY <1>3
  <2>2. \A x \in Nodes : x \in Reduction!Joined(Chosen, m) <=> x \in Reduction!Joined(Chosen, n)
    BY <1>3, <2>1
  <2>3. Reduction!Joined(Chosen, m) = Reduction!Joined(Chosen, n)
    BY <1>3, <2>1, <2>2
  <2>4. QED
    BY <1>4, <2>1, <2>3
<1> DEFINE f == Reduction!FirstOf(n)
           K == {k \in 0 .. MaxNodes : n \in Reduction!Within(Chosen, f)[k]}
<1>6. f \in Nodes /\ R[n] = R[f]
  BY <1>3, <1>4
<1>7. MaxNodes \in K
  <2>1. n \in Reduction!Joined(Chosen, f)
    BY <1>3, <1>6
  <2>2. n \in Reduction!Within(Chosen, f)[MaxNodes]
    BY <1>2, <1>6, <2>1, Connected
  <2> HIDE DEF f
  <2>3. QED
    BY <1>2, <2>2
<1>8. K \in SUBSET Nat /\ K # {}
  BY <1>7
<1>9. Reduction!Depth(n) = Reduction!Min(K)
  BY <1>2 DEF Reduction!Depth
<1>10. \E k \in K : \A x \in K : k <= x
  <2> HIDE DEF K
  <2> QED
    BY <1>8, LeastNumber
<1>11. Reduction!Depth(n) \in K /\ \A x \in K : Reduction!Depth(n) <= x
  <2> HIDE DEF K
  <2>1. Reduction!Depth(n) = CHOOSE k \in K : \A x \in K : k <= x
    BY <1>9 DEF Reduction!Min
  <2>2. QED
    BY <1>10, <2>1
<1>12. QED
  BY <1>4, <1>5, <1>11

LEMMA ForestShape ==
  ASSUME ForestInv
  PROVE  /\ Firsts \in [Nodes -> Nodes] /\ Depths \in [Nodes -> Nat]
         /\ Neighbors \in [Nodes -> SUBSET Nodes]
         /\ Shape(Firsts, Depths, Neighbors)
<1>1. /\ Reduction!node_ids = Nodes /\ MaxNodes \in Nat
      /\ Reduction!Range(mst_edges) = Chosen /\ Chosen \in SUBSET Reduction!Relationship
      /\ \A e \in Chosen : e.from \in Nodes /\ e.to \in Nodes
  BY ReductionTypes, NodesAreFinite DEF ForestInv
<1>2. \A n, m \in Nodes :
        m \in Reduction!adjacency(n) <=>
          \E e \in Chosen : (e.from = n /\ e.to = m) \/ (e.from = m /\ e.to = n)
  BY <1>1 DEF Reduction!adjacency, Chosen
<1>3. \A n \in Nodes : Reduction!adjacency(n) \in SUBSET Nodes
  BY <1>1 DEF Reduction!adjacency
<1>4. /\ Firsts \in [Nodes -> Nodes] /\ Depths \in [Nodes -> Nat]
      /\ Neighbors \in [Nodes -> SUBSET Nodes]
  BY <1>1, <1>3, DepthIs DEF Firsts, Depths, Neighbors
<1>5. \A n \in Nodes : /\ Firsts[n] = Reduction!FirstOf(n) /\ Depths[n] = Reduction!Depth(n)
                       /\ Neighbors[n] = Reduction!adjacency(n)
  BY DEF Firsts, Depths, Neighbors
<1>6. ASSUME NEW n \in Nodes, NEW m \in Reduction!adjacency(n)
      PROVE  /\ m \in Nodes /\ n \in Reduction!adjacency(m)
             /\ Reduction!FirstOf(m) = Reduction!FirstOf(n)
             /\ Reduction!Depth(m) <= Reduction!Depth(n) + 1
  <2> DEFINE f == Reduction!FirstOf(n)
             d == Reduction!Depth(n)
             W == Reduction!Within(Chosen, f)
  <2>1. m \in Nodes /\ n \in Reduction!adjacency(m)
    BY <1>2, <1>3
  <2>2. PICK e \in Chosen : (e.from = n /\ e.to = m) \/ (e.from = m /\ e.to = n)
    BY <1>2, <2>1
  <2>3. Reduction!FirstOf(m) = f
    <3>1. m \in Reduction!Joined(Chosen, n)
      BY <1>1, <2>1, <2>2, Connected DEF Closed
    <3>2. QED
      BY <3>1, DepthIs
  <2>4. f \in Nodes /\ d \in 0 .. MaxNodes /\ n \in W[d]
    BY <1>1, DepthIs
  <2>5. CASE d = MaxNodes
    <3>1. Reduction!Depth(m) \in 0 .. MaxNodes
      BY <2>1, DepthIs
    <3> HIDE DEF d
    <3>2. QED
      BY <1>1, <2>1, <2>3, <2>5, <3>1 DEF d
  <2>6. CASE d # MaxNodes
    <3> HIDE DEF d, f
    <3>1. d + 1 \in 0 .. MaxNodes /\ d + 1 \in 1 .. MaxNodes /\ (d + 1) - 1 = d
      BY <1>1, <2>4, <2>6
    <3>2. W[d + 1] = NearTo(Chosen, W[d])
      BY <2>4, <3>1, WithinRecurs
    <3>3. m \in W[d + 1]
      BY <2>1, <2>2, <2>4, <3>2 DEF NearTo
    <3>4. Reduction!Depth(m) <= d + 1
      BY <2>1, <2>3, <3>1, <3>3, DepthIs
    <3>5. QED
      BY <2>1, <2>3, <3>4 DEF d, f
  <2>7. QED
    BY <2>5, <2>6
<1>7. ASSUME NEW n \in Nodes
      PROVE  /\ Reduction!FirstOf(Reduction!FirstOf(n)) = Reduction!FirstOf(n)
             /\ Reduction!Depth(n) = 0 => n = Reduction!FirstOf(n)
             /\ Reduction!Depth(n) # 0 =>
                  \E p \in Reduction!adjacency(n) : Reduction!Depth(p) < Reduction!Depth(n)
  <2> DEFINE f == Reduction!FirstOf(n)
             d == Reduction!Depth(n)
             W == Reduction!Within(Chosen, f)
  <2>1. /\ f \in Nodes /\ d \in 0 .. MaxNodes /\ n \in W[d]
        /\ \A k \in 0 .. MaxNodes : n \in W[k] => d <= k
        /\ Reduction!FirstOf(f) = f
    BY DepthIs
  <2>2. d = 0 => n = f
    BY <2>1, WithinRecurs
  <2>3. ASSUME d # 0 PROVE \E p \in Reduction!adjacency(n) : Reduction!Depth(p) < d
    <3> HIDE DEF d, f
    <3>1. d \in 1 .. MaxNodes /\ d - 1 \in 0 .. MaxNodes /\ ~(d <= d - 1) /\ d \in Nat
      BY <1>1, <2>1, <2>3
    <3>2. W[d] = NearTo(Chosen, W[d - 1]) /\ W[d - 1] \in SUBSET Nodes /\ n \notin W[d - 1]
      BY <2>1, <3>1, WithinRecurs, WithinTypes
    <3>3. PICK p \in W[d - 1] : p \in Nodes /\ p \in Reduction!adjacency(n)
      BY <1>2, <2>1, <3>2 DEF NearTo
    <3>4. Reduction!FirstOf(p) = f
      BY <1>6, <3>3 DEF f
    <3>5. Reduction!Depth(p) <= d - 1 /\ Reduction!Depth(p) \in 0 .. MaxNodes
      BY <3>1, <3>3, <3>4, DepthIs
    <3>6. Reduction!Depth(p) < d
      BY <1>1, <3>1, <3>5
    <3>7. QED
      BY <3>3, <3>6
  <2>4. QED
    BY <2>1, <2>2, <2>3
<1>8. \A n \in Nodes : Reduction!FirstOf(n) \in Nodes /\ Reduction!FirstOf(n) <= n
  BY DepthIs
<1>9. Shape(Firsts, Depths, Neighbors)
  BY <1>3, <1>5, <1>6, <1>7, <1>8 DEF Shape
<1>10. QED
  BY <1>4, <1>9

Before(F, D, a, b) == F[a] < F[b] \/ (F[a] = F[b] /\ D[a] <= D[b])

\* P is a line of L tables that have been met, V as a set, the first c of them
\* visited: the line is in order, its rest spans two levels of one tree, what is
\* next to a visited table is in it, and its trees come before all others.
Line(V, P, c, L, F, D, Adj) ==
  /\ P \in [1 .. L -> Nodes] /\ c \in 0 .. L /\ L \in Nat
  /\ V = {P[i] : i \in 1 .. L}
  /\ \A i, j \in 1 .. L : i < j => P[i] # P[j] /\ Before(F, D, P[i], P[j])
  /\ \A i \in 1 .. c : Adj[P[i]] \subseteq V
  /\ \A i, j \in c + 1 .. L : F[P[i]] = F[P[j]] /\ D[P[i]] <= D[P[j]] + 1
  /\ \A v \in V : F[v] \in V /\ \A u \in Nodes \ V : F[v] <= u

\* A property of all nodes follows along their depth.
LEMMA ByDepth ==
  ASSUME NEW D \in [Nodes -> Nat], NEW S,
         \A n \in Nodes : (\A m \in Nodes : D[m] < D[n] => m \in S) => n \in S
  PROVE  Nodes \subseteq S
<1> DEFINE T == {k \in Nat : \A n \in Nodes : D[n] < k => n \in S}
<1>1. 0 \in T
  OBVIOUS
<1>2. ASSUME NEW k \in T PROVE k + 1 \in T
  <2>1. k \in Nat /\ \A n \in Nodes : D[n] < k => n \in S
    OBVIOUS
  <2>2. SUFFICES ASSUME NEW n \in Nodes, D[n] < k + 1 PROVE n \in S
    BY <2>1
  <2>3. \A m \in Nodes : D[m] < D[n] => D[m] < k
    BY <2>1, <2>2
  <2>4. QED
    BY <2>1, <2>3
<1>3. T = Nat
  <2>1. T \in SUBSET Nat
    OBVIOUS
  <2> HIDE DEF T
  <2>2. QED
    BY <1>1, <1>2, <2>1, Induction
<1>4. ASSUME NEW n \in Nodes PROVE n \in S
  <2>1. D[n] + 1 \in T /\ D[n] < D[n] + 1
    <3> HIDE DEF T
    <3> QED
      BY <1>3
  <2>2. QED
    BY <2>1
<1>5. QED
  BY <1>4

LEMMA LineStarts ==
  ASSUME NEW F \in [Nodes -> Nodes], NEW D \in [Nodes -> Nat], NEW Adj \in [Nodes -> SUBSET Nodes],
         Shape(F, D, Adj), NEW V \in SUBSET Nodes, NEW P, NEW L, Line(V, P, L, L, F, D, Adj),
         NEW x \in Nodes \ V, \A u \in Nodes \ V : x <= u,
         NEW Q \in [1 .. L + 1 -> Nodes], \A i \in 1 .. L : Q[i] = P[i], Q[L + 1] = x
  PROVE  Line(V \cup {x}, Q, L, L + 1, F, D, Adj)
<1>1. /\ P \in [1 .. L -> Nodes] /\ L \in Nat /\ L \in 0 .. L + 1
      /\ \A i \in 1 .. L + 1 : i \in 1 .. L \/ i = L + 1
      /\ \A i \in 1 .. L : i \in 1 .. L + 1 /\ i # L + 1
      /\ L + 1 \in 1 .. L + 1
  BY DEF Line
<1>2. /\ V = {P[i] : i \in 1 .. L}
      /\ \A i, j \in 1 .. L : i < j => P[i] # P[j] /\ Before(F, D, P[i], P[j])
      /\ \A v \in V : F[v] \in V /\ Adj[v] \subseteq V /\ \A u \in Nodes \ V : F[v] <= u
  BY DEF Line
<1>3. \A n \in Nodes : n \in Nat
  BY NodesAreFinite DEF Nodes
<1>4. \A n \in Nodes : F[n] \in V => n \in V
  <2> DEFINE S == {n \in Nodes : F[n] \in V => n \in V}
  <2>1. ASSUME NEW n \in Nodes, \A m \in Nodes : D[m] < D[n] => m \in S PROVE n \in S
    <3>1. SUFFICES ASSUME F[n] \in V PROVE n \in V
      OBVIOUS
    <3>2. CASE D[n] = 0
      BY <3>1, <3>2 DEF Shape
    <3>3. CASE D[n] # 0
      <4>1. PICK p \in Adj[n] : D[p] < D[n]
        BY <3>3 DEF Shape
      <4>2. p \in Nodes /\ F[p] = F[n] /\ n \in Adj[p]
        BY DEF Shape
      <4>3. p \in V
        BY <2>1, <3>1, <4>1, <4>2
      <4>4. QED
        BY <1>2, <4>2, <4>3
    <3>4. QED
      BY <3>2, <3>3
  <2>2. Nodes \subseteq S
    <3> HIDE DEF S
    <3> QED
      BY <2>1, ByDepth
  <2>3. QED
    BY <2>2
<1>5. F[x] = x
  <2>1. F[x] \in Nodes /\ F[x] <= x
    BY DEF Shape
  <2>2. F[x] \notin V
    BY <1>4
  <2>3. x <= F[x]
    BY <2>1, <2>2
  <2>4. QED
    BY <1>3, <2>1, <2>3
<1>6. V \cup {x} = {Q[i] : i \in 1 .. L + 1}
  BY <1>1, <1>2
<1>7. ASSUME NEW i \in 1 .. L + 1, NEW j \in 1 .. L + 1, i < j
      PROVE  Q[i] # Q[j] /\ Before(F, D, Q[i], Q[j])
  <2>1. i \in 1 .. L
    BY <1>1, <1>7
  <2>2. CASE j \in 1 .. L
    BY <1>2, <1>7, <2>1, <2>2
  <2>3. CASE j = L + 1
    <3>1. P[i] \in V /\ Q[i] = P[i] /\ Q[j] = x
      BY <1>2, <2>1, <2>3
    <3>2. F[P[i]] \in V /\ F[P[i]] <= x
      BY <1>2, <3>1
    <3>3. F[P[i]] < x
      BY <1>3, <3>2
    <3>4. QED
      BY <1>5, <3>1, <3>3 DEF Before
  <2>4. QED
    BY <1>1, <2>2, <2>3
<1>8. \A i \in 1 .. L : Adj[Q[i]] \subseteq V \cup {x}
  BY <1>2
<1>9. ASSUME NEW i \in L + 1 .. L + 1, NEW j \in L + 1 .. L + 1
      PROVE  F[Q[i]] = F[Q[j]] /\ D[Q[i]] <= D[Q[j]] + 1
  <2>1. i = L + 1 /\ j = L + 1 /\ D[x] \in Nat
    BY <1>1
  <2>2. QED
    BY <2>1
<1>10. \A v \in V \cup {x} :
         F[v] \in V \cup {x} /\ \A u \in Nodes \ (V \cup {x}) : F[v] <= u
  BY <1>2, <1>5
<1>11. L + 1 \in Nat
  BY <1>1
<1>12. QED
  BY <1>1, <1>6, <1>7, <1>8, <1>9, <1>10, <1>11 DEF Line

LEMMA LineGoesOn ==
  ASSUME NEW F \in [Nodes -> Nodes], NEW D \in [Nodes -> Nat], NEW Adj \in [Nodes -> SUBSET Nodes],
         Shape(F, D, Adj), NEW V \in SUBSET Nodes, NEW P, NEW c, NEW L, Line(V, P, c, L, F, D, Adj),
         c < L, NEW X, X = Adj[P[c + 1]] \ V, NEW K \in Nat,
         NEW Q \in [1 .. L + K -> Nodes], \A i \in 1 .. L : Q[i] = P[i],
         \A i \in 1 .. K : Q[L + i] \in X,
         \A i, j \in 1 .. K : i # j => Q[L + i] # Q[L + j],
         \A x \in X : \E i \in 1 .. K : Q[L + i] = x
  PROVE  Line(V \cup X, Q, c + 1, L + K, F, D, Adj)
<1> DEFINE h == P[c + 1]
<1>1. /\ P \in [1 .. L -> Nodes] /\ L \in Nat /\ c \in Nat /\ c + 1 \in 1 .. L /\ h \in Nodes
      /\ c + 1 \in 0 .. L + K /\ L + K \in Nat /\ D[h] \in Nat
  BY DEF Line
<1>2. \A i \in 1 .. L + K : i \in 1 .. L \/ \E k \in 1 .. K : i = L + k
  <2>1. ASSUME NEW i \in 1 .. L + K, i \notin 1 .. L PROVE i - L \in 1 .. K /\ i = L + (i - L)
    BY <1>1, <2>1
  <2>2. QED
    BY <2>1
<1>3. /\ \A i \in 1 .. L : i \in 1 .. L + K
      /\ \A k \in 1 .. K : L + k \in 1 .. L + K /\ L + k \notin 1 .. L
  BY <1>1
<1>4. /\ V = {P[i] : i \in 1 .. L} /\ h \in V
      /\ \A i, j \in 1 .. L : i < j => P[i] # P[j] /\ Before(F, D, P[i], P[j])
      /\ \A i \in 1 .. c : Adj[P[i]] \subseteq V
      /\ \A i, j \in c + 1 .. L : F[P[i]] = F[P[j]] /\ D[P[i]] <= D[P[j]] + 1
      /\ \A v \in V : F[v] \in V /\ \A u \in Nodes \ V : F[v] <= u
  BY <1>1 DEF Line
<1> HIDE DEF h
<1>5. \A p \in V : F[p] = F[h] /\ D[p] < D[h] => \E i \in 1 .. c : P[i] = p
  <2>1. SUFFICES ASSUME NEW i \in 1 .. L, F[P[i]] = F[h], D[P[i]] < D[h] PROVE i \in 1 .. c
    BY <1>4
  <2>2. SUFFICES ASSUME i \notin 1 .. c PROVE FALSE
    OBVIOUS
  <2>3. i = c + 1 \/ c + 1 < i
    BY <1>1, <2>2
  <2>4. D[P[i]] \in Nat /\ F[P[i]] \in Nat
    BY <1>1 DEF Nodes
  <2>5. CASE i = c + 1
    BY <1>1, <2>1, <2>5 DEF h
  <2>6. CASE c + 1 < i
    <3>1. Before(F, D, h, P[i])
      BY <1>1, <1>4, <2>6 DEF h
    <3>2. QED
      BY <1>1, <2>1, <2>4, <3>1 DEF Before
  <2>7. QED
    BY <2>3, <2>5, <2>6
<1>6. \A p \in Nodes : F[p] = F[h] /\ D[p] < D[h] => \E i \in 1 .. c : P[i] = p
  <2> DEFINE S == {p \in Nodes : F[p] = F[h] /\ D[p] < D[h] => \E i \in 1 .. c : P[i] = p}
  <2>1. ASSUME NEW p \in Nodes, \A m \in Nodes : D[m] < D[p] => m \in S PROVE p \in S
    <3>1. SUFFICES ASSUME F[p] = F[h], D[p] < D[h] PROVE \E i \in 1 .. c : P[i] = p
      OBVIOUS
    <3>2. p \in V
      <4>1. CASE D[p] = 0
        BY <1>4, <3>1, <4>1 DEF Shape
      <4>2. CASE D[p] # 0
        <5>1. PICK q \in Adj[p] : D[q] < D[p]
          BY <4>2 DEF Shape
        <5>2. q \in Nodes /\ F[q] = F[p] /\ p \in Adj[q] /\ D[q] \in Nat /\ D[p] \in Nat
          BY DEF Shape
        <5>3. D[q] < D[h]
          BY <1>1, <3>1, <5>1, <5>2
        <5>4. \E i \in 1 .. c : P[i] = q
          BY <2>1, <3>1, <5>1, <5>2, <5>3
        <5>5. QED
          BY <1>4, <5>2, <5>4
      <4>3. QED
        BY <4>1, <4>2
    <3>3. QED
      BY <1>5, <3>1, <3>2
  <2>2. Nodes \subseteq S
    <3> HIDE DEF S
    <3> QED
      BY <2>1, ByDepth
  <2>3. QED
    BY <2>2
<1>7. ASSUME NEW m \in X PROVE m \in Nodes /\ m \notin V /\ F[m] = F[h] /\ D[m] = D[h] + 1
  <2>1. m \in Adj[h] /\ m \notin V
    BY DEF h
  <2>2. m \in Nodes /\ F[m] = F[h] /\ D[m] <= D[h] + 1 /\ D[m] \in Nat
    BY <1>1, <2>1 DEF Shape
  <2>3. ASSUME D[m] <= D[h] PROVE FALSE
    <3>1. D[m] # 0
      BY <1>4, <2>1, <2>2 DEF Shape
    <3>2. PICK q \in Adj[m] : D[q] < D[m]
      BY <2>2, <3>1 DEF Shape
    <3>3. q \in Nodes /\ F[q] = F[h] /\ m \in Adj[q] /\ D[q] \in Nat
      BY <2>2 DEF Shape
    <3>4. D[q] < D[h]
      BY <1>1, <2>2, <2>3, <3>2, <3>3
    <3>5. \E i \in 1 .. c : P[i] = q
      BY <1>6, <3>3, <3>4
    <3>6. QED
      BY <1>4, <2>1, <3>3, <3>5
  <2>4. QED
    BY <1>1, <2>1, <2>2, <2>3
<1>8. V \cup X = {Q[i] : i \in 1 .. L + K}
  <2>1. ASSUME NEW y \in V \cup X PROVE \E i \in 1 .. L + K : y = Q[i]
    <3>1. CASE y \in V
      <4>1. PICK i \in 1 .. L : y = P[i]
        BY <1>4, <3>1
      <4>2. i \in 1 .. L + K /\ Q[i] = y
        BY <1>3, <4>1
      <4>3. QED
        BY <4>2
    <3>2. CASE y \in X
      <4>1. PICK k \in 1 .. K : Q[L + k] = y
        BY <3>2
      <4>2. L + k \in 1 .. L + K
        BY <1>3
      <4>3. QED
        BY <4>1, <4>2
    <3>3. QED
      BY <3>1, <3>2
  <2>2. ASSUME NEW i \in 1 .. L + K PROVE Q[i] \in V \cup X
    <3>1. CASE i \in 1 .. L
      <4>1. Q[i] = P[i] /\ P[i] \in V
        BY <1>4, <3>1
      <4>2. QED
        BY <4>1
    <3>2. CASE \E k \in 1 .. K : i = L + k
      <4>1. PICK k \in 1 .. K : i = L + k
        BY <3>2
      <4>2. Q[L + k] \in X
        OBVIOUS
      <4>3. QED
        BY <4>1, <4>2
    <3>3. QED
      BY <1>2, <3>1, <3>2
  <2>3. QED
    BY <2>1, <2>2
\* The depths of what waits.
<1>9. ASSUME NEW i \in c + 1 .. L + K
      PROVE  F[Q[i]] = F[h] /\ D[h] <= D[Q[i]] /\ D[Q[i]] <= D[h] + 1 /\ D[Q[i]] \in Nat
  <2>1. i \in 1 .. L + K
    BY <1>1
  <2>2. CASE i \in 1 .. L
    <3>0. i \in c + 1 .. L /\ c + 1 \in c + 1 .. L /\ P[i] \in Nodes
      BY <1>1, <2>2
    <3>1. /\ Q[i] = P[i] /\ i \in c + 1 .. L /\ c + 1 \in c + 1 .. L
          /\ D[P[i]] \in Nat /\ F[h] \in Nat
      <4>1. F[h] \in Nodes /\ D[P[i]] \in Nat /\ Q[i] = P[i]
        BY <1>1, <2>2, <3>0
      <4>2. \A n \in Nodes : n \in Nat
        BY NodesAreFinite DEF Nodes
      <4>3. QED
        BY <3>0, <4>1, <4>2
    <3>2. F[P[i]] = F[h] /\ D[P[i]] <= D[h] + 1
      BY <1>4, <3>1 DEF h
    <3>3. i = c + 1 \/ Before(F, D, h, P[i])
      <4>1. i = c + 1 \/ c + 1 < i
        BY <1>1, <3>1
      <4>2. QED
        BY <1>1, <1>4, <2>2, <4>1 DEF h
    <3>4. D[h] <= D[P[i]]
      BY <1>1, <3>1, <3>2, <3>3 DEF Before, h
    <3>5. QED
      BY <3>1, <3>2, <3>4
  <2>3. CASE \E k \in 1 .. K : i = L + k
    <3>1. Q[i] \in X
      BY <2>3
    <3>2. QED
      BY <1>1, <1>7, <3>1
  <2>4. QED
    BY <1>2, <2>1, <2>2, <2>3
<1>10. ASSUME NEW i \in 1 .. L + K, NEW j \in 1 .. L + K, i < j
       PROVE  Q[i] # Q[j] /\ Before(F, D, Q[i], Q[j])
  <2>1. CASE j \in 1 .. L
    <3>1. i \in 1 .. L
      BY <1>1, <1>10, <2>1
    <3>2. QED
      BY <1>4, <1>10, <2>1, <3>1
  <2>2. CASE \E k \in 1 .. K : j = L + k
    <3>1. PICK k \in 1 .. K : j = L + k
      BY <2>2
    <3>2. Q[j] \in X /\ F[Q[j]] = F[h] /\ D[Q[j]] = D[h] + 1 /\ Q[j] \notin V
      BY <1>7, <3>1
    <3>3. CASE i \in 1 .. L
      <4>1. Q[i] = P[i] /\ P[i] \in V
        BY <1>4, <3>3
      <4>2. CASE i < c + 1
        <5>1. Before(F, D, P[i], h)
          BY <1>1, <1>4, <3>3, <4>2 DEF h
        <5>2. D[P[i]] \in Nat
          BY <1>1, <3>3
        <5>3. QED
          BY <1>1, <3>2, <4>1, <5>1, <5>2 DEF Before
      <4>3. CASE ~(i < c + 1)
        <5>1. i \in c + 1 .. L + K
          BY <1>1, <3>3, <4>3
        <5>2. QED
          BY <1>1, <1>9, <3>2, <4>1, <5>1 DEF Before
      <4>4. QED
        BY <4>2, <4>3
    <3>4. CASE \E l \in 1 .. K : i = L + l
      <4>1. PICK l \in 1 .. K : i = L + l
        BY <3>4
      <4>2. Q[i] \in X /\ F[Q[i]] = F[h] /\ D[Q[i]] = D[h] + 1 /\ l # k
        BY <1>1, <1>7, <1>10, <3>1, <4>1
      <4>3. Q[i] # Q[j]
        BY <3>1, <4>1, <4>2
      <4>4. QED
        BY <1>1, <3>2, <4>2, <4>3 DEF Before
    <3>5. QED
      BY <1>2, <3>3, <3>4
  <2>3. QED
    BY <1>2, <2>1, <2>2
<1>11. ASSUME NEW i \in 1 .. c + 1 PROVE Adj[Q[i]] \subseteq V \cup X
  <2>1. i \in 1 .. L /\ (i \in 1 .. c \/ i = c + 1)
    BY <1>1
  <2>2. QED
    BY <1>4, <2>1
<1>12. ASSUME NEW i \in c + 1 + 1 .. L + K, NEW j \in c + 1 + 1 .. L + K
       PROVE  F[Q[i]] = F[Q[j]] /\ D[Q[i]] <= D[Q[j]] + 1
  <2>1. i \in c + 1 .. L + K /\ j \in c + 1 .. L + K
    BY <1>1
  <2>2. /\ F[Q[i]] = F[h] /\ D[Q[i]] <= D[h] + 1 /\ D[Q[i]] \in Nat
        /\ F[Q[j]] = F[h] /\ D[h] <= D[Q[j]] /\ D[Q[j]] \in Nat
    BY <1>9, <2>1
  <2>3. QED
    BY <1>1, <2>2
<1>13. \A v \in V \cup X : F[v] \in V \cup X /\ \A u \in Nodes \ (V \cup X) : F[v] <= u
  BY <1>4, <1>7
<1>14. QED
  BY <1>1, <1>8, <1>10, <1>11, <1>12, <1>13 DEF Line

-----------------------------------------------------------------------------
(* The reduction: the walk as a line                                       *)

Met == ordered \o queue

WalkInv ==
  /\ ForestInv
  /\ Line(visited, Met, Len(ordered), Len(ordered) + Len(queue), Firsts, Depths, Neighbors)
  /\ reducing \in {"edges", "finding"} => visited = {} /\ ordered = <<>> /\ queue = <<>>
  /\ reducing = "done" => visited = Nodes

LEMMA Joining ==
  ASSUME NEW S, NEW s \in Seq(S), NEW t \in Seq(S)
  PROVE  /\ Len(s) \in Nat /\ Len(t) \in Nat
         /\ s \o t \in [1 .. Len(s) + Len(t) -> S]
         /\ \A i \in 1 .. Len(s) : (s \o t)[i] = s[i]
         /\ \A i \in 1 .. Len(t) : (s \o t)[Len(s) + i] = t[i]
<1>1. Len(s) \in Nat /\ Len(t) \in Nat /\ s \o t \in Seq(S) /\ Len(s \o t) = Len(s) + Len(t)
  OBVIOUS
<1>2. \A i \in 1 .. Len(s) + Len(t) : (s \o t)[i] = IF i <= Len(s) THEN s[i] ELSE t[i - Len(s)]
  OBVIOUS
<1>3. ASSUME NEW i \in 1 .. Len(t)
      PROVE  Len(s) + i \in 1 .. Len(s) + Len(t) /\ ~(Len(s) + i <= Len(s)) /\ (Len(s) + i) - Len(s) = i
  BY <1>1
<1>4. s \o t \in [1 .. Len(s) + Len(t) -> S]
  <2>1. \A q \in Seq(S) : q \in [1 .. Len(q) -> S]
    OBVIOUS
  <2>2. QED
    BY <1>1, <2>1
<1>5. QED
  BY <1>1, <1>2, <1>3, <1>4

LEMMA LineOfNone ==
  \A F, D, Adj : Line({}, <<>> \o <<>>, 0, 0, F, D, Adj)
<1>1. <<>> \o <<>> = <<>> /\ <<>> \in [1 .. 0 -> Nodes]
  OBVIOUS
<1>2. \A F, D, Adj : Line({}, <<>>, 0, 0, F, D, Adj)
  BY <1>1 DEF Line
<1>3. QED
  BY <1>1, <1>2

\* Before the walk there is nothing to know of it.
LEMMA NotWalking ==
  ASSUME ForestInv, visited = {}, ordered = <<>>, queue = <<>>, reducing # "done"
  PROVE  WalkInv
<1>1. Len(ordered) = 0 /\ Len(queue) = 0
  OBVIOUS
<1>2. Line(visited, Met, 0, 0, Firsts, Depths, Neighbors)
  BY LineOfNone DEF Met
<1>3. QED
  BY <1>1, <1>2 DEF WalkInv

LEMMA WalkInit == Reduction!Init => WalkInv
BY ReductionInit, NotWalking DEF Reduction!Init

LEMMA NotReducing == NoReduction => WalkInv
<1>1. NoReduction => Reduction!Init
  BY NodesAreFinite DEF NoReduction, Reduction!Init, Nodes
<1>2. QED
  BY <1>1, WalkInit

LEMMA ReductionStutter ==
  ASSUME WalkInv, UNCHANGED reduction
  PROVE  WalkInv'
<1>1. ForestInv'
  <2>1. PICK R \in [Nodes -> Nodes] : Kept(R)
    BY DEF WalkInv, ForestInv
  <2>2. Chosen' = Chosen
    BY DEF Chosen, reduction
  <2>3. Kept(R)'
    BY <2>1, <2>2 DEF Kept, Finds, reduction
  <2>4. Reduction!TypeOK'
    BY DEF WalkInv, ForestInv, Reduction!TypeOK, reduction
  <2>5. QED
    BY <2>3, <2>4 DEF WalkInv, ForestInv, reduction
<1>2. QED
  BY <1>1 DEF WalkInv, reduction, Met, Firsts, Depths, Neighbors, Reduction!FirstOf,
     Reduction!Depth, Reduction!adjacency

LEMMA SameShape ==
  ASSUME mst_edges' = mst_edges
  PROVE  Firsts' = Firsts /\ Depths' = Depths /\ Neighbors' = Neighbors
BY DEF Firsts, Depths, Neighbors, Reduction!FirstOf, Reduction!Depth, Reduction!adjacency

LEMMA WalkStarts ==
  ASSUME WalkInv, Reduction!Start
  PROVE  WalkInv'
<1> DEFINE x == Reduction!Min(Nodes \ visited)
           L == Len(ordered)
<1>1. /\ reducing = "walking" /\ queue = <<>> /\ visited # Nodes
      /\ queue' = <<x>> /\ visited' = visited \cup {x}
      /\ UNCHANGED <<relationships, reducing, sorted_edges, mst_edges, parent, edge, item, root,
                     root_a, ordered>>
  BY NodesAreFinite DEF Reduction!Start, Reduction!finding
<1>2. visited \in SUBSET Nodes /\ ordered \in Seq(visited) /\ ordered \in Seq(Nodes) /\ L \in Nat
  BY ReductionTypes DEF WalkInv, ForestInv
<1>3. x \in Nodes \ visited /\ \A u \in Nodes \ visited : x <= u
  BY <1>1, <1>2, Extremes
<1> HIDE DEF x
<1>4. Reduction!TypeOK'
  BY <1>1, <1>2, <1>3, NodesAreFinite DEF WalkInv, ForestInv, Reduction!TypeOK
<1>5. ForestInv'
  BY <1>1, <1>4, ForestStays DEF WalkInv, ForestInv
<1>6. Line(visited, Met, L, L, Firsts, Depths, Neighbors) /\ Met = ordered
  <2>1. Len(queue) = 0 /\ Met = ordered
    BY <1>1, <1>2 DEF Met
  <2>2. L + 0 = L
    BY <1>2
  <2>3. QED
    BY <2>1, <2>2 DEF WalkInv
<1>7. /\ Met' \in [1 .. L + 1 -> Nodes] /\ \A i \in 1 .. L : Met'[i] = ordered[i]
      /\ Met'[L + 1] = x
  <2>1. <<x>> \in Seq(Nodes) /\ Len(<<x>>) = 1 /\ <<x>>[1] = x /\ Met' = ordered \o <<x>>
    BY <1>1, <1>3 DEF Met
  <2> DEFINE t == <<x>>
  <2>2. t \in Seq(Nodes) /\ Len(t) = 1 /\ t[1] = x /\ Met' = ordered \o t
    BY <2>1
  <2> HIDE DEF t
  <2>3. /\ ordered \o t \in [1 .. L + Len(t) -> Nodes]
        /\ \A i \in 1 .. L : (ordered \o t)[i] = ordered[i]
        /\ \A i \in 1 .. Len(t) : (ordered \o t)[L + i] = t[i]
    <3>1. ordered \in Seq(Nodes) /\ t \in Seq(Nodes)
      BY <1>2, <2>2
    <3>2. QED
      BY ONLY <3>1, Joining
  <2>4. 1 \in 1 .. 1
    OBVIOUS
  <2> HIDE DEF L
  <2>5. QED
    BY <2>2, <2>3, <2>4
<1>8. Line(visited \cup {x}, Met', L, L + 1, Firsts, Depths, Neighbors)
  BY <1>2, <1>3, <1>6, <1>7, ForestShape, LineStarts DEF WalkInv
<1>9. Len(ordered') = L /\ Len(queue') = 1
  BY <1>1
<1>10. QED
  BY <1>1, <1>5, <1>8, <1>9, SameShape DEF WalkInv

LEMMA WalkVisits ==
  ASSUME WalkInv, Reduction!Visit
  PROVE  WalkInv'
<1> DEFINE h == Head(queue)
           X == Reduction!adjacency(h) \ visited
           S == Reduction!InOrder(X)
           K == Cardinality(X)
           c == Len(ordered)
           L == Len(ordered) + Len(queue)
<1>1. /\ queue # <<>> /\ ordered' = Append(ordered, h) /\ visited' = visited \cup X
      /\ queue' = Tail(queue) \o S
      /\ UNCHANGED <<relationships, reducing, sorted_edges, mst_edges, parent, edge, item, root,
                     root_a>>
  BY DEF Reduction!Visit, Reduction!finding
<1>2. /\ visited \in SUBSET Nodes /\ ordered \in Seq(visited) /\ ordered \in Seq(Nodes)
      /\ queue \in Seq(visited) /\ queue \in Seq(Nodes)
  BY ReductionTypes DEF WalkInv, ForestInv
<1>3. /\ c \in Nat /\ Len(queue) \in Nat /\ Len(queue) # 0 /\ L \in Nat /\ c < L
      /\ c + 1 \in 1 .. L /\ h \in visited /\ h = queue[1]
      /\ Tail(queue) \in Seq(visited) /\ Len(Tail(queue)) = Len(queue) - 1
      /\ \A i \in 1 .. Len(queue) - 1 : Tail(queue)[i] = queue[i + 1]
  BY <1>1, <1>2
<1>4. X \in SUBSET Nodes
  BY NodesAreFinite DEF Reduction!adjacency
<1>5. K \in Nat
  BY <1>4, FS_Subset, FS_CardinalityType, NodesAreFinite
<1>6. Ascending(S, X)
  BY <1>4, SortedSet
<1> HIDE DEF h, X, S, K
<1>7. /\ S \in [1 .. K -> X] /\ S \in Seq(X) /\ Len(S) = K
      /\ \A i, j \in 1 .. K : i # j => S[i] # S[j]
      /\ \A x \in X : \E i \in 1 .. K : S[i] = x
  <2>1. /\ S \in [1 .. K -> X] /\ \A i, j \in 1 .. K : i < j => S[i] < S[j]
        /\ \A x \in X : \E i \in 1 .. K : S[i] = x
    BY <1>6 DEF Ascending, K
  <2>2. S \in Seq(X) /\ Len(S) = K
    BY <1>5, <2>1
  <2>3. ASSUME NEW i \in 1 .. K, NEW j \in 1 .. K, i # j PROVE S[i] # S[j]
    <3>1. S[i] \in Nat /\ S[j] \in Nat
      <4>1. \A n \in Nodes : n \in Nat
        BY NodesAreFinite DEF Nodes
      <4>2. S[i] \in X /\ S[j] \in X
        BY <2>1
      <4>3. QED
        BY <1>4, <4>1, <4>2
    <3>2. i < j \/ j < i
      BY <2>3
    <3>3. QED
      BY <2>1, <3>1, <3>2
  <2>4. QED
    BY <2>1, <2>2, <2>3
<1>8. /\ Append(ordered, h) \in Seq(visited \cup X) /\ Len(Append(ordered, h)) = c + 1
      /\ \A i \in 1 .. c : Append(ordered, h)[i] = ordered[i]
      /\ Append(ordered, h)[c + 1] = h
  <2>1. ordered \in Seq(visited \cup X) /\ h \in visited \cup X
    BY <1>2, <1>3
  <2>2. QED
    BY <2>1
<1>9. /\ Tail(queue) \o S \in Seq(visited \cup X)
      /\ Len(Tail(queue) \o S) = (Len(queue) - 1) + K
      /\ \A i \in 1 .. Len(queue) - 1 : (Tail(queue) \o S)[i] = queue[i + 1]
      /\ \A i \in 1 .. K : (Tail(queue) \o S)[(Len(queue) - 1) + i] = S[i]
  <2>1. Tail(queue) \in Seq(visited \cup X) /\ S \in Seq(visited \cup X)
    BY <1>3, <1>7
  <2>2. Tail(queue) \o S \in Seq(visited \cup X) /\ Len(Tail(queue) \o S) = Len(Tail(queue)) + Len(S)
    BY <2>1
  <2>3. QED
    BY <1>3, <1>7, <2>1, <2>2, Joining
<1>10. Reduction!TypeOK'
  <2>1. visited' \in SUBSET Nodes /\ queue' \in Seq(visited') /\ ordered' \in Seq(visited')
    BY <1>1, <1>2, <1>4, <1>8, <1>9
  <2>2. QED
    BY <1>1, <2>1, NodesAreFinite DEF WalkInv, ForestInv, Reduction!TypeOK
<1>11. reducing = "walking"
  BY <1>1 DEF WalkInv, ForestInv
<1>12. ForestInv'
  BY <1>1, <1>10, <1>11, ForestStays DEF WalkInv, ForestInv
<1>13. /\ Met \in [1 .. L -> Nodes]
       /\ \A i \in 1 .. c : Met[i] = ordered[i]
       /\ \A i \in 1 .. Len(queue) : Met[c + i] = queue[i]
  BY <1>2, Joining DEF Met
<1>14. Met[c + 1] = h
  <2>1. 1 \in 1 .. Len(queue)
    BY <1>3
  <2>2. QED
    BY <1>3, <1>13, <2>1
<1>15. /\ Met' \in [1 .. L + K -> Nodes]
       /\ \A i \in 1 .. L : Met'[i] = Met[i]
       /\ \A i \in 1 .. K : Met'[L + i] = S[i]
  <2> DEFINE s == Append(ordered, h)
             t == Tail(queue) \o S
  <2>1. Met' = s \o t
    BY <1>1 DEF Met
  <2>2. s \in Seq(Nodes) /\ t \in Seq(Nodes)
    <3>1. visited \cup X \in SUBSET Nodes
      BY <1>2, <1>4
    <3>2. s \in Seq(visited \cup X) /\ t \in Seq(visited \cup X)
      BY <1>8, <1>9
    <3> HIDE DEF s, t
    <3>3. QED
      BY <3>1, <3>2
  <2>3. /\ Len(s) = c + 1 /\ Len(t) = (Len(queue) - 1) + K
        /\ \A i \in 1 .. c : s[i] = ordered[i]
        /\ s[c + 1] = h
        /\ \A i \in 1 .. Len(queue) - 1 : t[i] = queue[i + 1]
        /\ \A i \in 1 .. K : t[(Len(queue) - 1) + i] = S[i]
    BY <1>8, <1>9
  <2> HIDE DEF s, t
  <2>4. /\ s \o t \in [1 .. Len(s) + Len(t) -> Nodes]
        /\ \A i \in 1 .. c + 1 : (s \o t)[i] = s[i]
        /\ \A i \in 1 .. (Len(queue) - 1) + K : (s \o t)[(c + 1) + i] = t[i]
    <3>1. /\ s \o t \in [1 .. Len(s) + Len(t) -> Nodes]
          /\ \A i \in 1 .. Len(s) : (s \o t)[i] = s[i]
          /\ \A i \in 1 .. Len(t) : (s \o t)[Len(s) + i] = t[i]
      BY <2>2, Joining
    <3>2. QED
      BY <2>3, <3>1
  <2>5. Len(s) + Len(t) = L + K
    BY <1>3, <1>5, <2>3
  <2>6. ASSUME NEW i \in 1 .. L PROVE (s \o t)[i] = Met[i]
    <3>1. CASE i \in 1 .. c
      <4>1. i \in 1 .. c + 1
        BY <1>3, <3>1
      <4>2. QED
        BY <1>13, <2>3, <2>4, <3>1, <4>1
    <3>2. CASE i = c + 1
      <4>1. c + 1 \in 1 .. c + 1
        BY <1>3
      <4>2. QED
        BY <1>14, <2>3, <2>4, <3>2, <4>1
    <3>3. CASE i \notin 1 .. c + 1
      <4>1. PICK k \in 1 .. Len(queue) - 1 : i = (c + 1) + k
        <5>1. i - (c + 1) \in 1 .. Len(queue) - 1 /\ i = (c + 1) + (i - (c + 1))
          BY <1>3, <3>3
        <5>2. QED
          BY <5>1
      <4>2. /\ k \in 1 .. (Len(queue) - 1) + K /\ k + 1 \in 1 .. Len(queue) /\ k \in Int
            /\ (c + 1) + k = c + (k + 1)
        BY <1>3, <1>5
      <4>3. (s \o t)[(c + 1) + k] = queue[k + 1]
        BY <2>3, <2>4, <4>2
      <4>4. Met[c + (k + 1)] = queue[k + 1]
        BY <1>13, <4>2
      <4>5. QED
        BY <4>1, <4>2, <4>3, <4>4
    <3>4. i \in 1 .. c \/ i = c + 1 \/ i \notin 1 .. c + 1
      BY <1>3
    <3>5. QED
      BY <3>1, <3>2, <3>3, <3>4
  <2>7. ASSUME NEW i \in 1 .. K PROVE (s \o t)[L + i] = S[i]
    <3>1. /\ (Len(queue) - 1) + i \in 1 .. (Len(queue) - 1) + K
          /\ (c + 1) + ((Len(queue) - 1) + i) = L + i
      BY <1>3, <1>5
    <3>2. (s \o t)[(c + 1) + ((Len(queue) - 1) + i)] = t[(Len(queue) - 1) + i]
      BY <2>4, <3>1
    <3>3. QED
      BY <2>3, <3>1, <3>2
  <2>8. QED
    BY <2>1, <2>4, <2>5, <2>6, <2>7
<1>16. X = Neighbors[Met[c + 1]] \ visited
  <2>1. h \in Nodes
    BY <1>2, <1>3
  <2>2. Neighbors[h] = Reduction!adjacency(h)
    BY <2>1 DEF Neighbors
  <2>3. QED
    BY <1>14, <2>2 DEF X
<1>17. Line(visited \cup X, Met', c + 1, L + K, Firsts, Depths, Neighbors)
  <2>1. /\ Firsts \in [Nodes -> Nodes] /\ Depths \in [Nodes -> Nat]
        /\ Neighbors \in [Nodes -> SUBSET Nodes] /\ Shape(Firsts, Depths, Neighbors)
        /\ Line(visited, Met, c, L, Firsts, Depths, Neighbors)
    BY ForestShape DEF WalkInv
  <2>2. /\ \A i \in 1 .. K : Met'[L + i] \in X
        /\ \A i, j \in 1 .. K : i # j => Met'[L + i] # Met'[L + j]
        /\ \A x \in X : \E i \in 1 .. K : Met'[L + i] = x
    <3> HIDE DEF L
    <3>1. \A i \in 1 .. K : Met'[L + i] = S[i] /\ S[i] \in X
      BY <1>7, <1>15
    <3>2. QED
      BY <1>7, <3>1
  <2> DEFINE Q == Met'
             P == Met
  <2>3. Q \in [1 .. L + K -> Nodes] /\ \A i \in 1 .. L : Q[i] = P[i]
    BY <1>15
  <2> HIDE DEF L, c, Q, P
  <2>4. Line(visited \cup X, Q, c + 1, L + K, Firsts, Depths, Neighbors)
    <3>1. c < L /\ X = Neighbors[P[c + 1]] \ visited /\ K \in Nat /\ visited \in SUBSET Nodes
      BY <1>2, <1>3, <1>5, <1>16 DEF P
    <3>2. Line(visited, P, c, L, Firsts, Depths, Neighbors)
      BY <2>1 DEF P
    <3>3. /\ \A i \in 1 .. K : Q[L + i] \in X
          /\ \A i, j \in 1 .. K : i # j => Q[L + i] # Q[L + j]
          /\ \A x \in X : \E i \in 1 .. K : Q[L + i] = x
      BY <2>2 DEF Q
    <3>4. QED
      BY <2>1, <2>3, <3>1, <3>2, <3>3, LineGoesOn
  <2>5. QED
    BY <2>4 DEF Q
<1>18. Len(ordered') = c + 1 /\ Len(ordered') + Len(queue') = L + K
  <2>1. Len(ordered') = c + 1 /\ Len(queue') = (Len(queue) - 1) + K
    BY <1>1, <1>8, <1>9
  <2>2. (c + 1) + ((Len(queue) - 1) + K) = L + K
    BY <1>3, <1>5
  <2> HIDE DEF c, L
  <2>3. QED
    BY <2>1, <2>2
<1>19. QED
  BY <1>1, <1>11, <1>12, <1>17, <1>18, SameShape DEF WalkInv

LEMMA StillNotWalking ==
  ASSUME ForestInv', visited' = {}, ordered' = <<>>, queue' = <<>>, reducing' # "done"
  PROVE  WalkInv'
<1>1. Len(ordered') = 0 /\ Len(queue') = 0
  OBVIOUS
<1>2. Line(visited', Met', 0, 0, Firsts', Depths', Neighbors')
  BY LineOfNone DEF Met
<1>3. QED
  BY <1>1, <1>2 DEF WalkInv

LEMMA WalkStep == WalkInv /\ Reduction!Next => WalkInv'
<1> SUFFICES ASSUME WalkInv, Reduction!Next PROVE WalkInv'
  OBVIOUS
<1>1. CASE \E e \in sorted_edges : Reduction!NextEdge(e)
  <2>1. ForestInv'
    BY <1>1, KeptNextEdge DEF WalkInv
  <2>2. visited' = {} /\ ordered' = <<>> /\ queue' = <<>> /\ reducing' # "done"
    BY <1>1 DEF WalkInv, Reduction!NextEdge, Reduction!walk
  <2>3. QED
    BY <2>1, <2>2, StillNotWalking
<1>2. CASE Reduction!Climb
  <2>1. ForestInv'
    BY <1>2, KeptClimb DEF WalkInv
  <2>2. visited' = {} /\ ordered' = <<>> /\ queue' = <<>> /\ reducing' # "done"
    BY <1>2 DEF WalkInv, Reduction!Climb, Reduction!walk
  <2>3. QED
    BY <2>1, <2>2, StillNotWalking
<1>3. CASE Reduction!Compress
  <2>1. ForestInv'
    BY <1>3, KeptCompress DEF WalkInv
  <2>2. visited' = {} /\ ordered' = <<>> /\ queue' = <<>> /\ reducing' # "done"
    BY <1>3 DEF WalkInv, Reduction!Compress, Reduction!walk
  <2>3. QED
    BY <2>1, <2>2, StillNotWalking
<1>4. CASE Reduction!OtherEnd
  <2>1. ForestInv'
    BY <1>4, KeptOtherEnd DEF WalkInv
  <2>2. visited' = {} /\ ordered' = <<>> /\ queue' = <<>> /\ reducing' # "done"
    BY <1>4 DEF WalkInv, Reduction!OtherEnd, Reduction!Found, Reduction!walk
  <2>3. QED
    BY <2>1, <2>2, StillNotWalking
<1>5. CASE Reduction!Union
  <2>1. ForestInv'
    BY <1>5, KeptUnion DEF WalkInv
  <2>2. visited' = {} /\ ordered' = <<>> /\ queue' = <<>> /\ reducing' # "done"
    BY <1>5 DEF WalkInv, Reduction!Union, Reduction!Found, Reduction!walk
  <2>3. QED
    BY <2>1, <2>2, StillNotWalking
<1>6. CASE Reduction!Walk \/ Reduction!Return
  <2>1. UNCHANGED <<relationships, sorted_edges, mst_edges, parent, edge, item, root, root_a,
                    visited, queue, ordered>>
    BY <1>6 DEF Reduction!Walk, Reduction!Return, Reduction!finding, Reduction!walk
  <2>2. /\ reducing' \in {"walking", "done"} /\ sorted_edges = {}
        /\ reducing' = "done" => visited = Nodes /\ queue = <<>>
    BY <1>6, NodesAreFinite DEF WalkInv, ForestInv, Reduction!Walk, Reduction!Return
  <2>3. Reduction!TypeOK'
    BY <2>1, <2>2 DEF WalkInv, ForestInv, Reduction!TypeOK
  <2>4. ForestInv'
    BY <2>1, <2>2, <2>3, ForestStays DEF WalkInv
  <2>5. Met' = Met
    BY <2>1 DEF Met
  <2>6. QED
    BY <2>1, <2>2, <2>4, <2>5, SameShape DEF WalkInv
<1>7. CASE Reduction!Start
  BY <1>7, WalkStarts
<1>8. CASE Reduction!Visit
  BY <1>8, WalkVisits
<1>9. QED
  BY <1>1, <1>2, <1>3, <1>4, <1>5, <1>6, <1>7, <1>8 DEF Reduction!Next

LEMMA InLine ==
  ASSUME WalkInv
  PROVE  Reduction!OrderFollowsForest
<1> DEFINE c == Len(ordered)
           L == Len(ordered) + Len(queue)
<1>1. /\ visited \in SUBSET Nodes /\ ordered \in Seq(Nodes) /\ queue \in Seq(Nodes)
      /\ c \in Nat /\ Len(queue) \in Nat
  BY ReductionTypes DEF WalkInv, ForestInv
<1>2. /\ DOMAIN ordered = 1 .. c /\ \A i \in 1 .. c : ordered[i] \in Nodes /\ Met[i] = ordered[i]
      /\ \A i \in 1 .. c : i \in 1 .. L
  <2>1. \A i \in 1 .. c : Met[i] = ordered[i]
    BY <1>1, Joining DEF Met
  <2>2. QED
    BY <1>1, <2>1
<1>3. /\ visited = {Met[i] : i \in 1 .. L}
      /\ \A i, j \in 1 .. L : i < j =>
           Met[i] # Met[j] /\ Before(Firsts, Depths, Met[i], Met[j])
  BY DEF WalkInv, Line
<1>4. \A i, j \in 1 .. c : i < j =>
        ordered[i] # ordered[j] /\ Before(Firsts, Depths, ordered[i], ordered[j])
  <2> HIDE DEF c, L
  <2> QED
    BY <1>2, <1>3
<1>5. Reduction!Range(ordered) = {ordered[i] : i \in 1 .. c}
  BY <1>2 DEF Reduction!Range
<1>6. Cardinality(Reduction!Range(ordered)) = c
  <2> DEFINE f == [i \in 1 .. c |-> ordered[i]]
             T == {ordered[i] : i \in 1 .. c}
  <2>1. \A i, j \in 1 .. c : i # j => ordered[i] # ordered[j]
    <3>1. \A i, j \in 1 .. c : i # j => i < j \/ j < i
      BY <1>1
    <3> HIDE DEF c
    <3>2. QED
      BY <1>4, <3>1
  <2>2. ExistsBijection(1 .. c, T)
    <3> HIDE DEF c
    <3>1. f \in [1 .. c -> T] /\ \A i \in 1 .. c : f[i] = ordered[i]
      OBVIOUS
    <3>2. \A i, j \in 1 .. c : f[i] = f[j] => i = j
      BY <2>1, <3>1
    <3>3. \A t \in T : \E i \in 1 .. c : f[i] = t
      OBVIOUS
    <3> HIDE DEF f, T
    <3>4. f \in Injection(1 .. c, T)
      BY <3>1, <3>2 DEF Injection, IsInjective
    <3>5. f \in Surjection(1 .. c, T)
      BY <3>1, <3>3 DEF Surjection
    <3>6. QED
      BY <3>4, <3>5 DEF Bijection, ExistsBijection
  <2>3. IsFiniteSet(1 .. c) /\ Cardinality(1 .. c) = c
    <3>1. 1 \in Int /\ c \in Int /\ (IF 1 > c THEN 0 ELSE c - 1 + 1) = c
      BY <1>1
    <3> HIDE DEF c
    <3>2. QED
      BY <3>1, FS_Interval
  <2>4. Cardinality(T) = c
    <3> HIDE DEF f, T, c
    <3> QED
      BY <2>2, <2>3, FS_Bijection
  <2>5. QED
    BY <1>5, <2>4
<1>7. ASSUME reducing = "done" PROVE Reduction!Range(ordered) = Nodes
  <2>1. visited = Nodes /\ queue = <<>>
    BY <1>7 DEF WalkInv, ForestInv
  <2>2. L = c
    BY <1>1, <2>1
  <2>3. QED
    BY <1>2, <1>3, <1>5, <2>1, <2>2
<1>8. ASSUME NEW j \in DOMAIN ordered, NEW i \in 1 .. j - 1
      PROVE  \/ Reduction!FirstOf(ordered[i]) < Reduction!FirstOf(ordered[j])
             \/ /\ Reduction!FirstOf(ordered[i]) = Reduction!FirstOf(ordered[j])
                /\ Reduction!Depth(ordered[i]) <= Reduction!Depth(ordered[j])
  <2>1. i \in 1 .. c /\ j \in 1 .. c /\ i < j
    BY <1>1, <1>2
  <2>2. Before(Firsts, Depths, ordered[i], ordered[j]) /\ ordered[i] \in Nodes /\ ordered[j] \in Nodes
    BY <1>2, <1>4, <2>1
  <2>3. \A n \in Nodes : Firsts[n] = Reduction!FirstOf(n) /\ Depths[n] = Reduction!Depth(n)
    BY DEF Firsts, Depths
  <2>4. QED
    BY <2>2, <2>3 DEF Before
<1>9. Reduction!node_ids = Nodes
  BY NodesAreFinite
<1>10. Reduction!Cardinality(Reduction!Range(ordered)) = c
  BY <1>6, SameCardinality
<1>11. QED
  BY <1>7, <1>8, <1>9, <1>10 DEF Reduction!OrderFollowsForest

LEMMA Reduced == WalkInv => ReductionIsSound
BY TreesAreSets, ForestSpans, InLine DEF WalkInv, ForestInv, ReductionIsSound

-----------------------------------------------------------------------------
(* The parts together: what one does, the others do not disturb            *)

StagesInv == ExtractInv /\ WalkInv /\ IInv /\ Counting

LEMMA NotDescribing == NoDescription => Init
<1> SUFFICES ASSUME NoDescription PROVE Init
  OBVIOUS
<1>1. nodes = <<>> /\ descriptions = <<>>
  BY DEF NoDescription
<1>2. nodes \in [1 .. 0 -> Width] /\ 0 \in 0 .. MaxTables
  BY <1>1, BoundAssumption
<1>3. descriptions = [t \in Table |-> NoAnswer]
  BY <1>1 DEF Table
<1>4. QED
  BY <1>2, <1>3 DEF NoDescription, Init

LEMMA StagesInitially == StagesInit => StagesInv
<1> SUFFICES ASSUME StagesInit PROVE StagesInv
  OBVIOUS
<1>1. Extraction!Init \/ NoExtraction
  BY DEF StagesInit
<1>2. Init
  BY NotDescribing DEF StagesInit
<1>3. ExtractInv
  BY <1>1, ExtractInit, NotExtracting
<1>4. WalkInv
  BY WalkInit, NotReducing DEF StagesInit
<1>5. QED
  BY <1>2, <1>3, <1>4, Initially, CountingInit DEF StagesInv

LEMMA StagesInductive == StagesInv /\ [StagesNext]_all => StagesInv'
<1> SUFFICES ASSUME StagesInv, [StagesNext]_all PROVE StagesInv'
  OBVIOUS
<1>1. Extraction!Next \/ UNCHANGED extraction
  BY DEF StagesNext, all
<1>2. [Next]_vars
  BY DEF StagesNext, all
<1>3. ExtractInv'
  BY <1>1, ExtractStep, ExtractStutter DEF StagesInv
<1>4. IInv' /\ Counting'
  BY <1>2, Inductive, CountingStep DEF StagesInv
<1>5. WalkInv'
  <2>1. Reduction!Next \/ UNCHANGED reduction
    BY DEF StagesNext, all
  <2>2. QED
    BY <2>1, WalkStep, ReductionStutter DEF StagesInv
<1>6. QED
  BY <1>3, <1>4, <1>5 DEF StagesInv

LEMMA StagesAlways == StagesSpec => []StagesInv
BY StagesInitially, StagesInductive, PTL DEF StagesSpec

\* The batches partition the tables in order, keep within both bounds, are
\* closed for the next table's sake only, and what is returned was described by
\* the answer to its own batch's prompt (_chunk_nodes, describe_tables).
THEOREM SoundDescription == StagesSpec => []DescriptionIsSound
<1>1. ASSUME StagesInv PROVE DescriptionIsSound
  <2>1. IInv /\ Counting /\ Len(batches) \in Nat
    BY <1>1 DEF StagesInv, IInv, TypeOK
  <2>2. BatchesAreGreedy
    BY <2>1 DEF Counting, Greedy, BatchesAreGreedy
  <2>3. QED
    BY <2>1, <2>2 DEF IInv, DescriptionIsSound
<1>2. QED
  BY <1>1, StagesAlways, PTL

\* However a database changes between the three queries, a schema that is
\* accepted is closed, and a refusal has one of two reasons (extract_schema,
\* SchemaMetadata.validate_consistency).
THEOREM SoundExtraction == StagesSpec => []ExtractionIsSound
<1>1. StagesInv => ExtractionIsSound
  BY Accepted, Refused DEF StagesInv, ExtractInv, ExtractionIsSound
<1>2. QED
  BY <1>1, StagesAlways, PTL

\* To the owner no key is lost in the joins of the catalog, and none is added
\* when names are not shared and keys have one column (_FOREIGN_KEYS_QUERY).
THEOREM FaithfulKeys == StagesSpec => []KeysAreFaithful
<1>1. StagesInv => KeysAreFaithful
  BY NoneMissed, NoneAdded DEF StagesInv, KeysAreFaithful
<1>2. QED
  BY <1>1, StagesAlways, PTL

\* Whatever keys refer back and forth, in every state of the reduction two
\* tables have the same root exactly when the edges chosen so far connect them;
\* in the end these are a spanning forest, and the order of the walk goes from
\* tree to tree and away from each tree's first table
\* (compute_minimum_spanning_tree, _UnionFind, _order_nodes_by_tree_traversal).
THEOREM SoundReduction == StagesSpec => []ReductionIsSound
<1>1. StagesInv => ReductionIsSound
  BY Reduced DEF StagesInv
<1>2. QED
  BY <1>1, StagesAlways, PTL
=============================================================================
