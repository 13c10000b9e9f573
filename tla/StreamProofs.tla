---------------------------- MODULE StreamProofs ----------------------------
(***************************************************************************)
(* Proofs about Stream: for a run of any number of stages, a client sees   *)
(* the run as it went.  The invariant says the same of all that was ever   *)
(* put into the queue, of which the client has the beginning.              *)
(***************************************************************************)
EXTENDS Stream, SequenceTheorems, TLAPS

-----------------------------------------------------------------------------
(* Messages                                                                *)

OfStage(m) == m.event \in {"stage_start", "stage_done"}

LEMMA Messages ==
  /\ \A n \in 1 .. MaxStages : Start(n) \in Message /\ Done(n) \in Message
  /\ \A e \in {"complete", "error", "end"} : Outcome(e) \in Message
  /\ End \in Message
  /\ \A n : /\ Start(n).event = "stage_start" /\ Start(n).stage = n
            /\ Done(n).event = "stage_done" /\ Done(n).stage = n
  /\ \A e : Outcome(e).event = e
  /\ End.event = "end"
BY DEF Message, Start, Done, Outcome, End

LEMMA MessageEvents ==
  \A m \in Message : /\ m.event \in {"stage_start", "stage_done", "complete", "error", "end"}
                     /\ m.event = "end" <=> m = End
                     /\ OfStage(m) => m.stage \in 1 .. MaxStages
BY DEF Message, Outcome, End, OfStage

\* What may follow a message in the queue.
Link(m, next) ==
  /\ m.event = "stage_start" => next \in {Done(m.stage), Outcome("error"), End}
  /\ m.event = "stage_done"  => next \in {Start(m.stage + 1), Outcome("complete"),
                                          Outcome("error")}
  /\ m.event \in {"complete", "error"} => next = End
  /\ m.event # "end"

Linked(s) == \A i \in 1 .. Len(s) - 1 : Link(s[i], s[i + 1])

Last(s) == s[Len(s)]

LEMMA Concatenated ==
  ASSUME NEW s \in Seq(Message), NEW t \in Seq(Message)
  PROVE  /\ s \o t \in Seq(Message)
         /\ Len(s) \in Nat /\ Len(t) \in Nat /\ Len(s \o t) = Len(s) + Len(t)
         /\ \A i \in 1 .. Len(s) : (s \o t)[i] = s[i]
         /\ \A i \in 1 .. Len(t) : (s \o t)[Len(s) + i] = t[i]
OBVIOUS

LEMMA OneMore ==
  ASSUME NEW s \in Seq(Message), NEW t \in Seq(Message), Len(t) = 1
  PROVE  /\ s \o t \in Seq(Message)
         /\ Len(s) \in Nat /\ Len(s \o t) = Len(s) + 1
         /\ (s \o t)[Len(s) + 1] = t[1]
         /\ \A i \in 1 .. Len(s) : (s \o t)[i] = s[i]
<1>1. 1 \in 1 .. Len(t)
  OBVIOUS
<1>2. Len(s \o t) = Len(s) + Len(t) /\ (s \o t)[Len(s) + 1] = t[1]
  BY <1>1, Concatenated, Zenon
<1>3. QED
  BY <1>2

LEMMA Associated ==
  ASSUME NEW s \in Seq(Message), NEW t \in Seq(Message), NEW u \in Seq(Message)
  PROVE  (s \o t) \o u = s \o (t \o u)
BY ConcatAssociative

LEMMA WithoutNothing ==
  ASSUME NEW s \in Seq(Message)
  PROVE  s \o <<>> = s /\ <<>> \o s = s
BY ConcatEmptySeq

LEMMA Joined ==
  ASSUME NEW s \in Seq(Message), NEW t \in Seq(Message), Linked(s), Linked(t),
         s = <<>> \/ t = <<>> \/ Link(Last(s), t[1])
  PROVE  Linked(s \o t)
<1>1. CASE s = <<>> \/ t = <<>>
  <2>1. s \o t = s \/ s \o t = t
    BY <1>1, WithoutNothing
  <2>2. QED
    BY <2>1
<1>2. CASE s # <<>> /\ t # <<>>
  <2>1. SUFFICES ASSUME NEW i \in 1 .. Len(s \o t) - 1
                 PROVE  Link((s \o t)[i], (s \o t)[i + 1])
    BY DEF Linked
  <2>2. /\ Len(s) \in Nat \ {0} /\ Len(t) \in Nat \ {0}
        /\ Len(s \o t) = Len(s) + Len(t)
    BY <1>2
  <2>3. CASE i < Len(s)
    <3>1. i \in 1 .. Len(s) - 1 /\ (s \o t)[i] = s[i] /\ (s \o t)[i + 1] = s[i + 1]
      BY <2>2, <2>3
    <3>2. QED
      BY <3>1 DEF Linked
  <2>4. CASE i = Len(s)
    <3>1. (s \o t)[i] = Last(s) /\ (s \o t)[i + 1] = t[1]
      BY <2>2, <2>4 DEF Last
    <3>2. QED
      BY <1>2, <3>1
  <2>5. CASE i > Len(s)
    <3>1. PICK j \in 1 .. Len(t) - 1 : j = i - Len(s)
      BY <2>2, <2>5
    <3>2. (s \o t)[i] = t[j] /\ (s \o t)[i + 1] = t[j + 1]
      BY <2>2, <2>5, <3>1
    <3>3. QED
      BY <3>1, <3>2 DEF Linked
  <2>6. QED
    BY <2>2, <2>3, <2>4, <2>5
<1>3. QED
  BY <1>1, <1>2

-----------------------------------------------------------------------------
(* What the task puts into the queue at once                               *)

\* Stages that are over: from `first` to Done(n).
Stages(head, first, n) ==
  /\ head \in Seq(Message) /\ head # <<>> /\ Linked(head)
  /\ head[1] = first /\ Last(head) = Done(n)
  /\ \A i \in 1 .. Len(head) : OfStage(head[i])

LEMMA RunAtOnce ==
  ASSUME NEW m \in 1 .. MaxStages + 1, NEW n \in m - 1 .. MaxStages
  PROVE  IF n = m - 1 THEN AtOnce(m, n) = <<>> ELSE Stages(AtOnce(m, n), Start(m), n)
<1>0. MaxStages \in Nat
  BY StreamAssumption
<1>1. CASE n = m - 1
  <2>1. 2 * (n - m + 1) = 0
    BY <1>0, <1>1
  <2>2. 1 .. 0 = {}
    OBVIOUS
  <2>3. AtOnce(m, n) = [i \in {} |-> AtOnce(m, n)[i]]
    BY <2>1, <2>2 DEF AtOnce
  <2>4. QED
    BY <1>1, <2>3
<1>2. CASE n # m - 1
  <2> DEFINE s == AtOnce(m, n)
             N == 2 * (n - m + 1)
  <2>1. N \in Nat /\ N >= 2 /\ N % 2 = 0 /\ N \div 2 = n - m + 1 /\ m \in Nat /\ n \in Nat
    BY <1>0, <1>2
  <2>2. ASSUME NEW i \in 1 .. N
        PROVE  /\ i % 2 = 1 => m + i \div 2 \in 1 .. MaxStages
               /\ i % 2 # 1 => m + i \div 2 - 1 \in 1 .. MaxStages
    BY <1>0, <2>1
  <2>3. \A i \in 1 .. N : /\ i % 2 = 1 => s[i] = Start(m + i \div 2)
                          /\ i % 2 # 1 => s[i] = Done(m + i \div 2 - 1)
    BY DEF AtOnce
  <2>4. \A i \in 1 .. N : s[i] \in Message
    BY <2>2, <2>3, Messages
  <2>5. s \in Seq(Message) /\ Len(s) = N
    <3>1. s = [i \in 1 .. N |-> s[i]]
      BY DEF AtOnce
    <3> HIDE DEF s, N
    <3>2. s \in [1 .. N -> Message]
      BY <2>4, <3>1
    <3>3. QED
      BY <2>1, <3>2
  <2> HIDE DEF s
  <2>6. ASSUME NEW i \in 1 .. N - 1 PROVE Link(s[i], s[i + 1])
    <3>1. i \in 1 .. N /\ i + 1 \in 1 .. N
      BY <2>1
    <3>2. CASE i % 2 = 1
      <4>1. (i + 1) % 2 # 1 /\ (i + 1) \div 2 = i \div 2 + 1 /\ i \div 2 \in Nat
        BY <2>1, <3>2
      <4>2. s[i] = Start(m + i \div 2) /\ s[i + 1] = Done(m + (i + 1) \div 2 - 1)
        BY <2>3, <3>1, <3>2, <4>1
      <4>3. m + (i + 1) \div 2 - 1 = m + i \div 2
        BY <2>1, <4>1
      <4>4. QED
        BY <4>2, <4>3, Messages DEF Link
    <3>3. CASE i % 2 # 1
      <4>1. (i + 1) % 2 = 1 /\ (i + 1) \div 2 = i \div 2 /\ i \div 2 \in Nat
        BY <2>1, <3>3
      <4>2. s[i] = Done(m + i \div 2 - 1) /\ s[i + 1] = Start(m + (i + 1) \div 2)
        BY <2>3, <3>1, <3>3, <4>1
      <4>3. m + (i + 1) \div 2 = (m + i \div 2 - 1) + 1
        BY <2>1, <4>1
      <4>4. QED
        BY <4>2, <4>3, Messages DEF Link
    <3>4. QED
      BY <3>2, <3>3
  <2>7. s[1] = Start(m)
    <3>1. 1 \in 1 .. N /\ 1 % 2 = 1 /\ m + 1 \div 2 = m
      BY <2>1
    <3>2. QED
      BY <2>3, <3>1
  <2>8. s[N] = Done(n)
    <3>1. N \in 1 .. N /\ N % 2 # 1 /\ m + N \div 2 - 1 = n
      BY <2>1
    <3>2. QED
      BY <2>3, <3>1
  <2>9. \A i \in 1 .. N : OfStage(s[i])
    BY <2>3, Messages DEF OfStage
  <2>10. s # <<>>
    BY <2>1, <2>5
  <2>11. Stages(s, Start(m), n)
    BY <2>5, <2>6, <2>7, <2>8, <2>9, <2>10 DEF Stages, Linked, Last
  <2>12. QED
    BY <1>2, <2>11 DEF s
<1>3. QED
  BY <1>1, <1>2

-----------------------------------------------------------------------------
(* The inductive invariant                                                 *)

\* All that was ever put into the queue: stages one after the other, the last
\* one begun while the task waits, and nothing behind an outcome.
EmittedInv ==
  /\ Linked(emitted)
  /\ emitted # <<>> => emitted[1] \in {Start(1), Outcome("error")}
  /\ task = "new" => emitted = <<>>
  /\ task = "awaiting" =>
       /\ emitted # <<>> /\ Last(emitted) = Start(stage)
       /\ \A i \in 1 .. Len(emitted) : OfStage(emitted[i])

\* What the client has is the beginning of it.
ReceivedInv ==
  /\ NothingIsLost
  /\ IF generator = "sending" THEN Len(sending) = 1 /\ sending[1] # End ELSE sending = <<>>
  /\ \A i \in 1 .. Len(received) : received[i] # End
  /\ Len(received) <= Len(emitted)
  /\ \A i \in 1 .. Len(received) : received[i] = emitted[i]

IInv == TypeOK /\ EmittedInv /\ ReceivedInv

\* Putting something into the queue does not disturb the generator.
LEMMA Putting ==
  ASSUME TypeOK, ReceivedInv, NEW t \in Seq(Message), Put(t), UNCHANGED stream
  PROVE  ReceivedInv' /\ queue' \in Seq(Message) /\ emitted' \in Seq(Message)
<1>1. /\ queue \in Seq(Message) /\ emitted \in Seq(Message) /\ received \in Seq(Message)
      /\ sending \in Seq(Message)
      /\ queue' = queue \o t /\ emitted' = emitted \o t
      /\ UNCHANGED <<generator, sending, received, connected>>
  BY DEF TypeOK, Put, stream
<1>2. queue' \in Seq(Message) /\ emitted' \in Seq(Message)
  BY <1>1
<1>3. NothingIsLost'
  <2>1. SUFFICES ASSUME generator # "closed"
                 PROVE  received \o sending \o (queue \o t) = emitted \o t
    BY <1>1 DEF NothingIsLost
  <2>2. received \o sending \o queue = emitted
    BY <2>1 DEF ReceivedInv, NothingIsLost
  <2>3. received \o sending \in Seq(Message)
    BY <1>1
  <2>4. ((received \o sending) \o queue) \o t = (received \o sending) \o (queue \o t)
    BY <1>1, <2>3, ConcatAssociative
  <2>5. QED
    BY <2>2, <2>4
<1>4. Len(received) <= Len(emitted') /\ \A i \in 1 .. Len(received) : received[i] = emitted'[i]
  BY <1>1 DEF ReceivedInv
<1>5. QED
  BY <1>1, <1>2, <1>3, <1>4 DEF ReceivedInv

\* What a run that goes on puts into the queue fits what is there.
LEMMA GoingOn ==
  ASSUME IInv, NEW n \in 0 .. MaxStages, NEW head, UNCHANGED <<cancel, stream>>,
         GoOn(head, n),
         \/ task = "new" /\ n = 0 /\ head = <<>>
         \/ task = "new" /\ n # 0 /\ Stages(head, Start(1), n)
         \/ task = "awaiting" /\ n # 0 /\ Stages(head, Done(stage), n)
  PROVE  IInv'
<1>1. /\ MaxStages \in Nat /\ n \in Nat
      /\ emitted \in Seq(Message) /\ head \in Seq(Message)
  <2>1. <<>> \in Seq(Message)
    OBVIOUS
  <2>2. head \in Seq(Message)
    BY <2>1 DEF Stages
  <2>3. QED
    BY <2>2, StreamAssumption DEF IInv, TypeOK
<1>2. Linked(head) /\ \A i \in 1 .. Len(head) : OfStage(head[i])
  BY DEF Stages, Linked
<1>3. Linked(emitted \o head)
  <2>1. CASE task = "new"
    BY <1>1, <1>2, <2>1, Joined DEF IInv, EmittedInv
  <2>2. CASE task = "awaiting"
    <3>1. Last(emitted) = Start(stage) /\ head[1] = Done(stage)
      BY <2>2 DEF IInv, EmittedInv, Stages
    <3>2. Link(Last(emitted), head[1])
      BY <3>1, Messages DEF Link
    <3>3. QED
      BY <1>1, <1>2, <3>2, Joined DEF IInv, EmittedInv
  <2>3. QED
    BY <2>1, <2>2
<1> DEFINE front == emitted \o head
<1>4. front \in Seq(Message) /\ Len(front) = Len(emitted) + Len(head)
  BY <1>1
<1>5. /\ \A i \in 1 .. Len(front) : OfStage(front[i])
      /\ front = <<>> \/ front[1] = Start(1) \/ front[1] = Outcome("error")
      /\ IF front = <<>> THEN n = 0 ELSE n # 0 /\ Last(front) = Done(n)
  <2>1. CASE emitted = <<>>
    <3>1. front = head /\ task = "new"
      BY <1>1, <2>1, ConcatEmptySeq DEF IInv, EmittedInv
    <3>2. QED
      BY <1>2, <3>1 DEF Stages
  <2>2. CASE emitted # <<>>
    <3>1. task = "awaiting" /\ n # 0 /\ Stages(head, Done(stage), n)
      BY <2>2 DEF IInv, EmittedInv
    <3>2. Len(emitted) \in Nat \ {0} /\ Len(head) \in Nat \ {0}
      BY <1>1, <2>2, <3>1 DEF Stages
    <3>3. front[1] = emitted[1] /\ front[Len(front)] = head[Len(head)]
      BY <1>1, <1>4, <3>2
    <3>4. ASSUME NEW i \in 1 .. Len(front) PROVE OfStage(front[i])
      <4>1. CASE i <= Len(emitted)
        <5>1. i \in 1 .. Len(emitted) /\ front[i] = emitted[i]
          BY <1>1, <4>1
        <5>2. QED
          BY <3>1, <5>1 DEF IInv, EmittedInv
      <4>2. CASE ~(i <= Len(emitted))
        <5>1. i - Len(emitted) \in 1 .. Len(head)
          <6> HIDE DEF front
          <6> QED
            BY <1>4, <3>2, <4>2
        <5>2. PICK j \in 1 .. Len(head) : i = Len(emitted) + j
          <6>1. i = Len(emitted) + (i - Len(emitted))
            BY <3>2
          <6>2. QED
            BY <5>1, <6>1
        <5>3. front[i] = head[j]
          BY <1>1, <5>2, Concatenated
        <5>4. QED
          BY <1>2, <5>3
      <4>3. QED
        BY <4>1, <4>2
    <3>5. front # <<>>
      BY <1>4, <3>2
    <3>6. QED
      BY <2>2, <3>1, <3>3, <3>4, <3>5 DEF IInv, EmittedInv, Stages, Last
  <2>3. QED
    BY <2>1, <2>2
<1> HIDE DEF front
<1>6. CASE /\ n < MaxStages
           /\ Put(head \o <<Start(n + 1)>>)
           /\ task' = "awaiting" /\ stage' = n + 1
  <2> DEFINE t == <<Start(n + 1)>>
  <2>1. t \in Seq(Message) /\ t # <<>> /\ Len(t) = 1 /\ t[1] = Start(n + 1) /\ Linked(t)
    <3>1. n + 1 \in 1 .. MaxStages
      BY <1>1, <1>6
    <3>2. Start(n + 1) \in Message
      BY <3>1, Messages
    <3>3. QED
      BY <3>2 DEF Linked
  <2> HIDE DEF t
  <2>2. emitted' = front \o t /\ head \o t \in Seq(Message) /\ Put(head \o t)
    <3>1. emitted' = emitted \o (head \o t)
      BY <1>6 DEF Put, t
    <3>2. QED
      BY <1>1, <1>6, <2>1, <3>1, ConcatAssociative DEF front, t
  <2>3. Linked(emitted')
    <3>1. front = <<>> \/ Link(Last(front), t[1])
      BY <1>5, <2>1, Messages DEF Link
    <3>2. QED
      BY <1>3, <1>4, <2>1, <2>2, <3>1, Joined DEF front
  <2>4. /\ emitted' # <<>> /\ Last(emitted') = Start(stage')
        /\ \A i \in 1 .. Len(emitted') : OfStage(emitted'[i])
        /\ emitted'[1] \in {Start(1), Outcome("error")}
    <3>1. Len(emitted') = Len(front) + 1 /\ Len(front) \in Nat
      <4>1. Len(front \o t) = Len(front) + 1 /\ Len(front) \in Nat
        BY <1>4, <2>1, OneMore, Zenon
      <4>2. QED
        BY <2>2, <4>1
    <3>2. /\ emitted'[Len(front) + 1] = Start(n + 1)
          /\ \A i \in 1 .. Len(front) : emitted'[i] = front[i]
      <4>1. 1 \in 1 .. Len(t)
        BY <2>1
      <4>2. QED
        BY <1>4, <2>1, <2>2, <4>1, Concatenated
    <3>3. OfStage(Start(n + 1))
      BY Messages DEF OfStage
    <3>4. \A i \in 1 .. Len(emitted') : i = Len(front) + 1 \/ i \in 1 .. Len(front)
      BY <3>1
    <3>5. \A i \in 1 .. Len(emitted') : OfStage(emitted'[i])
      BY <1>5, <3>2, <3>3, <3>4
    <3>6. emitted'[1] \in {Start(1), Outcome("error")}
      <4>1. CASE front = <<>>
        BY <1>5, <3>2, <4>1
      <4>2. CASE front # <<>>
        <5>1. 1 \in 1 .. Len(front)
          BY <1>4, <4>2
        <5>2. QED
          BY <1>5, <3>2, <4>2, <5>1
      <4>3. QED
        BY <4>1, <4>2
    <3>7. emitted' # <<>>
      BY <3>1
    <3>8. QED
      BY <1>6, <3>1, <3>2, <3>5, <3>6, <3>7 DEF Last
  <2>5. ReceivedInv' /\ queue' \in Seq(Message) /\ emitted' \in Seq(Message)
    BY <2>2, Putting DEF IInv
  <2>6. TypeOK'
    BY <1>1, <1>6, <2>5 DEF IInv, TypeOK, stream
  <2>7. QED
    BY <1>6, <2>3, <2>4, <2>5, <2>6 DEF IInv, EmittedInv
<1>7. CASE /\ \E e \in Outcomes(n) : Put(head \o <<Outcome(e), End>>)
           /\ task' = "over" /\ stage' = n
  <2>1. PICK e \in Outcomes(n) : Put(head \o <<Outcome(e), End>>)
    BY <1>7
  <2> DEFINE t == <<Outcome(e), End>>
  <2>2. e \in {"complete", "error"} /\ (n = 0 => e = "error")
    BY DEF Outcomes
  <2>3. t \in Seq(Message) /\ Len(t) = 2 /\ t[1] = Outcome(e) /\ Linked(t) /\ t # <<>>
    <3>1. Outcome(e) \in Message /\ End \in Message
      BY <2>2, Messages
    <3>2. Link(Outcome(e), End)
      BY <2>2, Messages DEF Link
    <3>3. t \in Seq(Message) /\ Len(t) = 2 /\ t[1] = Outcome(e) /\ t[2] = End /\ t # <<>>
      BY <3>1
    <3> HIDE DEF t
    <3>4. \A i \in 1 .. Len(t) - 1 : i = 1 /\ i + 1 = 2
      BY <3>3
    <3>5. QED
      BY <3>2, <3>3, <3>4 DEF Linked
  <2>4. emitted' = front \o t /\ head \o t \in Seq(Message) /\ Put(head \o t)
    <3>1. Put(head \o t)
      BY <2>1
    <3> HIDE DEF t
    <3>2. emitted' = emitted \o (head \o t)
      BY <3>1 DEF Put
    <3>3. head \o t \in Seq(Message) /\ emitted' = (emitted \o head) \o t
      BY <1>1, <2>3, <3>2, Concatenated, Associated, Zenon
    <3>4. QED
      BY <3>1, <3>3 DEF front
  <2> HIDE DEF t
  <2>5. Linked(emitted')
    <3>1. front = <<>> \/ Link(Last(front), t[1])
      BY <1>5, <2>2, <2>3, Messages DEF Link
    <3>2. QED
      BY <1>3, <1>4, <2>3, <2>4, <3>1, Joined DEF front
  <2>6. emitted'[1] \in {Start(1), Outcome("error")}
    <3>1. CASE front = <<>>
      <4>1. emitted' = t /\ e = "error"
        BY <1>5, <2>2, <2>3, <2>4, <3>1, WithoutNothing
      <4>2. QED
        BY <2>3, <4>1
    <3>2. CASE front # <<>>
      <4>1. emitted'[1] = front[1]
        BY <1>4, <2>3, <2>4, <3>2
      <4>2. QED
        BY <1>5, <3>2, <4>1
    <3>3. QED
      BY <3>1, <3>2
  <2>7. ReceivedInv' /\ queue' \in Seq(Message) /\ emitted' \in Seq(Message)
    BY <2>4, Putting DEF IInv
  <2>8. TypeOK'
    BY <1>1, <1>7, <2>7 DEF IInv, TypeOK, stream
  <2>9. QED
    BY <1>7, <2>5, <2>6, <2>7, <2>8 DEF IInv, EmittedInv
<1>8. QED
  BY <1>6, <1>7 DEF GoOn

\* What a run that is over within a stage puts into the queue.
LEMMA Ending ==
  ASSUME IInv, task = "awaiting", NEW t \in Seq(Message), Put(t), UNCHANGED stream,
         task' = "over", stage' = stage, cancel' = cancel,
         t = <<End>> \/ t = <<Outcome("error"), End>>
  PROVE  IInv'
<1>1. emitted \in Seq(Message) /\ emitted # <<>> /\ Last(emitted) = Start(stage)
  BY DEF IInv, TypeOK, EmittedInv
<1>2. Linked(t) /\ Link(Last(emitted), t[1])
  <2>1. CASE t = <<End>>
    <3>1. t[1] = End /\ Len(t) = 1
      BY <2>1
    <3>2. QED
      BY <1>1, <3>1, Messages DEF Linked, Link
  <2>2. CASE t = <<Outcome("error"), End>>
    <3>1. t[1] = Outcome("error") /\ t[2] = End /\ Len(t) = 2
      BY <2>2
    <3>2. \A i \in 1 .. Len(t) - 1 : i = 1 /\ i + 1 = 2
      BY <3>1
    <3>3. Link(t[1], t[2])
      BY <3>1, Messages DEF Link
    <3>4. QED
      BY <1>1, <3>1, <3>2, <3>3, Messages DEF Linked, Link
  <2>3. QED
    BY <2>1, <2>2
<1>3. emitted' = emitted \o t
  BY DEF Put
<1>4. Linked(emitted')
  BY <1>1, <1>2, <1>3, Joined DEF IInv, EmittedInv
<1>5. emitted'[1] = emitted[1]
  <2>1. 1 \in 1 .. Len(emitted)
    BY <1>1
  <2>2. QED
    BY <1>1, <1>3, <2>1, Concatenated
<1>6. ReceivedInv' /\ queue' \in Seq(Message) /\ emitted' \in Seq(Message)
  BY Putting DEF IInv
<1>7. TypeOK'
  BY <1>6 DEF IInv, TypeOK, stream
<1>8. QED
  BY <1>1, <1>4, <1>5, <1>6, <1>7 DEF IInv, EmittedInv

LEMMA Initially == Init => IInv
<1> SUFFICES ASSUME Init PROVE IInv
  OBVIOUS
<1>1. <<>> \in Seq(Message) /\ Len(<<>>) = 0 /\ <<>> \o <<>> \o <<>> = <<>>
  OBVIOUS
<1>2. TypeOK
  <2>1. 0 \in 0 .. MaxStages /\ 0 <= 1
    BY StreamAssumption
  <2>2. QED
    BY <1>1, <2>1, Zenon DEF Init, TypeOK
<1>3. EmittedInv
  BY <1>1 DEF Init, EmittedInv, Linked
<1>4. ReceivedInv
  BY <1>1 DEF Init, ReceivedInv, NothingIsLost
<1>5. QED
  BY <1>2, <1>3, <1>4 DEF IInv

\* The generator takes the first message, and the last one closes it.
LEMMA Getting == IInv /\ Get => IInv'
<1> SUFFICES ASSUME IInv, Get PROVE IInv'
  OBVIOUS
<1>1. /\ queue \in Seq(Message) /\ received \in Seq(Message) /\ emitted \in Seq(Message)
      /\ sending = <<>> /\ received \o sending \o queue = emitted
      /\ queue # <<>> /\ queue' = Tail(queue) /\ received' = received /\ emitted' = emitted
  BY DEF Get, IInv, TypeOK, ReceivedInv, NothingIsLost
<1>2. Head(queue) \in Message /\ Tail(queue) \in Seq(Message)
  BY <1>1
<1>3. cancel' \in BOOLEAN
  BY DEF Get, CancelTask, IInv, TypeOK
<1>4. EmittedInv'
  BY DEF Get, IInv, EmittedInv
<1>5. CASE Head(queue) = End
  <2>1. generator' = "closed" /\ sending' = <<>>
    BY <1>1, <1>5 DEF Get
  <2>2. TypeOK'
    BY <1>2, <1>3, <2>1 DEF Get, IInv, TypeOK
  <2>3. ReceivedInv'
    BY <1>1, <2>1 DEF IInv, ReceivedInv, NothingIsLost
  <2>4. QED
    BY <1>4, <2>2, <2>3 DEF IInv
<1>6. CASE Head(queue) # End
  <2>1. generator' = "sending" /\ sending' = <<Head(queue)>>
    BY <1>1, <1>6 DEF Get
  <2>2. sending' \in Seq(Message) /\ Len(sending') = 1 /\ sending'[1] # End
    BY <1>2, <1>6, <2>1
  <2>3. TypeOK'
    BY <1>2, <1>3, <2>1, <2>2 DEF Get, IInv, TypeOK
  <2>4. received \o sending' \o Tail(queue) = received \o sending \o queue
    <3>1. sending' \o Tail(queue) = queue
      <4>1. \A q \in Seq(Message) : q # <<>> => <<Head(q)>> \o Tail(q) = q
        OBVIOUS
      <4>2. QED
        BY <1>1, <2>1, <4>1
    <3>2. received \o sending = received
      BY <1>1, WithoutNothing
    <3>3. (received \o sending') \o Tail(queue) = received \o (sending' \o Tail(queue))
      <4>1. received \in Seq(Message) /\ sending' \in Seq(Message) /\ Tail(queue) \in Seq(Message)
        BY <1>1, <1>2, <2>2
      <4>2. QED
        BY ONLY <4>1, Associated
    <3>4. QED
      BY <3>1, <3>2, <3>3
  <2>5. ReceivedInv'
    BY <1>1, <2>1, <2>2, <2>4 DEF IInv, ReceivedInv, NothingIsLost
  <2>6. QED
    BY <1>4, <2>3, <2>5 DEF IInv
<1>7. QED
  BY <1>5, <1>6

LEMMA Sending == IInv /\ Send => IInv'
<1> SUFFICES ASSUME IInv, Send PROVE IInv'
  OBVIOUS
<1>1. /\ queue \in Seq(Message) /\ received \in Seq(Message) /\ emitted \in Seq(Message)
      /\ sending \in Seq(Message) /\ Len(sending) = 1 /\ sending[1] # End
      /\ (received \o sending) \o queue = emitted
      /\ received' = received \o sending /\ sending' = <<>> /\ generator' = "waiting"
      /\ UNCHANGED <<task, stage, cancel, queue, connected, emitted>>
  BY DEF Send, IInv, TypeOK, ReceivedInv, NothingIsLost
<1>2. received' \in Seq(Message) /\ Len(received') = Len(received) + 1 /\ Len(received) \in Nat
  <2>1. /\ received \o sending \in Seq(Message) /\ Len(received) \in Nat
        /\ Len(received \o sending) = Len(received) + 1
    BY <1>1, OneMore, Zenon
  <2>2. QED
    BY <1>1, <2>1
<1>3. EmittedInv'
  BY <1>1 DEF IInv, EmittedInv
<1>4. TypeOK'
  <2>1. sending' \in Seq(Message) /\ Len(sending') <= 1
    BY <1>1
  <2>2. QED
    BY <1>1, <1>2, <2>1 DEF IInv, TypeOK
<1>5. \A i \in 1 .. Len(received') : received'[i] # End
  <2>1. ASSUME NEW i \in 1 .. Len(received') PROVE received'[i] # End
    <3>1. CASE i \in 1 .. Len(received)
      BY <1>1, <3>1, Concatenated DEF IInv, ReceivedInv
    <3>2. CASE i = Len(received) + 1
      <4>1. 1 \in 1 .. Len(sending)
        BY <1>1
      <4>2. received'[i] = sending[1]
        BY <1>1, <3>2, <4>1, Concatenated
      <4>3. QED
        BY <1>1, <4>2
    <3>3. QED
      BY <1>2, <3>1, <3>2
  <2>2. QED
    BY <2>1
<1>6. /\ received' \o queue = emitted
      /\ Len(received') <= Len(emitted)
      /\ \A i \in 1 .. Len(received') : received'[i] = emitted[i]
  <2>1. received' \o queue = emitted
    BY <1>1
  <2>2. QED
    BY <1>1, <1>2, <2>1, Concatenated
<1>7. (received' \o sending') \o queue' = emitted'
  <2>1. received' \o sending' = received'
    BY <1>1, <1>2, WithoutNothing
  <2>2. QED
    BY <1>1, <1>6, <2>1
<1>8. ReceivedInv'
  BY <1>1, <1>5, <1>6, <1>7 DEF ReceivedInv, NothingIsLost
<1>9. QED
  BY <1>3, <1>4, <1>8 DEF IInv

LEMMA Inductive == IInv /\ [Next]_vars => IInv'
<1> SUFFICES ASSUME IInv, [Next]_vars PROVE IInv'
  OBVIOUS
<1>0. MaxStages \in Nat
  BY StreamAssumption
<1>1. CASE Begin
  <2>1. PICK n \in 0 .. MaxStages : GoOn(AtOnce(1, n), n)
    BY <1>1 DEF Begin
  <2>2. 1 \in 1 .. MaxStages + 1 /\ n \in 1 - 1 .. MaxStages
    BY <1>0
  <2>3. IF n = 0 THEN AtOnce(1, n) = <<>> ELSE Stages(AtOnce(1, n), Start(1), n)
    BY <2>2, RunAtOnce
  <2>4. QED
    BY <1>1, <2>1, <2>3, GoingOn DEF Begin
<1>2. CASE Resume
  <2>1. PICK n \in stage .. MaxStages :
          GoOn(<<Done(stage)>> \o AtOnce(stage + 1, n), n)
    BY <1>2 DEF Resume
  <2>2. stage \in 1 .. MaxStages
    <3>1. emitted \in Seq(Message) /\ emitted # <<>> /\ Last(emitted) = Start(stage)
      BY <1>2 DEF Resume, IInv, TypeOK, EmittedInv
    <3>2. Last(emitted) \in Message
      BY <3>1 DEF Last
    <3>3. OfStage(Start(stage)) /\ Start(stage).stage = stage
      BY Messages DEF OfStage
    <3>4. QED
      BY <3>1, <3>2, <3>3, MessageEvents
  <2>3. stage + 1 \in 1 .. MaxStages + 1 /\ n \in (stage + 1) - 1 .. MaxStages
    BY <1>0, <2>1, <2>2
  <2> DEFINE rest == AtOnce(stage + 1, n)
             head == <<Done(stage)>> \o rest
  <2>4. IF n = (stage + 1) - 1 THEN rest = <<>> ELSE Stages(rest, Start(stage + 1), n)
    BY <2>3, RunAtOnce
  <2>5. Done(stage) \in Message /\ OfStage(Done(stage))
    BY <2>2, Messages DEF OfStage
  <2>6. /\ <<Done(stage)>> \in Seq(Message) /\ Len(<<Done(stage)>>) = 1
        /\ Linked(<<Done(stage)>>) /\ <<Done(stage)>> # <<>>
        /\ <<Done(stage)>>[1] = Done(stage)
    BY <2>5 DEF Linked
  <2> HIDE DEF rest
  <2>7. Stages(head, Done(stage), n)
    <3>1. CASE n = stage
      <4>1. rest = <<>>
        BY <2>2, <2>4, <3>1
      <4>2. head = <<Done(stage)>>
        BY <2>6, <4>1, WithoutNothing
      <4>3. QED
        <5>1. head \in Seq(Message) /\ head # <<>> /\ Linked(head) /\ head[1] = Done(n)
          BY <2>6, <3>1, <4>2
        <5>2. Last(head) = Done(n) /\ \A i \in 1 .. Len(head) : OfStage(head[i])
          BY <2>5, <2>6, <3>1, <4>2 DEF Last
        <5>3. QED
          BY <3>1, <5>1, <5>2 DEF Stages
    <3>2. CASE n # stage
      <4>1. Stages(rest, Start(stage + 1), n)
        BY <2>2, <2>4, <3>2
      <4>2. rest \in Seq(Message) /\ Len(rest) \in Nat \ {0}
        BY <4>1 DEF Stages
      <4>3. Link(Done(stage), rest[1])
        BY <4>1, Messages DEF Stages, Link
      <4>4. Linked(head)
        BY <2>6, <4>1, <4>2, <4>3, Joined DEF Stages, Last
      <4>5. /\ head \in Seq(Message) /\ Len(head) = 1 + Len(rest)
            /\ head[1] = Done(stage)
            /\ \A i \in 1 .. Len(rest) : head[1 + i] = rest[i]
        <5>1. 1 \in 1 .. Len(<<Done(stage)>>)
          BY <2>6
        <5>2. QED
          BY <2>6, <4>2, <5>1, Concatenated
      <4> HIDE DEF head
      <4>6. Last(head) = Done(n)
        <5>1. Len(rest) \in 1 .. Len(rest)
          BY <4>2
        <5>2. head[1 + Len(rest)] = rest[Len(rest)]
          BY <4>5, <5>1
        <5>3. QED
          BY <4>1, <4>5, <5>2 DEF Stages, Last
      <4>7. ASSUME NEW i \in 1 .. Len(head) PROVE OfStage(head[i])
        <5>1. CASE i = 1
          BY <2>5, <4>5, <5>1
        <5>2. CASE i # 1
          <6>1. PICK j \in 1 .. Len(rest) : i = 1 + j
            <7>1. i - 1 \in 1 .. Len(rest) /\ i = 1 + (i - 1)
              BY <4>2, <4>5, <5>2
            <7>2. QED
              BY <7>1
          <6>2. head[i] = rest[j]
            BY <4>5, <6>1
          <6>3. QED
            BY <4>1, <6>2 DEF Stages
        <5>3. QED
          BY <5>1, <5>2
      <4>8. head # <<>>
        BY <4>2, <4>5
      <4>9. QED
        BY <4>4, <4>5, <4>6, <4>7, <4>8 DEF Stages
    <3>3. QED
      BY <3>1, <3>2
  <2>8. n \in 0 .. MaxStages /\ n # 0 /\ GoOn(head, n)
    BY <1>0, <2>1, <2>2 DEF rest
  <2> HIDE DEF head
  <2>9. QED
    BY <1>2, <2>7, <2>8, GoingOn DEF Resume
<1>3. CASE Raise
  <2>1. <<Outcome("error"), End>> \in Seq(Message)
    BY Messages
  <2>2. QED
    BY <1>3, <2>1, Ending DEF Raise
<1>4. CASE Cancelled
  <2>1. CASE task = "awaiting"
    <3>1. <<End>> \in Seq(Message)
      BY Messages
    <3>2. QED
      BY <1>4, <2>1, <3>1, Ending DEF Cancelled
  <2>2. CASE task # "awaiting"
    <3>1. UNCHANGED <<queue, emitted, stage, cancel, stream>> /\ task' = "over"
      BY <1>4, <2>2 DEF Cancelled
    <3>2. TypeOK'
      BY <3>1 DEF IInv, TypeOK, stream
    <3>3. QED
      BY <3>1, <3>2 DEF IInv, EmittedInv, ReceivedInv, NothingIsLost, stream
  <2>3. QED
    BY <2>1, <2>2
<1>5. CASE Iterate \/ Leave \/ Close
  <2>1. /\ UNCHANGED <<task, stage, queue, received, emitted>> /\ cancel' \in BOOLEAN
        /\ connected' \in BOOLEAN
    BY <1>5 DEF Iterate, Leave, Close, CancelTask, IInv, TypeOK
  <2>2. \/ generator' = "closed" /\ sending' = <<>>
        \/ generator' = generator /\ sending' = sending
        \/ generator = "new" /\ generator' = "waiting" /\ sending' = sending
    BY <1>5 DEF Iterate, Leave, Close, IInv, ReceivedInv
  <2>3. TypeOK'
    <3>1. <<>> \in Seq(Message) /\ Len(<<>>) <= 1
      OBVIOUS
    <3>2. QED
      BY <2>1, <2>2, <3>1 DEF IInv, TypeOK
  <2>4. ReceivedInv'
    BY <2>1, <2>2 DEF IInv, ReceivedInv, NothingIsLost
  <2>5. QED
    BY <2>1, <2>3, <2>4 DEF IInv, EmittedInv
<1>6. CASE Over \/ UNCHANGED vars
  <2>1. UNCHANGED vars
    BY <1>6 DEF Over
  <2>2. QED
    BY <2>1 DEF vars, stream, IInv, TypeOK, EmittedInv, ReceivedInv, NothingIsLost
<1>7. QED
  BY <1>1, <1>2, <1>3, <1>4, <1>5, <1>6, Getting, Sending DEF Next

-----------------------------------------------------------------------------
(* What follows                                                            *)

LEMMA Sound == IInv => StreamIsSound
<1> SUFFICES ASSUME IInv PROVE StreamIsSound
  OBVIOUS
<1>1. received \in Seq(Message) /\ Len(received) \in Nat /\ Len(emitted) \in Nat
  BY DEF IInv, TypeOK
<1>2. StreamIsWellFormed
  <2>1. received # <<>> => Head(received) \in {Start(1), Outcome("error")}
    <3>1. SUFFICES ASSUME received # <<>>
                   PROVE  received[1] \in {Start(1), Outcome("error")}
      BY <1>1
    <3>2. 1 \in 1 .. Len(received) /\ 1 \in 1 .. Len(emitted)
      BY <1>1, <3>1 DEF IInv, ReceivedInv
    <3>3. received[1] = emitted[1] /\ emitted # <<>>
      BY <3>2 DEF IInv, ReceivedInv
    <3>4. QED
      BY <3>3 DEF IInv, EmittedInv
  <2>2. ASSUME NEW i \in 1 .. Len(received) - 1
        PROVE  LET m == received[i] next == received[i + 1] IN
               CASE m.event = "stage_start" -> next \in {Done(m.stage), Outcome("error")}
                 [] m.event = "stage_done"  ->
                      next \in {Start(m.stage + 1), Outcome("complete"), Outcome("error")}
                 [] OTHER -> FALSE
    <3> DEFINE m == received[i]
               next == received[i + 1]
    <3>1. /\ i \in 1 .. Len(received) /\ i + 1 \in 1 .. Len(received)
          /\ i \in 1 .. Len(emitted) - 1
      BY <1>1 DEF IInv, ReceivedInv
    <3>2. m = emitted[i] /\ next = emitted[i + 1] /\ next # End /\ m \in Message
      BY <1>1, <3>1 DEF IInv, ReceivedInv
    <3>3. Link(m, next)
      BY <3>1, <3>2 DEF IInv, EmittedInv, Linked
    <3> HIDE DEF m, next
    <3>4. CASE m.event = "stage_start"
      <4>1. next \in {Done(m.stage), Outcome("error")}
        BY <3>2, <3>3, <3>4 DEF Link
      <4>2. QED
        BY <3>4, <4>1, Zenon DEF m, next
    <3>5. CASE m.event = "stage_done"
      <4>1. next \in {Start(m.stage + 1), Outcome("complete"), Outcome("error")}
        BY <3>3, <3>5 DEF Link
      <4>2. QED
        BY <3>5, <4>1, Zenon DEF m, next
    <3>6. m.event \in {"stage_start", "stage_done"}
      BY <3>2, <3>3, MessageEvents DEF Link
    <3>7. QED
      BY <3>4, <3>5, <3>6
  <2>3. QED
    BY <2>1, <2>2 DEF StreamIsWellFormed
<1>3. OutcomeMeansOver
  <2>1. SUFFICES ASSUME NEW i \in DOMAIN received,
                        received[i].event \in {"complete", "error"}, task # "over"
                 PROVE  FALSE
    BY DEF OutcomeMeansOver
  <2>2. i \in 1 .. Len(received) /\ i \in 1 .. Len(emitted)
    BY <1>1, <2>1 DEF IInv, ReceivedInv
  <2>3. emitted[i].event \in {"complete", "error"}
    BY <2>1, <2>2 DEF IInv, ReceivedInv
  <2>4. task \in {"new", "awaiting"}
    BY <2>1 DEF IInv, TypeOK
  <2>5. CASE task = "new"
    BY <2>2, <2>5 DEF IInv, EmittedInv
  <2>6. CASE task = "awaiting"
    BY <2>2, <2>3, <2>6 DEF IInv, EmittedInv, OfStage
  <2>7. QED
    BY <2>4, <2>5, <2>6
<1>4. QED
  BY <1>2, <1>3 DEF StreamIsSound, IInv, ReceivedInv

LEMMA Invariance == Spec => []IInv
BY Initially, Inductive, PTL DEF Spec

\* A client sees the run as it went, stage after stage, and an outcome only of
\* a run that is over, however many stages it has (event_generator).
THEOREM SoundStream == Spec => []StreamIsSound
BY Invariance, Sound, PTL

\* Once cancelled, a run puts nothing more into the queue but its end.
THEOREM CancelledIsSilent == Spec => SilentOnceCancelled
<1>1. IInv /\ [Next]_vars =>
        [cancel => \A i \in Len(emitted) + 1 .. Len(emitted') : emitted'[i] = End]_vars
  <2>1. SUFFICES ASSUME IInv, Next, cancel,
                        NEW i \in Len(emitted) + 1 .. Len(emitted')
                 PROVE  emitted'[i] = End
    OBVIOUS
  <2>2. emitted \in Seq(Message) /\ Len(emitted) \in Nat
    BY <2>1 DEF IInv, TypeOK
  <2>3. CASE Cancelled /\ task = "awaiting"
    <3>1. emitted' = emitted \o <<End>>
      BY <2>3 DEF Cancelled, Put
    <3>2. <<End>> \in Seq(Message) /\ Len(<<End>>) = 1 /\ <<End>>[1] = End
      BY Messages
    <3>3. i = Len(emitted) + 1 /\ 1 \in 1 .. Len(<<End>>)
      BY <2>2, <3>1, <3>2, Concatenated
    <3>4. QED
      BY <2>2, <3>1, <3>2, <3>3, Concatenated
  <2>4. CASE ~(Cancelled /\ task = "awaiting")
    <3>1. emitted' = emitted
      BY <2>1, <2>4 DEF Next, Begin, Resume, Raise, Cancelled, Iterate, Get, Send, Leave,
                        Close, Over, vars
    <3>2. QED
      BY <2>2, <3>1
  <2>5. QED
    BY <2>3, <2>4
<1>2. QED
  BY <1>1, Invariance, PTL DEF Spec, SilentOnceCancelled
=============================================================================
