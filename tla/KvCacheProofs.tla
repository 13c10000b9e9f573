--------------------------- MODULE KvCacheProofs ---------------------------
(***************************************************************************)
(* The safety properties of KvCache, for any number of databases, requests *)
(* and slots.                                                              *)
(***************************************************************************)
EXTENDS KvCache, FiniteSetTheorems, TLAPS

-----------------------------------------------------------------------------
(* The helpers keep their types                                            *)

Critical == {"warm", "save", "load", "generate"}
Busy     == Critical \cup {"checking", "queued"}

\* What a process that has left the start works with.
Holdings ==
  /\ \A p \in Process : pc[p] # "idle" => want[p] \in Database
  /\ \A p \in Process : pc[p] \in Busy => slot[p] \in Slot
  /\ \A d \in Database : want[d] = d

PlaceOK ==
  /\ pc \in [Process -> {"idle", "awaiting", "resumed", "start", "checking",
                         "queued", "warm", "save", "load", "generate"}]
  /\ want \in [Process -> Database \cup {Nobody}]
  /\ slot \in [Process -> Slot \cup {NoSlot}]
  /\ again \in [Process -> BOOLEAN]
  /\ lock \in Process \cup {Nobody}
  /\ ahead \subseteq Process \X Process

ManagerOK ==
  /\ db_to_slot \in [Database -> Slot \cup {NoSlot}]
  /\ slot_to_db \in [Slot -> Database \cup {Nobody}]
  /\ used \subseteq Slot
  /\ older \subseteq Slot \X Slot
  /\ warmed \subseteq Slot
  /\ reused \subseteq Slot
  /\ later \subseteq Database \X Database

LEMMA SlotsAreSlots == NoSlot \notin Slot
  BY SlotAssumption DEF Slot, NoSlot

LEMMA AllocateType ==
  ASSUME ManagerOK, NEW d \in Database, NEW s \in Slot, Allocate(d, s)
  PROVE  ManagerOK'
<1>1. db_to_slot' \in [Database -> Slot \cup {NoSlot}]
  BY DEF ManagerOK, Allocate
<1>2. slot_to_db' \in [Slot -> Database \cup {Nobody}]
  BY DEF ManagerOK, Allocate
<1>3. used' \subseteq Slot /\ warmed' \subseteq Slot /\ reused' \subseteq Slot
  BY DEF ManagerOK, Allocate
<1>4. older' \subseteq Slot \X Slot
  BY DEF ManagerOK, Allocate, Touch, Without
<1>5. later' \subseteq Database \X Database
  BY DEF ManagerOK, Allocate, Touch, Without, UsedBefore
<1> QED
  BY <1>1, <1>2, <1>3, <1>4, <1>5 DEF ManagerOK

LEMMA PlaceSet ==
  ASSUME NEW p \in Process, NEW x, PlaceOK,
         x \in Busy \cup {"idle", "awaiting", "resumed", "start"},
         pc' = [pc EXCEPT ![p] = x]
  PROVE  /\ pc' \in [Process -> {"idle", "awaiting", "resumed", "start",
                         "checking", "queued", "warm", "save", "load", "generate"}]
         /\ pc'[p] = x
         /\ \A q \in Process \ {p} : pc'[q] = pc[q]
  BY DEF PlaceOK, Busy, Critical

LEMMA JoinType ==
  ASSUME PlaceOK, Holdings, NEW p \in Process, NEW d \in Database,
         p \in Database => p = d, NEW s \in Slot, Join(p, d, s)
  PROVE  /\ PlaceOK' /\ Holdings'
         /\ pc'[p] \in {"queued", "load", "warm"}
         /\ \A q \in Process \ {p} : pc'[q] = pc[q]
<1>1. PICK x \in {"queued", "load", "warm"} : pc' = [pc EXCEPT ![p] = x]
  BY DEF Join, Inside
<1>2. /\ pc' \in [Process -> {"idle", "awaiting", "resumed", "start", "checking",
                         "queued", "warm", "save", "load", "generate"}]
      /\ pc'[p] = x
      /\ \A q \in Process \ {p} : pc'[q] = pc[q]
  BY <1>1, PlaceSet DEF Busy, Critical
<1>3. lock' \in Process \cup {Nobody} /\ again' \in [Process -> BOOLEAN]
  BY DEF Join, PlaceOK
<1>4. ahead' \subseteq Process \X Process
  BY DEF Join, PlaceOK, Touch, Without, Waiting
<1>5. /\ want' \in [Process -> Database \cup {Nobody}]
      /\ want'[p] = d
      /\ \A q \in Process \ {p} : want'[q] = want[q]
  BY DEF Join, PlaceOK
<1>6. /\ slot' \in [Process -> Slot \cup {NoSlot}]
      /\ slot'[p] = s
      /\ \A q \in Process \ {p} : slot'[q] = slot[q]
  BY DEF Join, PlaceOK
<1>7. Holdings'
  BY <1>2, <1>5, <1>6 DEF Holdings, Process
<1> QED
  BY <1>1, <1>2, <1>3, <1>4, <1>5, <1>6, <1>7 DEF PlaceOK

LEMMA EndType ==
  ASSUME PlaceOK, Holdings, NEW gone \in SUBSET Process, End(gone)
  PROVE  /\ PlaceOK' /\ Holdings'
         /\ \A p \in gone : pc'[p] = "idle"
         /\ \A p \in Process \ gone :
              /\ pc'[p] = pc[p] \/ (pc'[p] = "resumed" /\ pc[p] = "awaiting")
              /\ want'[p] = want[p] /\ slot'[p] = slot[p]
<1>1. /\ pc' \in [Process -> {"idle", "awaiting", "resumed", "start", "checking",
                         "queued", "warm", "save", "load", "generate"}]
      /\ want' \in [Process -> Database \cup {Nobody}]
      /\ slot' \in [Process -> Slot \cup {NoSlot}]
  BY DEF End, PlaceOK
<1>2. again' \in [Process -> BOOLEAN]
  BY Zenon DEF End, PlaceOK
<1>3. lock' \in Process \cup {Nobody} /\ ahead' \subseteq Process \X Process
  <2> DEFINE left == {pair \in ahead : {pair[1], pair[2]} \cap gone = {}}
  <2>1. left \subseteq Process \X Process
    BY DEF PlaceOK
  <2>2. \A p : Without(left, p) \subseteq left
    BY DEF Without
  <2>3. IF lock \notin gone THEN lock' = lock /\ ahead' = left
        ELSE \/ Waiting \ gone = {} /\ lock' = Nobody /\ ahead' = left
             \/ \E p \in Waiting \ gone : lock' = p /\ ahead' = Without(left, p)
    BY Zenon DEF End
  <2> HIDE DEF left
  <2> QED
    BY <2>1, <2>2, <2>3 DEF PlaceOK, Waiting
<1>4. /\ \A p \in gone : pc'[p] = "idle"
      /\ \A p \in Process \ gone :
           /\ pc'[p] = pc[p] \/ (pc'[p] = "resumed" /\ pc[p] = "awaiting")
           /\ want'[p] = want[p] /\ slot'[p] = slot[p]
  BY DEF End
<1>5. \A d \in Database : want'[d] = d
  BY ProcessAssumption DEF End, Holdings, Process
<1>6. Holdings'
  BY <1>4, <1>5 DEF Holdings, Busy, Critical
<1> QED
  BY <1>1, <1>2, <1>3, <1>4, <1>6 DEF PlaceOK

-----------------------------------------------------------------------------
(* The lock                                                                *)

\* Whoever asks for the lock was not in the critical section or the queue.
LEMMA JoinLocks ==
  ASSUME PlaceOK, Holdings, OneHolder, NEW p \in Process, NEW d \in Database,
         p \in Database => p = d, NEW s \in Slot, Join(p, d, s),
         pc[p] \notin Critical \cup {"queued"}
  PROVE  OneHolder'
<1>1. /\ pc'[p] \in {"queued", "load", "warm"}
      /\ \A q \in Process \ {p} : pc'[q] = pc[q]
      /\ PlaceOK'
  BY JoinType
<1>2. Nobody \notin Process
  BY ProcessAssumption
<1>3. CASE lock = Nobody
  <2>1. lock' = p /\ pc'[p] \in {"load", "warm"}
    BY <1>3, <1>1 DEF Join, Inside, PlaceOK
  <2> QED
    BY <2>1, <1>1, <1>2, <1>3 DEF OneHolder
<1>4. CASE lock # Nobody
  <2>1. lock' = lock /\ pc'[p] = "queued"
    BY <1>4 DEF Join, PlaceOK
  <2>2. lock \in Process /\ lock # p
    BY <1>4 DEF OneHolder, PlaceOK, Critical
  <2> QED
    BY <2>1, <2>2, <1>1, <1>4 DEF OneHolder
<1> QED
  BY <1>3, <1>4

LEMMA EndLocks ==
  ASSUME PlaceOK, Holdings, OneHolder, NEW gone \in SUBSET Process, End(gone)
  PROVE  OneHolder'
<1>1. /\ \A p \in gone : pc'[p] = "idle"
      /\ \A p \in Process \ gone :
           pc'[p] = pc[p] \/ (pc'[p] = "resumed" /\ pc[p] = "awaiting")
  BY EndType
<1>2. Nobody \notin Process
  BY ProcessAssumption
<1>3. CASE lock \notin gone
  <2>1. lock' = lock
    BY <1>3 DEF End
  <2> QED
    BY <2>1, <1>1, <1>2, <1>3 DEF OneHolder, PlaceOK, Waiting
<1>4. CASE lock \in gone /\ Waiting \ gone = {} /\ lock' = Nobody
  BY <1>1, <1>2, <1>4 DEF OneHolder, Waiting
<1>5. CASE lock \in gone /\ lock' \in Waiting \ gone
  BY <1>1, <1>2, <1>5 DEF OneHolder, Waiting
<1> QED
  BY <1>3, <1>4, <1>5 DEF End

\* A holder that stays the holder, and moves within the critical section.
LEMMA MoveLocks ==
  ASSUME PlaceOK, Holdings, OneHolder, NEW p \in Process, NEW x \in Critical,
         pc[p] \in Critical \/ (pc[p] = "queued" /\ lock = p),
         pc' = [pc EXCEPT ![p] = x], UNCHANGED <<want, slot, mutex>>,
         again' \in [Process -> BOOLEAN]
  PROVE  /\ PlaceOK' /\ Holdings' /\ OneHolder'
<1>1. /\ pc' \in [Process -> {"idle", "awaiting", "resumed", "start", "checking",
                         "queued", "warm", "save", "load", "generate"}]
      /\ pc'[p] = x
      /\ \A q \in Process \ {p} : pc'[q] = pc[q]
  BY PlaceSet DEF Busy
<1>2. want' = want /\ slot' = slot /\ lock' = lock /\ ahead' = ahead
  BY DEF mutex
<1>3. PlaceOK'
  BY <1>1, <1>2 DEF PlaceOK
<1>4. Holdings'
  BY <1>1, <1>2, ProcessAssumption DEF Holdings, Busy, Critical, Process
<1>5. OneHolder'
  <2>1. lock = p /\ p # Nobody
    BY ProcessAssumption DEF OneHolder, Critical
  <2> QED
    BY <1>1, <1>2, <2>1 DEF OneHolder, Critical
<1> QED
  BY <1>3, <1>4, <1>5

-----------------------------------------------------------------------------
(* Types, and the lock                                                     *)

\* The rest of the types.
OtherOK ==
  /\ hashed \subseteq Database
  /\ disabled \subseteq Database
  /\ scheduled \subseteq Database
  /\ live \in Database \cup {Nobody}
  /\ stored \in [Slot -> Database \cup {Nobody}]

Base == PlaceOK /\ ManagerOK /\ OtherOK /\ Holdings /\ OneHolder

LEMMA CallType ==
  ASSUME Base, NEW p \in Process, CallInFlight(p)
  PROVE  /\ live' \in Database \cup {Nobody}
         /\ stored' \in [Slot -> Database \cup {Nobody}]
  BY DEF Base, CallInFlight, PlaceOK, OtherOK, Holdings, Busy, Critical

LEMMA BaseInit == Init => Base
<1> SUFFICES ASSUME Init PROVE Base
  OBVIOUS
<1>1. PlaceOK /\ Holdings /\ OneHolder
  BY ProcessAssumption
  DEF Init, PlaceOK, Holdings, Busy, Critical, OneHolder, Waiting, Process
<1>2. ManagerOK /\ OtherOK
  BY DEF Init, ManagerOK, OtherOK
<1> QED
  BY <1>1, <1>2 DEF Base

LEMMA StepBase ==
  ASSUME Base, NEW p \in Process, Step(p)
  PROVE  Base'
<1> USE DEF Base
<1>1. CASE Enter(p)
  <2>1. Inside(p, want[p]) \in Critical
    BY DEF Inside, Critical
  <2>2. PlaceOK' /\ Holdings' /\ OneHolder'
    BY <1>1, <2>1, MoveLocks DEF Enter, mutex, PlaceOK
  <2>3. ManagerOK' /\ OtherOK'
    BY <1>1 DEF Enter, ManagerOK, OtherOK, manager, flags, server
  <2> QED
    BY <2>2, <2>3
<1>2. CASE Warm(p)
  <2>1. PlaceOK' /\ Holdings' /\ OneHolder'
    <3>1. /\ pc[p] \in Critical /\ "save" \in Critical
          /\ pc' = [pc EXCEPT ![p] = "save"]
          /\ UNCHANGED <<want, slot, mutex, again>>
      BY <1>2 DEF Warm, Critical
    <3>2. again' \in [Process -> BOOLEAN]
      BY <3>1 DEF PlaceOK
    <3> QED
      BY <3>1, <3>2, MoveLocks
  <2>2. ManagerOK' /\ OtherOK'
    BY <1>2 DEF Warm, ManagerOK, OtherOK, PlaceOK, manager, flags
  <2> QED
    BY <2>1, <2>2
<1>3. CASE Saved(p) \/ SaveFails(p)
  <2>1. slot[p] \in Slot
    BY <1>3 DEF Saved, SaveFails, Holdings, Busy, Critical
  <2>2. ManagerOK' /\ OtherOK'
    BY <1>3, <2>1 DEF Saved, SaveFails, ManagerOK, OtherOK, manager, flags
  <2>3. CASE p \in Database
    <3>1. End({p})
      BY <1>3, <2>3 DEF Saved, SaveFails
    <3> QED
      BY <3>1, <2>2, EndType, EndLocks
  <2>4. CASE p \notin Database
    <3>1. /\ pc[p] \in Critical /\ "load" \in Critical
          /\ pc' = [pc EXCEPT ![p] = "load"]
          /\ UNCHANGED <<want, slot, mutex, again>>
      BY <1>3, <2>4 DEF Saved, SaveFails, Critical
    <3>2. again' \in [Process -> BOOLEAN]
      BY <3>1 DEF PlaceOK
    <3> QED
      BY <3>1, <3>2, <2>2, MoveLocks
  <2> QED
    BY <2>3, <2>4
<1>4. CASE GenerateFails(p) \/ (p \in Request /\ Generated(p))
  <2>1. End({p})
    BY <1>4 DEF GenerateFails, Generated
  <2>2. ManagerOK' /\ OtherOK'
    BY <1>4 DEF GenerateFails, Generated, ManagerOK, OtherOK, PlaceOK, manager, flags
  <2> QED
    BY <2>1, <2>2, EndType, EndLocks
<1>5. CASE p \in Request /\ (Loaded(p) \/ LoadFails(p))
  <2>1. slot[p] \in Slot
    BY <1>5 DEF Loaded, LoadFails, Holdings, Busy, Critical
  <2>2. ManagerOK' /\ OtherOK'
    BY <1>5, <2>1 DEF Loaded, LoadFails, ManagerOK, OtherOK, manager, flags
  <2>3. CASE Loaded(p)
    <3>1. /\ pc[p] \in Critical /\ "generate" \in Critical
          /\ pc' = [pc EXCEPT ![p] = "generate"]
          /\ UNCHANGED <<want, slot, mutex, again>>
      BY <2>3 DEF Loaded, Critical
    <3>2. again' \in [Process -> BOOLEAN]
      BY <3>1 DEF PlaceOK
    <3> QED
      BY <2>2, <3>1, <3>2, MoveLocks
  <2>4. CASE LoadFails(p)
    <3> DEFINE next == IF again[p] THEN "generate" ELSE "warm"
    <3>1. /\ pc[p] \in Critical /\ next \in Critical
          /\ pc' = [pc EXCEPT ![p] = next]
          /\ again' = [again EXCEPT ![p] = TRUE]
          /\ UNCHANGED <<want, slot, mutex>>
      BY <2>4 DEF LoadFails, Critical
    <3>2. again' \in [Process -> BOOLEAN]
      BY <3>1 DEF PlaceOK
    <3> QED
      BY <2>2, <3>1, <3>2, MoveLocks
  <2> QED
    BY <1>5, <2>3, <2>4
<1>6. CASE p \in Request /\ Resume(p)
  <2>1. PICK s \in Slot : Allocate(want[p], s) /\ Join(p, want[p], s)
    BY <1>6 DEF Resume
  <2>2. want[p] \in Database /\ p \notin Database
    BY <1>6, ProcessAssumption DEF Resume, Holdings
  <2>3. ManagerOK'
    BY <2>1, <2>2, AllocateType
  <2>4. PlaceOK' /\ Holdings'
    BY <2>1, <2>2, JoinType
  <2>5. OneHolder'
    BY <1>6, <2>1, <2>2, JoinLocks DEF Resume, Critical
  <2>6. OtherOK'
    BY <1>6 DEF Resume, OtherOK, flags, server
  <2> QED
    BY <2>3, <2>4, <2>5, <2>6
<1>7. CASE p \in Database /\ StartWorker(p)
  <2>1. PICK s \in Slot :
          /\ Allocate(p, s)
          /\ \/ End({p})
             \/ /\ pc' = [pc EXCEPT ![p] = "checking"]
                /\ slot' = [slot EXCEPT ![p] = s]
                /\ UNCHANGED <<want, again, mutex>>
    BY <1>7 DEF StartWorker
  <2>2. ManagerOK' /\ OtherOK'
    BY <1>7, <2>1, AllocateType DEF StartWorker, OtherOK, flags, server
  <2>3. CASE End({p})
    BY <2>3, <2>2, EndType, EndLocks
  <2>4. CASE /\ pc' = [pc EXCEPT ![p] = "checking"]
             /\ slot' = [slot EXCEPT ![p] = s]
             /\ UNCHANGED <<want, again, mutex>>
    <3>1. /\ pc' \in [Process -> {"idle", "awaiting", "resumed", "start", "checking",
                         "queued", "warm", "save", "load", "generate"}]
          /\ pc'[p] = "checking"
          /\ \A q \in Process \ {p} : pc'[q] = pc[q]
      BY <2>4, PlaceSet DEF Busy
    <3>2. PlaceOK' /\ Holdings'
      BY <1>7, <2>4, <3>1 DEF PlaceOK, Holdings, mutex, StartWorker
    <3>3. lock # p
      BY <1>7, ProcessAssumption DEF StartWorker, OneHolder
    <3>4. OneHolder'
      BY <2>4, <3>1, <3>3 DEF OneHolder, Waiting, mutex, PlaceOK
    <3> QED
      BY <3>2, <3>4, <2>2
  <2> QED
    BY <2>1, <2>3, <2>4
<1>8. CASE p \in Database /\ TooLargeFound(p)
  <2>1. ManagerOK' /\ OtherOK'
    BY <1>8 DEF TooLargeFound, ManagerOK, OtherOK, manager, server
  <2> QED
    BY <1>8, <2>1, EndType, EndLocks DEF TooLargeFound
<1>9. CASE p \in Database /\ FitsFound(p)
  <2>1. slot[p] \in Slot
    BY <1>9 DEF FitsFound, Holdings, Busy
  <2>2. ManagerOK' /\ OtherOK'
    BY <1>9 DEF FitsFound, ManagerOK, OtherOK, manager, flags, server
  <2>3. PlaceOK' /\ Holdings' /\ OneHolder'
    BY <1>9, <2>1, JoinType, JoinLocks DEF FitsFound, Critical
  <2> QED
    BY <2>2, <2>3
<1> QED
  BY <1>1, <1>2, <1>3, <1>4, <1>5, <1>6, <1>7, <1>8, <1>9 DEF Step

LEMMA NextBase == Base /\ [Next]_vars => Base'
<1> SUFFICES ASSUME Base, [Next]_vars PROVE Base'
  OBVIOUS
<1> USE DEF Base
<1>1. ASSUME NEW p \in Process, Step(p) PROVE Base'
  BY <1>1, StepBase
<1>2. ASSUME NEW r \in Request, NEW d \in Database, Ask(r, d) PROVE Base'
  <2>1. r \in Process /\ r \notin Database /\ pc[r] = "idle"
    BY <1>2, ProcessAssumption DEF Process, Ask
  <2>2. OtherOK'
    BY <1>2 DEF Ask, OtherOK, flags, server
  <2>3. CASE /\ pc' = [pc EXCEPT ![r] = "awaiting"]
             /\ want' = [want EXCEPT ![r] = d]
             /\ UNCHANGED <<slot, again, mutex, manager>>
    <3>1. /\ pc' \in [Process -> {"idle", "awaiting", "resumed", "start", "checking",
                         "queued", "warm", "save", "load", "generate"}]
          /\ pc'[r] = "awaiting"
          /\ \A q \in Process \ {r} : pc'[q] = pc[q]
      BY <2>1, <2>3, PlaceSet
    <3>2. /\ want' \in [Process -> Database \cup {Nobody}]
          /\ want'[r] = d
          /\ \A q \in Process \ {r} : want'[q] = want[q]
      BY <2>1, <2>3 DEF PlaceOK
    <3>3. PlaceOK' /\ Holdings'
      BY <2>1, <2>3, <3>1, <3>2 DEF PlaceOK, Holdings, mutex, Busy, Critical, Process
    <3>4. OneHolder'
      BY <2>1, <2>3, <3>1 DEF OneHolder, Waiting, mutex, PlaceOK
    <3>5. ManagerOK'
      BY <2>3 DEF ManagerOK, manager
    <3> QED
      BY <2>2, <3>3, <3>4, <3>5
  <2>4. ASSUME NEW s \in Slot, Allocate(d, s), Join(r, d, s) PROVE Base'
    BY <2>1, <2>2, <2>4, AllocateType, JoinType, JoinLocks DEF Critical
  <2> QED
    BY <1>2, <2>3, <2>4 DEF Ask
<1>3. ASSUME NEW d \in Database, SelectDatabase(d) PROVE Base'
  <2>1. ManagerOK'
    BY <1>3, AllocateType DEF SelectDatabase
  <2>2. PlaceOK' /\ Holdings' /\ OneHolder'
    BY <1>3 DEF SelectDatabase, PlaceOK, Holdings, OneHolder, Waiting, locals, mutex
  <2>3. OtherOK'
    BY <1>3 DEF SelectDatabase, OtherOK, server
  <2> QED
    BY <2>1, <2>2, <2>3
<1>4. ASSUME NEW d \in Database, TriggerWarmup(d) PROVE Base'
  <2>1. ManagerOK' /\ OtherOK'
    BY <1>4 DEF TriggerWarmup, ManagerOK, OtherOK, manager, server
  <2>2. d \in Process /\ want[d] = d
    BY DEF Process, Holdings
  <2>3. CASE pc' = pc
    BY <1>4, <2>1, <2>3
    DEF TriggerWarmup, PlaceOK, Holdings, OneHolder, Waiting, mutex
  <2>4. CASE pc' = [pc EXCEPT ![d] = "start"] /\ pc[d] = "idle"
    <3>1. /\ pc' \in [Process -> {"idle", "awaiting", "resumed", "start", "checking",
                         "queued", "warm", "save", "load", "generate"}]
          /\ pc'[d] = "start"
          /\ \A q \in Process \ {d} : pc'[q] = pc[q]
      BY <2>2, <2>4, PlaceSet
    <3>2. PlaceOK' /\ Holdings'
      BY <1>4, <2>2, <3>1 DEF TriggerWarmup, PlaceOK, Holdings, mutex, Busy, Critical
    <3>3. OneHolder'
      BY <1>4, <2>2, <2>4, <3>1 DEF TriggerWarmup, OneHolder, Waiting, mutex, PlaceOK
    <3> QED
      BY <2>1, <3>2, <3>3
  <2> QED
    BY <1>4, <2>3, <2>4 DEF TriggerWarmup
<1>5. ASSUME NEW r \in Request, Disconnect(r) PROVE Base'
  <2>1. r \in Process /\ pc[r] # "idle" /\ want[r] \in Database
    BY <1>5 DEF Process, Disconnect, Holdings
  <2>2. PICK p \in Process, gone \in SUBSET Process : End(gone) /\ CallInFlight(p)
    BY <1>5, <2>1 DEF Disconnect, Process
  <2>3. ManagerOK'
    BY <1>5 DEF Disconnect, ManagerOK, manager
  <2>4. OtherOK'
    BY <1>5, <2>2, CallType DEF Disconnect, OtherOK, flags
  <2> QED
    BY <2>2, <2>3, <2>4, EndType, EndLocks
<1>6. CASE OtherPrompt
  BY <1>6 DEF OtherPrompt, PlaceOK, ManagerOK, OtherOK, Holdings,
     OneHolder, Waiting, locals, mutex, manager, flags
<1>7. CASE UNCHANGED vars
  BY <1>7 DEF vars, PlaceOK, ManagerOK, OtherOK, Holdings,
     OneHolder, Waiting, locals, mutex, manager, flags, server
<1> QED
  BY <1>1, <1>2, <1>3, <1>4, <1>5, <1>6, <1>7 DEF Next

LEMMA Based == Spec => []Base
  BY BaseInit, NextBase, PTL DEF Spec

\* Every variable keeps its type.
THEOREM TypeCorrect == Spec => []TypeOK
<1>1. Base => TypeOK
  BY DEF Base, PlaceOK, ManagerOK, OtherOK, TypeOK
<1> QED
  BY <1>1, Based, PTL

\* The slot lock excludes: whatever fails or is cancelled, only the lock's holder
\* is between restoring a prefix and generating, and a free lock has no queue.
THEOREM LockWorks == Spec => []OneHolder
<1>1. Base => OneHolder
  BY DEF Base
<1> QED
  BY <1>1, Based, PTL

-----------------------------------------------------------------------------
(* Slot allocation without pinned databases                                *)

\* The two maps of the manager agree, and each assigned slot was accessed.
Maps ==
  /\ SlotMapsAgree
  /\ \A d \in Database : db_to_slot[d] # NoSlot => db_to_slot[d] \in used

\* A step that does not allocate a slot leaves the allocation as it is.
LEMMA StepAllocates ==
  ASSUME Base, [Next]_vars
  PROVE  \/ \E d \in Database, s \in Slot : Allocate(d, s)
         \/ UNCHANGED <<db_to_slot, slot_to_db, used, older, reused, later>>
<1> USE DEF Base
<1>1. ASSUME NEW p \in Process, Step(p)
      PROVE  \/ \E d \in Database, s \in Slot : Allocate(d, s)
             \/ UNCHANGED <<db_to_slot, slot_to_db, used, older, reused, later>>
  <2>1. CASE p \in Request /\ Resume(p)
    <3>1. want[p] \in Database
      BY <2>1 DEF Resume, Holdings, Process
    <3> QED
      BY <2>1, <3>1 DEF Resume
  <2>2. CASE p \in Database /\ StartWorker(p)
    BY <2>2 DEF StartWorker
  <2>3. CASE Enter(p) \/ Warm(p) \/ Saved(p) \/ SaveFails(p) \/ GenerateFails(p)
    BY <2>3 DEF Enter, Warm, Saved, SaveFails, GenerateFails, manager
  <2>4. CASE \/ p \in Request /\ (Loaded(p) \/ LoadFails(p) \/ Generated(p))
             \/ p \in Database /\ (TooLargeFound(p) \/ FitsFound(p))
    BY <2>4 DEF Loaded, LoadFails, Generated, TooLargeFound, FitsFound, manager
  <2> QED
    BY <1>1, <2>1, <2>2, <2>3, <2>4 DEF Step
<1>2. ASSUME NEW r \in Request, NEW d \in Database, Ask(r, d)
      PROVE  \/ \E e \in Database, s \in Slot : Allocate(e, s)
             \/ UNCHANGED <<db_to_slot, slot_to_db, used, older, reused, later>>
  BY <1>2 DEF Ask, manager
<1>3. ASSUME NEW d \in Database, SelectDatabase(d) \/ TriggerWarmup(d)
      PROVE  \/ \E e \in Database, s \in Slot : Allocate(e, s)
             \/ UNCHANGED <<db_to_slot, slot_to_db, used, older, reused, later>>
  BY <1>3 DEF SelectDatabase, TriggerWarmup, manager
<1>4. ASSUME NEW r \in Request, Disconnect(r)
      PROVE  UNCHANGED <<db_to_slot, slot_to_db, used, older, reused, later>>
  BY <1>4 DEF Disconnect, manager
<1>5. CASE OtherPrompt \/ UNCHANGED vars
  BY <1>5 DEF OtherPrompt, vars, manager
<1> QED
  BY <1>1, <1>2, <1>3, <1>4, <1>5 DEF Next

LEMMA AllocateMaps ==
  ASSUME DOMAIN Pinned = {}, ManagerOK, Maps,
         NEW d \in Database, NEW s \in Slot, Allocate(d, s)
  PROVE  Maps'
<1>1. NoSlot \notin Slot /\ Nobody \notin Database
  BY SlotsAreSlots, ProcessAssumption DEF Process
<1>2. ~IsPinned(d)
  BY DEF IsPinned
<1>3. used' = used \cup {s} /\ db_to_slot'[d] = s
  BY DEF Allocate, ManagerOK
<1>4. CASE IsAssigned(d)
  <2>1. s = db_to_slot[d] /\ Evicted(d, s) = {}
    BY <1>4 DEF Allocate, Picks, IsPinned, IsAssigned, TakesFree, Evicts, Evicted
  <2>2. slot_to_db' = slot_to_db /\ db_to_slot' = db_to_slot /\ used' = used
    BY <1>4, <1>3, <2>1, <1>1 DEF Allocate, ManagerOK, Maps, IsAssigned
  <2> QED
    BY <2>2 DEF Maps, SlotMapsAgree
<1>5. CASE TakesFree(d)
  <2>1. s \notin used /\ Evicted(d, s) = {} /\ ~IsAssigned(d)
    BY <1>5 DEF Allocate, Picks, IsPinned, IsAssigned, TakesFree, Evicts, Evicted, Free
  <2>2. /\ slot_to_db' = [slot_to_db EXCEPT ![s] = d]
        /\ \A e \in Database \ {d} : db_to_slot'[e] = db_to_slot[e]
    BY <2>1 DEF Allocate
  <2>3. db_to_slot[d] = NoSlot
    BY <1>5 DEF TakesFree
  <2> QED
    BY <1>1, <1>3, <2>1, <2>2, <2>3 DEF Maps, SlotMapsAgree, ManagerOK
<1>6. CASE Evicts(d)
  <2>1. s \in used /\ ~IsAssigned(d) /\ db_to_slot[d] = NoSlot
    BY <1>6 DEF Allocate, Picks, IsPinned, IsAssigned, TakesFree, Evicts
  <2>2. PICK e \in Database : db_to_slot[e] = s
    BY <2>1 DEF Maps, SlotMapsAgree
  <2>3. slot_to_db[s] = e /\ e # d
    BY <2>1, <2>2, <1>1 DEF Maps, SlotMapsAgree
  <2>4. Evicted(d, s) = {e}
    BY <1>6, <2>2, <2>3, <1>1 DEF Evicted
  <2>5. /\ slot_to_db' = [slot_to_db EXCEPT ![s] = d]
        /\ db_to_slot'[e] = NoSlot
        /\ \A f \in Database \ {d, e} : db_to_slot'[f] = db_to_slot[f]
    BY <2>1, <2>3, <2>4 DEF Allocate
  <2>6. \A f \in Database \ {e} : db_to_slot[f] # s
    BY <2>2, <2>3, <1>1 DEF Maps, SlotMapsAgree
  <2> QED
    BY <1>1, <1>3, <2>1, <2>2, <2>5, <2>6 DEF Maps, SlotMapsAgree, ManagerOK
<1> QED
  BY <1>2, <1>4, <1>5, <1>6 DEF IsAssigned, TakesFree, Evicts

\* Without pinned databases the two maps of the manager agree: no two databases
\* share a slot, and every slot is free or owned.
THEOREM MapsAgree ==
  ASSUME DOMAIN Pinned = {} PROVE Spec => []SlotMapsAgree
<1>1. Init => Maps
  BY DEF Init, Maps, SlotMapsAgree
<1>2. Maps /\ Base /\ [Next]_vars => Maps'
  <2> SUFFICES ASSUME Maps, Base, [Next]_vars PROVE Maps'
    OBVIOUS
  <2>1. ASSUME NEW d \in Database, NEW s \in Slot, Allocate(d, s) PROVE Maps'
    BY <2>1, AllocateMaps DEF Base
  <2>2. CASE UNCHANGED <<db_to_slot, slot_to_db, used, older, reused, later>>
    BY <2>2 DEF Maps, SlotMapsAgree
  <2> QED
    BY <2>1, <2>2, StepAllocates
<1>3. Maps => SlotMapsAgree
  BY DEF Maps
<1> QED
  BY <1>1, <1>2, <1>3, Based, PTL DEF Spec

-----------------------------------------------------------------------------
(* Least recently used                                                     *)

\* The databases used after d.
Since(d) == {e \in Database : <<d, e>> \in later}

\* The order of the slots is the order of their databases, and it is total.
LruOrder ==
  /\ \A d, e \in Database :
       /\ d # e /\ db_to_slot[d] # NoSlot /\ db_to_slot[e] # NoSlot
       /\ <<db_to_slot[d], db_to_slot[e]>> \in older
       => <<d, e>> \in later
  /\ \A s, t \in used : s # t => <<s, t>> \in older \/ <<t, s>> \in older
  /\ EvictsLeastRecent

LEMMA TouchAdds ==
  ASSUME NEW order, NEW x, NEW all, NEW a, NEW b
  PROVE  /\ a # x /\ b # x => (<<a, b>> \in Touch(order, x, all) <=> <<a, b>> \in order)
         /\ a # x => (<<a, x>> \in Touch(order, x, all) <=> a \in all)
         /\ <<x, b>> \notin Touch(order, x, all)
<1>1. /\ a # x /\ b # x => (<<a, b>> \in Touch(order, x, all) <=> <<a, b>> \in order)
      /\ a # x => (<<a, x>> \in Touch(order, x, all) <=> a \in all)
  BY DEF Touch, Without
<1>2. <<x, b>> \notin Without(order, x)
  BY DEF Without
<1>3. <<x, b>> \notin (all \ {x}) \X {x}
  OBVIOUS
<1> QED
  BY <1>1, <1>2, <1>3 DEF Touch

\* The evicted database e has been followed by d and by the owner of each
\* other slot.
LEMMA EvictedIsOldest ==
  ASSUME IsFiniteSet(Database), DOMAIN Pinned = {}, ManagerOK, Maps, LruOrder,
         NEW d \in Database, NEW s \in Slot, Allocate(d, s), Evicts(d),
         NEW e \in Database, db_to_slot[e] = s, e # d
  PROVE  Cardinality(Since(e)') >= MaxSlots
<1>1. NoSlot \notin Slot /\ Nobody \notin Database
  BY SlotsAreSlots, ProcessAssumption DEF Process
<1>2. /\ s \in used /\ \A t \in used : <<t, s>> \notin older
      /\ 0 .. MaxSlots - 1 \subseteq used
      /\ db_to_slot[d] = NoSlot
  BY DEF Allocate, Picks, IsPinned, IsAssigned, TakesFree, Evicts, Free
<1> DEFINE owner(t) == CHOOSE f \in Database : db_to_slot[f] = t
           follower == [t \in 0 .. MaxSlots - 1 |-> IF t = s THEN d ELSE owner(t)]
<1>3. \A t \in used : owner(t) \in Database /\ db_to_slot[owner(t)] = t
  BY DEF Maps, SlotMapsAgree
<1>4. ASSUME NEW t \in used \ {s}
      PROVE  owner(t) # d /\ owner(t) # e /\ <<e, owner(t)>> \in later
  <2>1. /\ owner(t) \in Database /\ db_to_slot[owner(t)] = t
        /\ t \in Slot /\ <<s, t>> \in older
    BY <1>2, <1>3 DEF ManagerOK, LruOrder
  <2> HIDE DEF owner
  <2> QED
    BY <1>1, <1>2, <2>1 DEF LruOrder
<1>5. later' = Touch(later, d, UsedBefore)
  BY DEF Allocate
<1>6. e \in UsedBefore
  BY <1>1 DEF UsedBefore
<1>7. \A t \in 0 .. MaxSlots - 1 : follower[t] \in Since(e)'
  <2> TAKE t \in 0 .. MaxSlots - 1
  <2>1. CASE t = s
    BY <1>5, <1>6, <2>1, TouchAdds DEF Since
  <2>2. CASE t # s
    <3>1. t \in used \ {s}
      BY <1>2, <2>2
    <3>2. follower[t] = owner(t) /\ owner(t) \in Database
      BY <1>3, <2>2, <3>1
    <3> HIDE DEF owner, follower
    <3>3. <<e, owner(t)>> \in later'
      BY <1>4, <1>5, <3>1, TouchAdds
    <3> QED
      BY <3>2, <3>3 DEF Since
  <2> QED
    BY <2>1, <2>2
<1>8. follower \in Injection(0 .. MaxSlots - 1, Since(e)')
  <2>1. ASSUME NEW t \in 0 .. MaxSlots - 1, NEW u \in 0 .. MaxSlots - 1,
               follower[t] = follower[u]
        PROVE  t = u
    <3>1. /\ t # s => follower[t] = owner(t) /\ owner(t) # d /\ db_to_slot[owner(t)] = t
          /\ u # s => follower[u] = owner(u) /\ owner(u) # d /\ db_to_slot[owner(u)] = u
          /\ t = s => follower[t] = d
          /\ u = s => follower[u] = d
      BY <1>2, <1>3, <1>4
    <3> QED
      BY <2>1, <3>1
  <2>2. follower \in [0 .. MaxSlots - 1 -> Since(e)']
    BY <1>7
  <2> HIDE DEF follower
  <2> QED
    BY <2>1, <2>2 DEF Injection, IsInjective
<1>9. IsFiniteSet(Since(e)')
  BY FS_Subset DEF Since
<1>10. Cardinality(0 .. MaxSlots - 1) = MaxSlots
  BY FS_Interval, SlotAssumption
<1>11. Cardinality(0 .. MaxSlots - 1) <= Cardinality(Since(e)')
  BY <1>8, <1>9, FS_Injection
<1> QED
  BY <1>9, <1>10, <1>11, FS_CardinalityType, SlotAssumption

LEMMA AllocateOrder ==
  ASSUME IsFiniteSet(Database), DOMAIN Pinned = {}, ManagerOK, Maps, LruOrder,
         NEW d \in Database, NEW s \in Slot, Allocate(d, s)
  PROVE  LruOrder'
<1>1. NoSlot \notin Slot /\ Nobody \notin Database
  BY SlotsAreSlots, ProcessAssumption DEF Process
<1>2. Maps' /\ ManagerOK'
  BY AllocateMaps, AllocateType
<1>3. /\ later' = Touch(later, d, UsedBefore) /\ older' = Touch(older, s, used)
      /\ used' = used \cup {s} /\ db_to_slot'[d] = s
  BY DEF Allocate, ManagerOK
<1>4. \A e \in Database \ {d} : \/ db_to_slot'[e] = db_to_slot[e]
                                \/ db_to_slot'[e] = NoSlot /\ db_to_slot[e] = s /\ Evicts(d)
  <2> SUFFICES ASSUME NEW e \in Database \ {d}, e \in Evicted(d, s)
               PROVE  Evicts(d) /\ db_to_slot[e] = s
    BY DEF Allocate, ManagerOK
  <2>1. Evicts(d) /\ e = slot_to_db[s] /\ s \in used
    BY DEF Evicted, Allocate, Picks, IsPinned, IsAssigned, TakesFree, Evicts
  <2> QED
    BY <1>1, <2>1 DEF Maps, SlotMapsAgree, ManagerOK
<1>5. \A e \in Database \ {d} : db_to_slot'[e] # s
  BY <1>1, <1>2, <1>3 DEF Maps, SlotMapsAgree
<1>6. ASSUME NEW e \in Database, NEW f \in Database, e # f,
             db_to_slot'[e] # NoSlot, db_to_slot'[f] # NoSlot,
             <<db_to_slot'[e], db_to_slot'[f]>> \in older'
      PROVE  <<e, f>> \in later'
  <2>1. CASE e = d
    <3>1. <<s, db_to_slot'[f]>> \in Touch(older, s, used)
      BY <1>3, <1>6, <2>1
    <3>2. \A b : <<s, b>> \notin Touch(older, s, used)
      BY TouchAdds
    <3> QED
      BY <3>1, <3>2
  <2>2. CASE f = d
    <3>1. e \in UsedBefore
      BY <1>4, <1>6, <2>2 DEF UsedBefore
    <3> QED
      BY <1>3, <1>6, <2>2, <3>1, TouchAdds
  <2>3. CASE e # d /\ f # d
    <3>1. /\ db_to_slot'[e] = db_to_slot[e] /\ db_to_slot'[f] = db_to_slot[f]
          /\ db_to_slot[e] # s /\ db_to_slot[f] # s
      BY <1>4, <1>5, <1>6, <2>3
    <3>2. <<db_to_slot[e], db_to_slot[f]>> \in older
      <4>1. <<db_to_slot[e], db_to_slot[f]>> \in Touch(older, s, used)
        BY <1>3, <1>6, <3>1
      <4>2. db_to_slot[e] # s /\ db_to_slot[f] # s
        BY <3>1
      <4> QED
        BY ONLY <4>1, <4>2, TouchAdds
    <3>3. <<e, f>> \in later
      BY <1>6, <3>1, <3>2 DEF LruOrder
    <3> QED
      BY <1>3, <2>3, <3>3, TouchAdds
  <2> QED
    BY <2>1, <2>2, <2>3
<1>7. ASSUME NEW t \in used', NEW u \in used', t # u
      PROVE  <<t, u>> \in older' \/ <<u, t>> \in older'
  BY <1>3, <1>7, TouchAdds DEF LruOrder
<1>8. ASSUME NEW e \in Database, e \in UsedBefore', db_to_slot'[e] = NoSlot
      PROVE  Cardinality(Since(e)') >= MaxSlots
  <2>1. e # d
    BY <1>1, <1>3, <1>8
  <2>2. CASE db_to_slot[e] # NoSlot
    <3>1. Evicts(d) /\ db_to_slot[e] = s
      BY <1>4, <1>8, <2>1, <2>2
    <3> QED
      BY <2>1, <3>1, EvictedIsOldest
  <2>3. CASE db_to_slot[e] = NoSlot
    <3>1. PICK f \in Database : <<e, f>> \in later'
      BY <1>8 DEF UsedBefore
    <3>2. e \in UsedBefore
      <4>1. CASE f = d
        BY <1>3, <2>1, <3>1, <4>1, TouchAdds
      <4>2. CASE f # d
        <5>1. <<e, f>> \in later
          BY <1>3, <2>1, <3>1, <4>2, TouchAdds
        <5> QED
          BY <5>1 DEF UsedBefore
      <4> QED
        BY <4>1, <4>2
    <3>3. Cardinality(Since(e)) >= MaxSlots
      BY <2>3, <3>2 DEF LruOrder, EvictsLeastRecent, Since
    <3>4. Since(e) \subseteq Since(e)'
      BY <1>3, <2>1, <3>2, TouchAdds DEF Since
    <3>5. IsFiniteSet(Since(e)') /\ IsFiniteSet(Since(e))
      BY FS_Subset DEF Since
    <3>6. Cardinality(Since(e)) <= Cardinality(Since(e)')
      BY <3>4, <3>5, FS_Subset
    <3> QED
      BY <3>3, <3>5, <3>6, FS_CardinalityType, SlotAssumption
  <2> QED
    BY <2>2, <2>3
<1>9. EvictsLeastRecent'
  BY <1>8 DEF EvictsLeastRecent, Since, UsedBefore
<1> QED
  BY <1>6, <1>7, <1>9 DEF LruOrder

\* Without pinned databases the replacement is least-recently-used: a database
\* that lost its slot was followed by as many others as there are slots.
THEOREM LeastRecentIsEvicted ==
  ASSUME IsFiniteSet(Database), DOMAIN Pinned = {}
  PROVE  Spec => []EvictsLeastRecent
<1>1. Init => Maps /\ LruOrder
  BY DEF Init, Maps, SlotMapsAgree, LruOrder, EvictsLeastRecent, UsedBefore
<1>2. Maps /\ LruOrder /\ Base /\ [Next]_vars => Maps' /\ LruOrder'
  <2> SUFFICES ASSUME Maps, LruOrder, Base, [Next]_vars PROVE Maps' /\ LruOrder'
    OBVIOUS
  <2>1. ASSUME NEW d \in Database, NEW s \in Slot, Allocate(d, s)
        PROVE  Maps' /\ LruOrder'
    BY <2>1, AllocateMaps, AllocateOrder DEF Base
  <2>2. CASE UNCHANGED <<db_to_slot, slot_to_db, used, older, reused, later>>
    BY <2>2 DEF Maps, SlotMapsAgree, LruOrder, EvictsLeastRecent, UsedBefore
  <2> QED
    BY <2>1, <2>2, StepAllocates
<1>3. LruOrder => EvictsLeastRecent
  BY DEF LruOrder
<1> QED
  BY <1>1, <1>2, <1>3, Based, PTL DEF Spec

-----------------------------------------------------------------------------
(* What a slot holds                                                       *)

\* A slot that never had a second owner belongs to the database of everyone who
\* was given it, and holds its prefix once it is warmed.
Owned ==
  /\ \A p \in Process : pc[p] \in Busy /\ slot[p] \notin reused
                          => slot_to_db[slot[p]] = want[p]
  /\ \A d \in Database : db_to_slot[d] # NoSlot /\ db_to_slot[d] \notin reused
                           => slot_to_db[db_to_slot[d]] = d
  /\ \A s \in warmed \ reused : slot_to_db[s] # Nobody /\ stored[s] = slot_to_db[s]

\* What is about to be saved is the prefix that was just warmed.
Probed == \A p \in Process : pc[p] = "save" => live = want[p]

Kept == Owned /\ Probed /\ disabled = {}

\* The parts of Owned that an allocation disturbs.
LEMMA AllocateOwned ==
  ASSUME Base, Owned, NEW d \in Database, NEW s \in Slot, Allocate(d, s)
  PROVE  /\ reused \subseteq reused'
         /\ \A t \in Slot \ reused' :
              slot_to_db'[t] # slot_to_db[t] => t = s /\ slot_to_db[t] = Nobody
         /\ s \notin reused' => slot_to_db'[s] = d
         /\ \A e \in Database : db_to_slot'[e] # NoSlot /\ db_to_slot'[e] \notin reused'
                                  => slot_to_db'[db_to_slot'[e]] = e
         /\ \A t \in warmed' \ reused' : t \in warmed /\ slot_to_db'[t] = slot_to_db[t]
<1> USE DEF Base
<1>1. NoSlot \notin Slot /\ Nobody \notin Database
  BY SlotsAreSlots, ProcessAssumption DEF Process
<1>2. /\ reused \subseteq reused' /\ warmed' \subseteq warmed
      /\ s \notin reused' => slot_to_db[s] \in {Nobody, d}
  BY DEF Allocate
<1>3. \A t \in Slot \ {s} : slot_to_db'[t] = slot_to_db[t]
  BY DEF Allocate, ManagerOK
<1>4. slot_to_db'[s] = d \/ slot_to_db' = slot_to_db
  BY DEF Allocate, ManagerOK
<1>5. ASSUME s \notin reused' PROVE slot_to_db'[s] = d
  <2>1. CASE IsAssigned(d)
    <3>1. s = db_to_slot[d] /\ db_to_slot[d] # NoSlot
      BY <2>1 DEF Allocate, Picks, IsPinned, IsAssigned, TakesFree, Evicts
    <3>2. slot_to_db' = slot_to_db
      BY <2>1 DEF Allocate
    <3> QED
      BY <1>2, <1>5, <3>1, <3>2 DEF Owned
  <2>2. CASE ~IsAssigned(d)
    BY <2>2 DEF Allocate, ManagerOK
  <2> QED
    BY <2>1, <2>2
<1>6. \A t \in Slot \ reused' :
        slot_to_db'[t] # slot_to_db[t] => t = s /\ slot_to_db[t] = Nobody
  BY <1>2, <1>3, <1>5
<1>7. ASSUME NEW e \in Database, db_to_slot'[e] # NoSlot, db_to_slot'[e] \notin reused'
      PROVE  slot_to_db'[db_to_slot'[e]] = e
  <2>1. CASE e = d
    <3>1. db_to_slot'[e] = s
      BY <2>1 DEF Allocate, ManagerOK
    <3> QED
      BY <1>5, <1>7, <2>1, <3>1
  <2>2. CASE e # d
    <3>1. db_to_slot'[e] = db_to_slot[e]
      BY <1>7, <2>2 DEF Allocate, ManagerOK
    <3>2. slot_to_db[db_to_slot[e]] = e /\ db_to_slot[e] \in Slot
      BY <1>2, <1>7, <3>1 DEF Owned, ManagerOK
    <3> QED
      BY <1>1, <1>6, <1>7, <3>1, <3>2
  <2> QED
    BY <2>1, <2>2
<1>8. ASSUME NEW t \in warmed' \ reused'
      PROVE  t \in warmed /\ slot_to_db'[t] = slot_to_db[t]
  BY <1>2, <1>6, <1>8 DEF Owned, ManagerOK
<1> QED
  BY <1>2, <1>5, <1>6, <1>7, <1>8

\* An allocation for d leaves Owned, if whoever is given the slot works for d.
LEMMA AllocateKeepsOwned ==
  ASSUME Base, Owned, NEW d \in Database, NEW s \in Slot, Allocate(d, s),
         stored' = stored, NEW p,
         \A q \in Process \ {p} : pc'[q] \in Busy =>
           pc[q] \in Busy /\ slot'[q] = slot[q] /\ want'[q] = want[q],
         p \in Process /\ pc'[p] \in Busy => slot'[p] = s /\ want'[p] = d
  PROVE  Owned'
<1>1. /\ reused \subseteq reused'
      /\ \A t \in Slot \ reused' :
           slot_to_db'[t] # slot_to_db[t] => t = s /\ slot_to_db[t] = Nobody
      /\ s \notin reused' => slot_to_db'[s] = d
      /\ \A e \in Database : db_to_slot'[e] # NoSlot /\ db_to_slot'[e] \notin reused'
                               => slot_to_db'[db_to_slot'[e]] = e
      /\ \A t \in warmed' \ reused' : t \in warmed /\ slot_to_db'[t] = slot_to_db[t]
  BY AllocateOwned
<1>2. ASSUME NEW q \in Process, pc'[q] \in Busy, slot'[q] \notin reused'
      PROVE  slot_to_db'[slot'[q]] = want'[q]
  <2>1. CASE q = p
    BY <1>1, <1>2, <2>1
  <2>2. CASE q # p
    <3>1. pc[q] \in Busy /\ slot'[q] = slot[q] /\ want'[q] = want[q]
      BY <1>2, <2>2
    <3>2. slot[q] \in Slot /\ slot_to_db[slot[q]] = want[q] /\ want[q] \in Database
      BY <1>1, <1>2, <3>1 DEF Owned, Base, Holdings, Busy, Critical
    <3>3. want[q] # Nobody
      BY <3>2, ProcessAssumption DEF Process
    <3> QED
      BY <1>1, <1>2, <3>1, <3>2, <3>3
  <2> QED
    BY <2>1, <2>2
<1>3. ASSUME NEW t \in warmed' \ reused'
      PROVE  slot_to_db'[t] # Nobody /\ stored'[t] = slot_to_db'[t]
  BY <1>1, <1>3 DEF Owned
<1> QED
  BY <1>1, <1>2, <1>3 DEF Owned

\* A step of p that allocates nothing.
LEMMA QuietKept ==
  ASSUME Base, Kept, NEW p \in Process,
         UNCHANGED <<db_to_slot, slot_to_db, reused, disabled>>,
         \A q \in Process : pc'[q] \in Busy =>
           pc[q] \in Busy /\ slot'[q] = slot[q] /\ want'[q] = want[q],
         \A q \in Process \ {p} : pc'[q] = "save" => pc[q] = "save",
         pc'[p] = "save" => live' = want[p],
         live' = live \/ pc[p] \in Critical,
         \/ stored' = stored
         \/ pc[p] = "save" /\ stored' = [stored EXCEPT ![slot[p]] = live],
         \/ warmed' = warmed
         \/ /\ pc[p] = "save" /\ stored' = [stored EXCEPT ![slot[p]] = live]
            /\ warmed' = warmed \cup {slot[p]}
  PROVE  Kept'
<1> USE DEF Base
<1>1. ASSUME NEW q \in Process, pc'[q] = "save" PROVE live' = want'[q]
  <2>1. want'[q] = want[q]
    BY <1>1 DEF Busy, Critical
  <2>2. CASE q = p
    BY <1>1, <2>1, <2>2
  <2>3. CASE q # p
    <3>1. pc[q] = "save" /\ lock = q
      BY <1>1, <2>3 DEF OneHolder
    <3>2. pc[p] \notin Critical
      BY <2>3, <3>1 DEF OneHolder, Critical
    <3> QED
      BY <2>1, <3>1, <3>2 DEF Kept, Probed
  <2> QED
    BY <2>2, <2>3
<1>2. ASSUME NEW t \in warmed' \ reused
      PROVE  slot_to_db[t] # Nobody /\ stored'[t] = slot_to_db[t]
  <2>1. CASE pc[p] = "save" /\ stored' = [stored EXCEPT ![slot[p]] = live]
    <3>1. slot[p] \in Slot /\ want[p] \in Database /\ live = want[p]
      BY <2>1 DEF Holdings, Busy, Critical, Kept, Probed
    <3>2. want[p] # Nobody
      BY <3>1, ProcessAssumption DEF Process
    <3>3. CASE t = slot[p]
      BY <1>2, <2>1, <3>1, <3>2, <3>3 DEF Kept, Owned, Busy, Critical, OtherOK
    <3>4. CASE t # slot[p]
      <4>1. t \in warmed \ reused
        BY <1>2, <3>4
      <4>2. stored'[t] = stored[t]
        BY <2>1, <3>4, <4>1 DEF OtherOK, ManagerOK
      <4> QED
        BY <4>1, <4>2 DEF Kept, Owned
    <3> QED
      BY <3>3, <3>4
  <2>2. CASE stored' = stored /\ warmed' = warmed
    BY <1>2, <2>2 DEF Kept, Owned
  <2> QED
    BY <2>1, <2>2
<1>3. Owned'
  BY <1>2 DEF Kept, Owned
<1> QED
  BY <1>1, <1>3 DEF Kept, Probed

LEMMA StepKept ==
  ASSUME TooLarge = {}, Base, Kept, NEW p \in Process, Step(p)
  PROVE  Kept'
<1> USE DEF Base
<1>0. \A gone \in SUBSET Process : End(gone) =>
        /\ \A q \in gone : pc'[q] = "idle"
        /\ \A q \in Process \ gone :
             /\ pc'[q] = pc[q] \/ (pc'[q] = "resumed" /\ pc[q] = "awaiting")
             /\ want'[q] = want[q] /\ slot'[q] = slot[q]
  BY EndType
<1>1. CASE Enter(p)
  <2>1. /\ \A q \in Process \ {p} : pc'[q] = pc[q]
        /\ pc'[p] \in {"load", "warm"} /\ pc[p] = "queued"
    BY <1>1 DEF Enter, Inside, PlaceOK
  <2> QED
    BY <1>1, <2>1, QuietKept DEF Enter, manager, flags, server, Busy, Critical
<1>2. CASE Warm(p)
  <2>1. /\ \A q \in Process \ {p} : pc'[q] = pc[q]
        /\ pc'[p] = "save" /\ pc[p] = "warm"
    BY <1>2 DEF Warm, PlaceOK
  <2> QED
    BY <1>2, <2>1, QuietKept DEF Warm, manager, flags, Busy, Critical
<1>3. CASE Saved(p) \/ SaveFails(p)
  <2>1. /\ \A q \in Process \ {p} :
             /\ pc'[q] = pc[q] \/ (pc'[q] = "resumed" /\ pc[q] = "awaiting")
             /\ want'[q] = want[q] /\ slot'[q] = slot[q]
        /\ pc[p] = "save"
        /\ \/ pc'[p] = "idle"
           \/ pc'[p] = "load" /\ want' = want /\ slot' = slot
    BY <1>0, <1>3 DEF Saved, SaveFails, PlaceOK
  <2>2. \A q \in Process : pc'[q] \in Busy =>
          pc[q] \in Busy /\ slot'[q] = slot[q] /\ want'[q] = want[q]
    BY <2>1 DEF Busy, Critical
  <2> QED
    BY <1>3, <2>1, <2>2, QuietKept DEF Saved, SaveFails, manager, flags
<1>4. CASE GenerateFails(p) \/ (p \in Request /\ Generated(p))
  <2>1. /\ \A q \in Process \ {p} :
             /\ pc'[q] = pc[q] \/ (pc'[q] = "resumed" /\ pc[q] = "awaiting")
             /\ want'[q] = want[q] /\ slot'[q] = slot[q]
        /\ pc[p] \in Critical /\ pc'[p] = "idle"
    BY <1>0, <1>4 DEF GenerateFails, Generated, Critical
  <2>2. \A q \in Process : pc'[q] \in Busy =>
          pc[q] \in Busy /\ slot'[q] = slot[q] /\ want'[q] = want[q]
    BY <2>1 DEF Busy, Critical
  <2> QED
    BY <1>4, <2>1, <2>2, QuietKept DEF GenerateFails, Generated, manager, flags
<1>5. CASE p \in Request /\ (Loaded(p) \/ LoadFails(p))
  <2>1. /\ \A q \in Process \ {p} : pc'[q] = pc[q]
        /\ pc'[p] \in {"warm", "generate"} /\ pc[p] = "load"
    BY <1>5 DEF Loaded, LoadFails, PlaceOK
  <2> QED
    BY <1>5, <2>1, QuietKept DEF Loaded, LoadFails, manager, flags, Busy, Critical
<1>6. CASE p \in Request /\ Resume(p)
  <2>1. PICK s \in Slot : Allocate(want[p], s) /\ Join(p, want[p], s)
    BY <1>6 DEF Resume
  <2>2. want[p] \in Database /\ p \notin Database
    BY <1>6, ProcessAssumption DEF Resume, Holdings
  <2>3. /\ \A q \in Process \ {p} :
             pc'[q] = pc[q] /\ want'[q] = want[q] /\ slot'[q] = slot[q]
        /\ pc'[p] # "save" /\ want'[p] = want[p] /\ slot'[p] = s
    BY <2>1, <2>2, JoinType DEF Join, PlaceOK
  <2>4. UNCHANGED <<live, stored, disabled>>
    BY <1>6 DEF Resume, flags, server
  <2>5. Owned'
    BY <2>1, <2>2, <2>3, <2>4, AllocateKeepsOwned DEF Kept
  <2> QED
    BY <2>3, <2>4, <2>5 DEF Kept, Probed
<1>7. CASE p \in Database /\ StartWorker(p)
  <2>1. PICK s \in Slot :
          /\ Allocate(p, s)
          /\ \/ End({p})
             \/ /\ pc' = [pc EXCEPT ![p] = "checking"]
                /\ slot' = [slot EXCEPT ![p] = s]
                /\ UNCHANGED <<want, again, mutex>>
    BY <1>7 DEF StartWorker
  <2>2. want[p] = p /\ UNCHANGED <<live, stored, disabled>>
    BY <1>7 DEF StartWorker, flags, server, Holdings
  <2>3. /\ \A q \in Process \ {p} :
             /\ pc'[q] = pc[q] \/ (pc'[q] = "resumed" /\ pc[q] = "awaiting")
             /\ want'[q] = want[q] /\ slot'[q] = slot[q]
        /\ \/ pc'[p] = "idle"
           \/ pc'[p] = "checking" /\ slot'[p] = s /\ want'[p] = want[p]
    BY <1>0, <2>1 DEF PlaceOK
  <2>4. Owned'
    BY <1>7, <2>1, <2>2, <2>3, AllocateKeepsOwned DEF Kept, Busy, Critical
  <2> QED
    BY <2>2, <2>3, <2>4 DEF Kept, Probed
<1>8. CASE p \in Database /\ TooLargeFound(p)
  BY <1>8 DEF TooLargeFound
<1>9. CASE p \in Database /\ FitsFound(p)
  <2>1. want[p] = p /\ slot[p] \in Slot /\ pc[p] = "checking"
    BY <1>9 DEF FitsFound, Holdings, Busy
  <2>2. /\ \A q \in Process \ {p} :
             pc'[q] = pc[q] /\ want'[q] = want[q] /\ slot'[q] = slot[q]
        /\ pc'[p] # "save" /\ want'[p] = want[p] /\ slot'[p] = slot[p]
    <3>1. Join(p, p, slot[p]) /\ PlaceOK /\ Holdings
      BY <1>9, <2>1 DEF FitsFound
    <3>2. want' = [want EXCEPT ![p] = p] /\ slot' = [slot EXCEPT ![p] = slot[p]]
      BY <3>1 DEF Join
    <3>3. /\ want'[p] = want[p] /\ slot'[p] = slot[p]
          /\ \A q \in Process \ {p} : want'[q] = want[q] /\ slot'[q] = slot[q]
      BY <2>1, <3>1, <3>2 DEF PlaceOK
    <3>4. pc'[p] # "save" /\ \A q \in Process \ {p} : pc'[q] = pc[q]
      BY <1>9, <2>1, <3>1, JoinType
    <3> QED
      BY <3>3, <3>4
  <2> QED
    BY <1>9, <2>1, <2>2, QuietKept DEF FitsFound, manager, flags, server, Busy
<1> QED
  BY <1>1, <1>2, <1>3, <1>4, <1>5, <1>6, <1>7, <1>8, <1>9 DEF Step

LEMMA NextKept ==
  ASSUME ~SharedServer, TooLarge = {}, Base, Kept, [Next]_vars
  PROVE  Kept'
<1> USE DEF Base
<1>1. ASSUME NEW p \in Process, Step(p) PROVE Kept'
  BY <1>1, StepKept
<1>2. ASSUME NEW r \in Request, NEW d \in Database, Ask(r, d) PROVE Kept'
  <2>1. r \in Process /\ r \notin Database /\ pc[r] = "idle"
    BY <1>2, ProcessAssumption DEF Process, Ask
  <2>2. UNCHANGED <<live, stored, disabled>>
    BY <1>2 DEF Ask, flags, server
  <2>3. CASE /\ pc' = [pc EXCEPT ![r] = "awaiting"]
             /\ want' = [want EXCEPT ![r] = d]
             /\ UNCHANGED <<slot, again, mutex, manager>>
    <3>1. /\ \A q \in Process \ {r} : pc'[q] = pc[q] /\ want'[q] = want[q]
          /\ pc'[r] = "awaiting" /\ slot' = slot
      BY <2>1, <2>3 DEF PlaceOK
    <3> QED
      BY <2>1, <2>2, <2>3, <3>1, QuietKept DEF manager, Busy, Critical
  <2>4. ASSUME NEW s \in Slot, Allocate(d, s), Join(r, d, s) PROVE Kept'
    <3>1. /\ \A q \in Process \ {r} :
               pc'[q] = pc[q] /\ want'[q] = want[q] /\ slot'[q] = slot[q]
          /\ pc'[r] # "save" /\ want'[r] = d /\ slot'[r] = s
      BY <2>1, <2>4, JoinType DEF Join, PlaceOK
    <3>2. Owned'
      BY <2>2, <2>4, <3>1, AllocateKeepsOwned DEF Kept
    <3> QED
      BY <2>2, <3>1, <3>2 DEF Kept, Probed
  <2> QED
    BY <1>2, <2>3, <2>4 DEF Ask
<1>3. ASSUME NEW d \in Database, SelectDatabase(d) PROVE Kept'
  <2>1. PICK s \in Slot : Allocate(d, s)
    BY <1>3 DEF SelectDatabase
  <2>2. UNCHANGED <<pc, want, slot, live, stored, disabled>>
    BY <1>3 DEF SelectDatabase, locals, server
  <2>3. Owned'
    BY <2>1, <2>2, ProcessAssumption, AllocateKeepsOwned DEF Kept
  <2> QED
    BY <2>2, <2>3 DEF Kept, Probed
<1>4. ASSUME NEW d \in Database, TriggerWarmup(d) PROVE Kept'
  <2>1. d \in Process
    BY DEF Process
  <2>2. /\ \A q \in Process \ {d} : pc'[q] = pc[q]
        /\ pc'[d] = pc[d] \/ pc'[d] = "start"
        /\ want' = want /\ slot' = slot
    BY <1>4, <2>1 DEF TriggerWarmup, PlaceOK
  <2>3. pc'[d] = "save" => live = want[d]
    BY <2>1, <2>2 DEF Kept, Probed
  <2> QED
    BY <1>4, <2>1, <2>2, <2>3, QuietKept
    DEF TriggerWarmup, manager, server, Busy, Critical
<1>5. ASSUME NEW r \in Request, Disconnect(r) PROVE Kept'
  <2>1. r \in Process /\ want[r] \in Database
    BY <1>5 DEF Process, Disconnect, Holdings
  <2>2. PICK p \in Process, gone \in SUBSET Process :
          p \in gone /\ End(gone) /\ CallInFlight(p)
    BY <1>5, <2>1 DEF Disconnect, Process
  <2>3. /\ \A q \in gone : pc'[q] = "idle"
        /\ \A q \in Process \ gone :
             /\ pc'[q] = pc[q] \/ (pc'[q] = "resumed" /\ pc[q] = "awaiting")
             /\ want'[q] = want[q] /\ slot'[q] = slot[q]
    BY <2>2, EndType
  <2>4. /\ live' = live \/ pc[p] \in Critical
        /\ \/ stored' = stored
           \/ pc[p] = "save" /\ stored' = [stored EXCEPT ![slot[p]] = live]
    BY <2>2 DEF CallInFlight, Critical
  <2>5. \A q \in Process : pc'[q] \in Busy =>
          pc[q] \in Busy /\ slot'[q] = slot[q] /\ want'[q] = want[q]
    BY <2>3 DEF Busy, Critical
  <2> QED
    BY <1>5, <2>2, <2>3, <2>4, <2>5, QuietKept DEF Disconnect, manager, flags
<1>6. CASE OtherPrompt
  BY <1>6 DEF OtherPrompt, Kept
<1>7. CASE UNCHANGED vars
  BY <1>7 DEF vars, locals, mutex, manager, flags, server, Kept, Owned, Probed
<1> QED
  BY <1>1, <1>2, <1>3, <1>4, <1>5, <1>6, <1>7 DEF Next

\* On a server of its own, with prompts that fit: a slot that never changed its
\* owner holds that owner's prompt prefix whenever it counts as warmed.
THEOREM WarmedIsOwners ==
  ASSUME ~SharedServer, TooLarge = {} PROVE Spec => []KeptSlotHoldsOwner
<1>1. Init => Kept
  BY DEF Init, Kept, Owned, Probed, Busy, Critical
<1>2. Kept /\ Base /\ [Next]_vars => Kept'
  BY NextKept
<1>3. Kept => KeptSlotHoldsOwner
  BY DEF Kept, Owned, KeptSlotHoldsOwner, IsWarmed
<1> QED
  BY <1>1, <1>2, <1>3, Based, PTL DEF Spec

=============================================================================
