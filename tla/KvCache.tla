------------------------------ MODULE KvCache ------------------------------
(***************************************************************************)
(* The KV cache slots of Stage 1: KoboldCppCacheManager (slot allocation,  *)
(* warm-up worker) and TableSelector._generate_with_cache, which share one *)
(* asyncio lock and one KoboldCpp server.  The server has one live context *)
(* and a saved state per slot; each is known by the database whose prompt  *)
(* prefix it starts with, Nobody for any other text.                       *)
(*                                                                         *)
(* A step is what one coroutine does between two awaits.  A call to the    *)
(* server takes effect in the step that gets its answer.                   *)
(***************************************************************************)
EXTENDS Integers, FiniteSets

CONSTANTS
  Database,      \* databases by key
  Request,       \* requests in table selection at the same time
  MaxSlots,      \* settings.koboldcpp_max_slots
  Pinned,        \* settings.koboldcpp_slot_mapping
  SharedServer,  \* do other stages send their prompts to the same server?
  OnLoop,        \* do background tasks run on the event loop, or in threads?
  TooLarge,      \* databases whose prompt does not fit the context
  Nobody

Process == Request \cup Database   \* a database stands for its warm-up task

Slot == (0 .. MaxSlots - 1) \cup {Pinned[d] : d \in DOMAIN Pinned}

NoSlot == -1

ASSUME ProcessAssumption ==
  /\ Request \cap Database = {}
  /\ Nobody \notin Process
ASSUME SlotAssumption ==
  /\ MaxSlots \in Nat \ {0}
  /\ DOMAIN Pinned \subseteq Database
  /\ \A d \in DOMAIN Pinned : Pinned[d] \in Nat
ASSUME SettingAssumption ==
  /\ SharedServer \in BOOLEAN
  /\ OnLoop \in BOOLEAN
  /\ TooLarge \subseteq Database

VARIABLES
  pc,          \* where each request or warm-up task is
  want,        \* the database it works for
  slot,        \* its local: the slot it was given
  again,       \* has it warmed its slot a second time?
  lock,        \* holder of _slot_lock
  ahead,       \* <<p, q>>: p waits for the lock in front of q
  db_to_slot, slot_to_db,
  used,        \* slots with an access time; the others are free
  older,       \* <<s, t>>: slot s was last accessed before slot t
  warmed,      \* _warmed_slots
  hashed,      \* databases with a schema hash
  disabled,    \* _disabled_databases
  scheduled,   \* databases whose background task has still to run
  live,        \* the server's live context
  stored,      \* the server's saved state of each slot
  reused,      \* slots that had a second owner (history)
  later        \* <<d, e>>: e was used after d's last use (history)

locals  == <<pc, want, slot, again>>
mutex   == <<lock, ahead>>
manager == <<db_to_slot, slot_to_db, used, older, warmed, reused, later>>
flags   == <<hashed, disabled, scheduled>>
server  == <<live, stored>>
vars    == <<locals, mutex, manager, flags, server>>

Init ==
  /\ pc = [p \in Process |-> "idle"]
  /\ want = [p \in Process |-> IF p \in Database THEN p ELSE Nobody]
  /\ slot = [p \in Process |-> NoSlot]
  /\ again = [p \in Process |-> FALSE]
  /\ lock = Nobody /\ ahead = {}
  /\ db_to_slot = [d \in Database |-> NoSlot]
  /\ slot_to_db = [s \in Slot |-> Nobody]
  /\ used = {} /\ older = {} /\ warmed = {}
  /\ hashed = {} /\ disabled = {} /\ scheduled = {}
  /\ live = Nobody
  /\ stored = [s \in Slot |-> Nobody]
  /\ reused = {} /\ later = {}

-----------------------------------------------------------------------------
(* Slot allocation                                                         *)

\* An order of last accesses (or of arrivals) loses x, or gets x at its end.
Without(order, x) == {pair \in order : x \notin {pair[1], pair[2]}}
Touch(order, x, all) == Without(order, x) \cup ((all \ {x}) \X {x})

Free == (0 .. MaxSlots - 1) \ used

\* The branches of get_or_allocate_slot.
IsPinned(d)   == d \in DOMAIN Pinned
IsAssigned(d) == ~IsPinned(d) /\ db_to_slot[d] # NoSlot
TakesFree(d)  == ~IsPinned(d) /\ db_to_slot[d] = NoSlot /\ Free # {}
Evicts(d)     == ~IsPinned(d) /\ db_to_slot[d] = NoSlot /\ Free = {}

\* A mutant: the most recently used slot is given away.
PicksNewest(d, s) ==
  \/ IsPinned(d)   /\ s = Pinned[d]
  \/ IsAssigned(d) /\ s = db_to_slot[d]
  \/ TakesFree(d)  /\ s \in Free /\ \A t \in Free : s <= t
  \/ Evicts(d)     /\ s \in used /\ \A t \in used : <<s, t>> \notin older

Picks(d, s) ==
  \/ IsPinned(d)   /\ s = Pinned[d]
  \/ IsAssigned(d) /\ s = db_to_slot[d]
  \/ TakesFree(d)  /\ s \in Free /\ \A t \in Free : s <= t
  \/ Evicts(d)     /\ s \in used /\ \A t \in used : <<t, s>> \notin older

UsedBefore == {d \in Database : db_to_slot[d] # NoSlot
                                  \/ \E e \in Database : <<d, e>> \in later}

\* A mutant: the evicted database keeps its entry.
EvictedKept(d, s) == {}

\* The database whose slot s is taken away for d, if any.
Evicted(d, s) == {e \in Database : /\ Evicts(d)
                                   /\ e = slot_to_db[s]
                                   /\ db_to_slot[e] # NoSlot}

Allocate(d, s) ==
  /\ Picks(d, s)
  /\ db_to_slot' = [e \in Database |-> IF e = d THEN s
                      ELSE IF e \in Evicted(d, s) THEN NoSlot ELSE db_to_slot[e]]
  /\ slot_to_db' = IF IsAssigned(d) THEN slot_to_db
                                    ELSE [slot_to_db EXCEPT ![s] = d]
  /\ warmed' = IF Evicted(d, s) = {} THEN warmed ELSE warmed \ {s}
  /\ used' = used \cup {s}
  /\ older' = Touch(older, s, used)
  /\ reused' = IF slot_to_db[s] \in {Nobody, d} THEN reused ELSE reused \cup {s}
  /\ later' = Touch(later, d, UsedBefore)

IsWarmed(d) == db_to_slot[d] # NoSlot /\ db_to_slot[d] \in warmed

-----------------------------------------------------------------------------
(* The lock                                                                *)

Waiting == {p \in Process : pc[p] = "queued" /\ lock # p}

\* What a process does once it has the lock: a request looks whether its
\* database's slot is warm, whichever slot that is by now.
Inside(p, d) == IF p \in Request /\ IsWarmed(d) THEN "load" ELSE "warm"

\* A mutant: nobody waits.
JoinAtOnce(p, d, s) ==
  /\ want' = [want EXCEPT ![p] = d]
  /\ slot' = [slot EXCEPT ![p] = s]
  /\ lock' = p
  /\ pc' = [pc EXCEPT ![p] = Inside(p, d)']
  /\ UNCHANGED <<again, ahead>>

\* p asks for the lock on behalf of d, with slot s, right after an allocation
\* or a check: a free lock is taken at once, a taken one is waited for in turn.
Join(p, d, s) ==
  /\ want' = [want EXCEPT ![p] = d]
  /\ slot' = [slot EXCEPT ![p] = s]
  /\ IF lock = Nobody
     THEN /\ lock' = p
          /\ pc' = [pc EXCEPT ![p] = Inside(p, d)']
          /\ UNCHANGED ahead
     ELSE /\ pc' = [pc EXCEPT ![p] = "queued"]
          /\ ahead' = Touch(ahead, p, Waiting)
          /\ UNCHANGED lock
  /\ UNCHANGED again

Enter(p) ==
  /\ pc[p] = "queued" /\ lock = p
  /\ pc' = [pc EXCEPT ![p] = Inside(p, want[p])]
  /\ UNCHANGED <<want, slot, again, mutex, manager, flags, server>>

\* A mutant: a process that ends does not release the lock.
EndKeepingLock(gone) ==
  /\ pc' = [p \in Process |->
       IF p \in gone THEN "idle"
       ELSE IF pc[p] = "awaiting" /\ want[p] \in gone THEN "resumed" ELSE pc[p]]
  /\ want' = [p \in Process |-> IF p \in gone \cap Request THEN Nobody ELSE want[p]]
  /\ slot' = [p \in Process |-> IF p \in gone THEN NoSlot ELSE slot[p]]
  /\ again' = [p \in Process |-> again[p] /\ p \notin gone]
  /\ UNCHANGED mutex

\* The processes of `gone` end: a request leaves, a task is done and wakes the
\* requests that await it.  A holder's lock goes to the first in the queue.
End(gone) ==
  /\ pc' = [p \in Process |->
       IF p \in gone THEN "idle"
       ELSE IF pc[p] = "awaiting" /\ want[p] \in gone THEN "resumed" ELSE pc[p]]
  /\ want' = [p \in Process |-> IF p \in gone \cap Request THEN Nobody ELSE want[p]]
  /\ slot' = [p \in Process |-> IF p \in gone THEN NoSlot ELSE slot[p]]
  /\ again' = [p \in Process |-> again[p] /\ p \notin gone]
  /\ LET left == {pair \in ahead : {pair[1], pair[2]} \cap gone = {}}
     IN IF lock \notin gone THEN lock' = lock /\ ahead' = left
        ELSE \/ Waiting \ gone = {} /\ lock' = Nobody /\ ahead' = left
             \/ \E p \in Waiting \ gone :
                  /\ \A q \in Waiting \ gone : <<q, p>> \notin left
                  /\ lock' = p
                  /\ ahead' = Without(left, p)

-----------------------------------------------------------------------------
(* Requests and warm-up tasks arrive                                       *)

\* A request for d that uses the cache: it first awaits a warm-up in flight.
Ask(r, d) ==
  /\ pc[r] = "idle" /\ d \notin disabled
  /\ \/ /\ pc[d] # "idle"
        /\ pc' = [pc EXCEPT ![r] = "awaiting"]
        /\ want' = [want EXCEPT ![r] = d]
        /\ UNCHANGED <<slot, again, mutex, manager>>
     \/ /\ pc[d] = "idle"
        /\ \E s \in Slot : Allocate(d, s) /\ Join(r, d, s)
  /\ UNCHANGED <<flags, server>>

Resume(r) ==
  /\ pc[r] = "resumed"
  /\ \E s \in Slot : Allocate(want[r], s) /\ Join(r, want[r], s)
  /\ UNCHANGED <<flags, server>>

\* POST /databases/{type}/select: a background task is added to the response,
\* unless the schema cannot be loaded.
SelectDatabase(d) ==
  /\ \E s \in Slot : Allocate(d, s)
  /\ scheduled' \in {scheduled, scheduled \cup {d}}
  /\ UNCHANGED <<locals, mutex, hashed, disabled, server>>

\* The background task calls trigger_warmup: one task per database is in flight,
\* and in a thread, where there is no event loop, it only returns.
TriggerWarmup(d) ==
  /\ d \in scheduled
  /\ scheduled' = scheduled \ {d}
  /\ pc' = IF OnLoop /\ pc[d] = "idle" THEN [pc EXCEPT ![d] = "start"] ELSE pc
  /\ UNCHANGED <<want, slot, again, mutex, manager, hashed, disabled, server>>

\* _warmup_worker up to its first await.
StartWorker(d) ==
  /\ pc[d] = "start"
  /\ \E s \in Slot :
       /\ Allocate(d, s)
       /\ IF IsWarmed(d)' /\ d \in hashed
          THEN End({d})
          ELSE /\ pc' = [pc EXCEPT ![d] = "checking"]
               /\ slot' = [slot EXCEPT ![d] = s]
               /\ UNCHANGED <<want, again, mutex>>
  /\ UNCHANGED <<flags, server>>

TooLargeFound(d) ==
  /\ pc[d] = "checking" /\ d \in TooLarge
  /\ disabled' = disabled \cup {d}
  /\ End({d})
  /\ UNCHANGED <<manager, hashed, scheduled, server>>

FitsFound(d) ==
  /\ pc[d] = "checking"
  /\ Join(d, d, slot[d])
  /\ UNCHANGED <<manager, flags, server>>

-----------------------------------------------------------------------------
(* Under the lock                                                          *)

Warm(p) ==                      \* the dummy question is answered
  /\ pc[p] = "warm"
  /\ live' = want[p]
  /\ pc' = [pc EXCEPT ![p] = "save"]
  /\ UNCHANGED <<want, slot, again, mutex, manager, flags, stored>>

\* A mutant: the slot counts as warmed whatever the server answered.
SaveFailsUnnoticed(p) ==
  /\ pc[p] = "save"
  /\ stored' \in {stored, [stored EXCEPT ![slot[p]] = live]}
  /\ warmed' = warmed \cup {slot[p]}
  /\ UNCHANGED <<db_to_slot, slot_to_db, used, older, reused, later, flags, live>>
  /\ IF p \in Database THEN End({p})
     ELSE pc' = [pc EXCEPT ![p] = "load"] /\ UNCHANGED <<want, slot, again, mutex>>

\* A save that is refused, or times out after the server has done it.
SaveFails(p) ==
  /\ pc[p] = "save"
  /\ stored' \in {stored, [stored EXCEPT ![slot[p]] = live]}
  /\ UNCHANGED <<manager, flags, live>>
  /\ IF p \in Database THEN End({p})
     ELSE pc' = [pc EXCEPT ![p] = "load"] /\ UNCHANGED <<want, slot, again, mutex>>

Saved(p) ==
  /\ pc[p] = "save"
  /\ stored' = [stored EXCEPT ![slot[p]] = live]
  /\ warmed' = warmed \cup {slot[p]}
  /\ hashed' = IF p \in Database THEN hashed \cup {p} ELSE hashed
  /\ IF p \in Database THEN End({p})
     ELSE pc' = [pc EXCEPT ![p] = "load"] /\ UNCHANGED <<want, slot, again, mutex>>
  /\ UNCHANGED <<db_to_slot, slot_to_db, used, older, reused, later, disabled,
                 scheduled, live>>

Loaded(r) ==
  /\ pc[r] = "load"
  /\ stored[slot[r]] # Nobody
  /\ live' = stored[slot[r]]
  /\ pc' = [pc EXCEPT ![r] = "generate"]
  /\ UNCHANGED <<want, slot, again, mutex, manager, flags, stored>>

\* A load that fails is followed by one more warm-up, then by no cache at all.
LoadFails(r) ==
  /\ pc[r] = "load"
  /\ live' \in {live, stored[slot[r]]}
  /\ pc' = [pc EXCEPT ![r] = IF again[r] THEN "generate" ELSE "warm"]
  /\ again' = [again EXCEPT ![r] = TRUE]
  /\ UNCHANGED <<want, slot, mutex, manager, flags, stored>>

Generated(r) ==                 \* the selection is answered
  /\ pc[r] = "generate"
  /\ live' = want[r]
  /\ End({r})
  /\ UNCHANGED <<manager, flags, stored>>

GenerateFails(p) ==             \* a model call raises: `async with` releases
  /\ pc[p] \in {"warm", "generate"}
  /\ live' \in {live, want[p]}
  /\ End({p})
  /\ UNCHANGED <<manager, flags, stored>>

-----------------------------------------------------------------------------
(* The environment                                                         *)

\* The call that p was waiting for may have reached the server nevertheless.
CallInFlight(p) ==
  /\ \/ live' = live
     \/ pc[p] \in {"warm", "generate"} /\ live' = want[p]
     \/ pc[p] = "load" /\ live' = stored[slot[p]]
  /\ \/ stored' = stored
     \/ pc[p] = "save" /\ stored' = [stored EXCEPT ![slot[p]] = live]

\* A client disconnects.  Cancelling a request that awaits a warm-up cancels
\* the task it awaits, and with it every other request that awaits the task.
Disconnect(r) ==
  /\ pc[r] # "idle"
  /\ IF pc[r] # "awaiting"
     THEN End({r}) /\ CallInFlight(r)
     ELSE /\ End({want[r]} \cup {q \in Request : pc[q] = "awaiting"
                                                   /\ want[q] = want[r]})
          /\ CallInFlight(want[r])
  /\ UNCHANGED <<manager, flags>>

\* A prompt of another stage, or a selection without cache.
OtherPrompt ==
  /\ SharedServer \/ disabled # {}
  /\ live' = Nobody
  /\ UNCHANGED <<locals, mutex, manager, flags, stored>>

-----------------------------------------------------------------------------
\* What a process does once it is there.  Every call is answered or times out.
Step(p) ==
  \/ Enter(p) \/ Warm(p) \/ Saved(p) \/ SaveFails(p) \/ GenerateFails(p)
  \/ p \in Request /\ (Resume(p) \/ Loaded(p) \/ LoadFails(p) \/ Generated(p))
  \/ p \in Database /\ (StartWorker(p) \/ TooLargeFound(p) \/ FitsFound(p))

Next ==
  \/ \E p \in Process : Step(p)
  \/ \E r \in Request, d \in Database : Ask(r, d)
  \/ \E d \in Database : SelectDatabase(d) \/ TriggerWarmup(d)
  \/ \E r \in Request : Disconnect(r)
  \/ OtherPrompt

\* The event loop runs every coroutine that can go on, and the server runs the
\* background tasks of every response it has sent.
Spec ==
  /\ Init /\ [][Next]_vars
  /\ \A p \in Process : WF_vars(Step(p))
  /\ \A d \in Database : WF_vars(TriggerWarmup(d))

-----------------------------------------------------------------------------
(* Properties                                                              *)

\* Every variable keeps its type.
TypeOK ==
  /\ pc \in [Process -> {"idle", "awaiting", "resumed", "start", "checking",
                         "queued", "warm", "save", "load", "generate"}]
  /\ want \in [Process -> Database \cup {Nobody}]
  /\ slot \in [Process -> Slot \cup {NoSlot}]
  /\ again \in [Process -> BOOLEAN]
  /\ lock \in Process \cup {Nobody}
  /\ ahead \subseteq Process \X Process
  /\ db_to_slot \in [Database -> Slot \cup {NoSlot}]
  /\ slot_to_db \in [Slot -> Database \cup {Nobody}]
  /\ used \subseteq Slot
  /\ older \subseteq Slot \X Slot
  /\ warmed \subseteq Slot
  /\ hashed \subseteq Database
  /\ disabled \subseteq Database
  /\ scheduled \subseteq Database
  /\ live \in Database \cup {Nobody}
  /\ stored \in [Slot -> Database \cup {Nobody}]
  /\ reused \subseteq Slot
  /\ later \subseteq Database \X Database

\* The lock works: whatever fails or is cancelled, only its holder is between
\* restoring a prefix and generating, and a free lock keeps nobody waiting.
OneHolder ==
  /\ \A p \in Process :
       pc[p] \in {"warm", "save", "load", "generate"} => lock = p
  /\ lock = Nobody => Waiting = {}
  /\ lock # Nobody => pc[lock] \in {"queued", "warm", "save", "load", "generate"}

\* The two maps of the manager agree, so that no two databases share a slot, and
\* no slot is lost: one that was accessed is owned, and all others are free.
SlotMapsAgree ==
  /\ \A d \in Database : db_to_slot[d] # NoSlot => slot_to_db[db_to_slot[d]] = d
  /\ \A s \in used : \E d \in Database : db_to_slot[d] = s

\* get_or_allocate_slot is least-recently-used replacement: a database that was
\* used and has no slot any more has seen as many others since as there are
\* slots.
EvictsLeastRecent ==
  \A d \in UsedBefore :
    db_to_slot[d] = NoSlot =>
      Cardinality({e \in Database : <<d, e>> \in later}) >= MaxSlots

\* A slot that always had one owner holds, once it counts as warmed, the prompt
\* prefix of that owner, through failed saves, retries and cancellations.
KeptSlotHoldsOwner ==
  \A d \in Database :
    IsWarmed(d) /\ db_to_slot[d] \notin reused => stored[db_to_slot[d]] = d

\* Every request ends: it never waits for a lock or a warm-up that nobody ends.
RequestsEnd == \A r \in Request : pc[r] # "idle" ~> pc[r] = "idle"

-----------------------------------------------------------------------------
(* What the repository's texts say and the code does not do                *)

\* is_warmed: "Check if the database's slot has been warmed in memory."  After
\* an eviction while a request holds the lock, the answer is about another's.
WarmedSlotHoldsOwner ==
  \A d \in Database : IsWarmed(d) => stored[db_to_slot[d]] = d

=============================================================================
