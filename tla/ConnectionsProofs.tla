------------------------- MODULE ConnectionsProofs -------------------------
(***************************************************************************)
(* Proofs about Connections, whatever the strings, threads, faults and     *)
(* restarts: no database has two entries that are spelled alike, every     *)
(* answer reaches what was asked for, if that can be read off, and what    *)
(* counts as ingested and no deletion damaged is complete.  One thread     *)
(* whose writes succeed keeps the file as the registry is.                 *)
(***************************************************************************)
EXTENDS Connections, TLAPS

\* A registry whose keys are the identities of what they lead to, and none of
\* them a built-in database's.
Keyed(f) ==
  /\ f \in Registry
  /\ \A k \in Key : f[k] # Absent =>
       /\ identity_of(f[k]) = k
       /\ \A b \in Builtin : identity_of(b) # k

IInv ==
  /\ Keyed(registry)
  /\ saved \in {Missing, Empty, Torn} \/ Keyed(saved)
  /\ \A r \in Request : Keyed(snapshot[r])
  /\ \A r \in Request : pc[r] = "probing" =>
       /\ asked[r] \in Connection /\ answer[r] = Absent
       /\ \A b \in Builtin : identity_of(b) # identity_of(asked[r])
  /\ \A r \in Request : pc[r] = "unlinking" => asked[r] \in Key
  /\ \A r \in Request : answer[r] # Absent =>
       /\ asked[r] \in Connection /\ answer[r] \in Target \cup Builtin
       /\ identity_of(answer[r]) = identity_of(asked[r])
  /\ DOMAIN pc = Request /\ DOMAIN asked = Request /\ DOMAIN answer = Request
  /\ DOMAIN snapshot = Request

\* What the driver is given is the same database under the same key.
LEMMA DriverConnection ==
  ASSUME NEW c \in supplied
  PROVE  /\ driver_connection(c) \in Target
         /\ identity_of(driver_connection(c)) = identity_of(c)
         /\ Reached(driver_connection(c)) = Reached(c)
<1>1. driver_connection(c) \in Target
  BY DEF Target
<1>2. /\ driver_connection(c).plain = c.plain /\ driver_connection(c).engine = c.engine
      /\ driver_connection(c).host = c.host /\ driver_connection(c).port = c.port
      /\ driver_connection(c).database = c.database
  BY ConnectionAssumption DEF driver_connection
<1>3. QED
  BY <1>1, <1>2 DEF identity_of, parse_connection, Reached

LEMMA KeysOfTargets == \A c \in supplied : identity_of(c) \in Key
BY DEF Key

\* A connection is no key: it has a login.
LEMMA KeysApart == Connection \cap Key = {}
<1>1. SUFFICES ASSUME NEW c \in Connection, c \in Key PROVE FALSE
  OBVIOUS
<1>2. "login" \in DOMAIN c
  <2>1. c \in [engine : Engine \cup {"unsupported"}, host : STRING, port : STRING,
               database : STRING, login : STRING, plain : BOOLEAN,
               form : {"uri", "sqlalchemy", "keyword"}]
    BY ConnectionAssumption DEF supplied
  <2>2. QED
    BY <2>1
<1>3. "login" \notin DOMAIN c
  <2>1. PICK d \in supplied : c = parse_connection(d)
    BY <1>1 DEF Key, identity_of
  <2>2. DOMAIN c = {"engine", "host", "port", "database"}
    BY <2>1 DEF parse_connection
  <2>3. QED
    BY <2>2
<1>4. QED
  BY <1>2, <1>3

LEMMA NoEntriesKeyed == Keyed(NoEntries)
BY DEF Keyed, NoEntries, Registry

LEMMA LoadedKeyed == ASSUME IInv PROVE Keyed(Loaded)
BY NoEntriesKeyed DEF IInv, Loaded

LEMMA Initially == Init => IInv
BY NoEntriesKeyed DEF Init, IInv, Idle

LEMMA Registering ==
  ASSUME IInv, NEW r \in Request, Register(r)
  PROVE  IInv'
<1> DEFINE k == identity_of(asked[r])
<1>1. /\ asked[r] \in Connection /\ asked[r] \in supplied /\ k \in Key
      /\ \A b \in Builtin : identity_of(b) # k
  BY KeysOfTargets DEF IInv, Register, supplied
<1>2. registry' = [registry EXCEPT ![k] =
                     IF @ = Absent THEN driver_connection(asked[r]) ELSE @]
  BY DEF Register
<1>3. registry \in Registry
  BY DEF IInv, Keyed
<1>4. registry'[k] = IF registry[k] = Absent THEN driver_connection(asked[r])
                     ELSE registry[k]
  BY <1>1, <1>2, <1>3 DEF Registry
<1>5. \A j \in Key : j # k => registry'[j] = registry[j]
  BY <1>2, <1>3 DEF Registry
<1>6. registry'[k] \in Target \cup {Absent} /\ registry' \in Registry
  BY <1>1, <1>2, <1>3, <1>4, DriverConnection DEF Registry
<1>7. registry'[k] # Absent => identity_of(registry'[k]) = k
  BY <1>1, <1>4, DriverConnection DEF IInv, Keyed
<1>8. Keyed(registry')
  BY <1>1, <1>5, <1>6, <1>7 DEF IInv, Keyed
<1>9. /\ answer' = [answer EXCEPT ![r] = registry'[k]]
      /\ pc' = [pc EXCEPT ![r] = "saving"]
      /\ asked' = asked /\ snapshot' = snapshot /\ saved' = saved
  BY DEF Register
<1>10. \A q \in Request :
         /\ pc'[q] = "probing" => pc[q] = "probing" /\ answer'[q] = answer[q]
         /\ pc'[q] = "unlinking" => pc[q] = "unlinking"
  BY <1>9 DEF IInv
<1>11. \A q \in Request : answer'[q] # Absent =>
         /\ asked'[q] \in Connection /\ answer'[q] \in Target \cup Builtin
         /\ identity_of(answer'[q]) = identity_of(asked'[q])
  <2>1. TAKE q \in Request
  <2>2. CASE q = r
    BY <1>1, <1>6, <1>7, <1>9, <2>2 DEF IInv
  <2>3. CASE q # r
    BY <1>9, <2>3 DEF IInv
  <2>4. QED
    BY <2>2, <2>3
<1>12. QED
  BY <1>8, <1>9, <1>10, <1>11 DEF IInv

LEMMA Adding ==
  ASSUME IInv, NEW r \in Request, NEW c \in Connection,
         AlreadySaved(r, c) \/ Create(r, c)
  PROVE  IInv'
<1>1. c \in supplied
  BY DEF supplied
<1>2. CASE AlreadySaved(r, c)
  <2>1. PICK known \in Known(c) : answer' = [answer EXCEPT ![r] = known]
    BY <1>2 DEF AlreadySaved
  <2>2. known \in Target \cup Builtin /\ identity_of(known) = identity_of(c)
    BY <1>1, <2>1, KeysOfTargets DEF Known, IInv, Keyed, Registry
  <2>3. /\ asked' = [asked EXCEPT ![r] = c] /\ pc[r] = "idle"
        /\ pc' = pc /\ snapshot' = snapshot /\ saved' = saved /\ registry' = registry
    BY <1>2 DEF AlreadySaved
  <2>4. \A q \in Request : answer'[q] # Absent =>
          /\ asked'[q] \in Connection /\ answer'[q] \in Target \cup Builtin
          /\ identity_of(answer'[q]) = identity_of(asked'[q])
    <3>1. TAKE q \in Request
    <3>2. CASE q = r
      BY <2>1, <2>2, <2>3, <3>2 DEF IInv
    <3>3. CASE q # r
      BY <2>1, <2>3, <3>3 DEF IInv
    <3>4. QED
      BY <3>2, <3>3
  <2>5. QED
    BY <2>1, <2>3, <2>4 DEF IInv
<1>3. CASE Create(r, c)
  <2>1. /\ asked' = [asked EXCEPT ![r] = c] /\ answer' = [answer EXCEPT ![r] = Absent]
        /\ pc' = [pc EXCEPT ![r] = "probing"] /\ Known(c) = {}
        /\ snapshot' = snapshot /\ saved' = saved /\ registry' = registry
    BY <1>3 DEF Create
  <2>2. \A b \in Builtin : identity_of(b) # identity_of(c)
    BY <2>1 DEF Known
  <2>3. QED
    BY <2>1, <2>2 DEF IInv
<1>4. QED
  BY <1>2, <1>3

LEMMA Removing ==
  ASSUME IInv, NEW r \in Request, NEW k \in Key, NEW b \in BOOLEAN, Delete(r, k, b)
  PROVE  IInv'
<1>1. /\ registry' = [registry EXCEPT ![k] = Absent]
      /\ asked' = [asked EXCEPT ![r] = k] /\ answer' = [answer EXCEPT ![r] = Absent]
      /\ pc' = [pc EXCEPT ![r] = "saving"]
      /\ snapshot' = snapshot /\ saved' = saved
  BY DEF Delete
<1>2. Keyed(registry')
  BY <1>1 DEF IInv, Keyed, Registry
<1>3. QED
  BY <1>1, <1>2 DEF IInv

LEMMA Saving ==
  ASSUME IInv, NEW r \in Request,
         Snapshot(r) \/ Open(r) \/ Write(r) \/ WriteFails(r)
  PROVE  IInv'
<1>1. CASE Snapshot(r)
  BY <1>1 DEF Snapshot, IInv
<1>2. CASE Open(r)
  BY <1>2 DEF Open, IInv
<1>3. CASE Write(r)
  <2>1. saved' \in {snapshot[r], Torn} /\ Keyed(snapshot[r])
    BY <1>3 DEF Write, IInv
  <2>2. saved' \in {Missing, Empty, Torn} \/ Keyed(saved')
    BY <2>1
  <2>3. \A q \in Request :
          /\ pc'[q] = "probing" => pc[q] = "probing"
          /\ pc'[q] = "unlinking" => asked'[q] \in Key
    BY <1>3 DEF Write, IInv
  <2>4. \A q \in Request : Keyed(snapshot'[q])
    BY <1>3, NoEntriesKeyed DEF Write, IInv
  <2>5. QED
    BY <1>3, <2>2, <2>3, <2>4 DEF Write, IInv
<1>4. CASE WriteFails(r)
  <2>1. \A q \in Request : Keyed(snapshot'[q])
    BY <1>4, NoEntriesKeyed DEF WriteFails, IInv
  <2>2. QED
    BY <1>4, <2>1 DEF WriteFails, IInv
<1>5. QED
  BY <1>1, <1>2, <1>3, <1>4

LEMMA Restarting == ASSUME IInv, Restart PROVE IInv'
<1>1. /\ registry' = Loaded /\ pc' = Idle /\ saved' = saved
      /\ asked' = [r \in Request |-> Absent] /\ answer' = [r \in Request |-> Absent]
      /\ snapshot' = [r \in Request |-> NoEntries]
  BY DEF Restart
<1>2. Keyed(registry') /\ \A r \in Request : Keyed(snapshot'[r])
  BY <1>1, LoadedKeyed, NoEntriesKeyed
<1>3. QED
  BY <1>1, <1>2 DEF IInv, Idle

LEMMA Others ==
  ASSUME IInv,
         \/ \E r \in Request : ProbeFails(r) \/ Unlink(r) \/ UnlinkFails(r) \/ Deleted(r)
         \/ \E k \in Key : Ingest(k)
         \/ IngestWrites \/ IngestEnds \/ UNCHANGED vars
  PROVE  IInv'
<1>1. registry' = registry /\ saved' = saved /\ snapshot' = snapshot /\ answer' = answer
  BY DEF ProbeFails, Unlink, UnlinkFails, Deleted, Ingest, IngestWrites, IngestEnds,
         vars, local
<1>2. \/ pc' = pc /\ asked' = asked
      \/ \E r \in Request : /\ answer[r] = Absent
                            /\ pc' = [pc EXCEPT ![r] = "idle"]
                            /\ asked' = [asked EXCEPT ![r] = Absent]
  <2>1. ASSUME NEW r \in Request, ProbeFails(r) \/ Deleted(r)
        PROVE  /\ answer[r] = Absent
               /\ pc' = [pc EXCEPT ![r] = "idle"]
               /\ asked' = [asked EXCEPT ![r] = Absent]
    BY <2>1, KeysApart DEF ProbeFails, Deleted, IInv
  <2>2. CASE ~\E r \in Request : ProbeFails(r) \/ Deleted(r)
    BY <2>2 DEF Unlink, UnlinkFails, Ingest, IngestWrites, IngestEnds, vars, local
  <2>3. QED
    BY <2>1, <2>2
<1>3. CASE pc' = pc /\ asked' = asked
  BY <1>1, <1>3 DEF IInv
<1>4. CASE \E r \in Request : /\ answer[r] = Absent
                              /\ pc' = [pc EXCEPT ![r] = "idle"]
                              /\ asked' = [asked EXCEPT ![r] = Absent]
  BY <1>1, <1>4 DEF IInv
<1>5. QED
  BY <1>2, <1>3, <1>4

LEMMA StepKeeps == IInv /\ [Next]_vars => IInv'
BY Registering, Adding, Removing, Saving, Restarting, Others DEF Next

LEMMA Inductive == Spec => []IInv
BY Initially, StepKeeps, PTL DEF Spec

\* What two strings reach, as far as the code can tell.
LEMMA Spelling ==
  ASSUME NEW c, NEW d
  PROVE  /\ SpelledAlike(c, d) /\ Reached(c) = Reached(d) => identity_of(c) = identity_of(d)
         /\ Legible(c) /\ identity_of(c) = identity_of(d) => Reached(c) = Reached(d)
<1>1. ASSUME SpelledAlike(c, d), Reached(c) = Reached(d)
      PROVE  identity_of(c) = identity_of(d)
  <2>1. /\ c.engine = d.engine /\ c.host = d.host /\ c.database = d.database
        /\ (IF c.port = "" THEN DefaultPort ELSE c.port)
             = (IF d.port = "" THEN DefaultPort ELSE d.port)
    BY <1>1 DEF Reached
  <2>2. c.plain /\ d.plain /\ c.port = d.port
    BY <1>1, <2>1 DEF SpelledAlike
  <2>3. QED
    BY <2>1, <2>2 DEF identity_of, parse_connection
<1>2. ASSUME Legible(c), identity_of(c) = identity_of(d)
      PROVE  Reached(c) = Reached(d)
  <2>1. c.plain /\ (c.host # "" \/ c.port # "" \/ c.database # "")
    BY <1>2 DEF Legible
  <2>2. parse_connection(c) = [engine |-> c.engine, host |-> c.host, port |-> c.port,
                               database |-> c.database]
    BY <2>1 DEF parse_connection
  <2>3. CASE ~d.plain
    <3>1. parse_connection(d) = [engine |-> d.engine, host |-> "", port |-> "",
                                 database |-> ""]
      BY <2>3 DEF parse_connection
    <3>2. c.host = "" /\ c.port = "" /\ c.database = ""
      <4>1. parse_connection(c) = parse_connection(d)
        BY <1>2 DEF identity_of
      <4>2. /\ parse_connection(c).host = c.host /\ parse_connection(c).port = c.port
            /\ parse_connection(c).database = c.database
        BY <2>2
      <4>3. /\ parse_connection(d).host = "" /\ parse_connection(d).port = ""
            /\ parse_connection(d).database = ""
        BY <2>3 DEF parse_connection
      <4>4. QED
        BY <4>1, <4>2, <4>3
    <3>3. QED
      BY <2>1, <3>2
  <2>4. CASE d.plain
    <3>1. parse_connection(d) = [engine |-> d.engine, host |-> d.host, port |-> d.port,
                                 database |-> d.database]
      BY <2>4 DEF parse_connection
    <3>2. /\ c.engine = d.engine /\ c.host = d.host /\ c.port = d.port
          /\ c.database = d.database
      <4>1. parse_connection(c) = parse_connection(d)
        BY <1>2 DEF identity_of
      <4>2. QED
        BY <2>2, <3>1, <4>1
    <3>3. QED
      BY <3>2 DEF Reached
  <2>5. QED
    BY <2>3, <2>4
<1>3. QED
  BY <1>1, <1>2

\* No two entries of the picker reach one database, built-in ones included, if
\* their strings parse and both or neither name a port, whoever adds, deletes
\* and restarts (find_by_connection and register_target).
THEOREM EntriesAreDistinct == Spec => []OneEntryPerDatabase
<1>1. IInv => OneEntryPerDatabase
  <2>1. SUFFICES ASSUME IInv, NEW k \in Key, registry[k] # Absent
                 PROVE  /\ \A b \in Builtin :
                             SpelledAlike(b, registry[k]) => Reached(b) # Reached(registry[k])
                        /\ \A j \in Key \ {k} :
                             registry[j] # Absent /\ SpelledAlike(registry[j], registry[k]) =>
                               Reached(registry[j]) # Reached(registry[k])
    BY DEF OneEntryPerDatabase
  <2>2. \A j \in Key : registry[j] # Absent => identity_of(registry[j]) = j
    BY <2>1 DEF IInv, Keyed
  <2>3. \A b \in Builtin : identity_of(b) # k
    BY <2>1 DEF IInv, Keyed
  <2>4. QED
    BY <2>1, <2>2, <2>3, Spelling
<1>2. QED
  BY Inductive, <1>1, PTL

\* Whoever adds a database is given an entry that reaches it, if more than the
\* engine can be read off the string that was added, whatever other strings
\* there are (find_by_connection, parse_connection).
THEOREM AnswersReach == Spec => []AnswerReachesAsked
<1>1. IInv => AnswerReachesAsked
  BY Spelling DEF IInv, AnswerReachesAsked
<1>2. QED
  BY Inductive, <1>1, PTL

-----------------------------------------------------------------------------
(* Types                                                                   *)

LEMMA Lists ==
  /\ <<>> \in Seq(Artifact) /\ Unlinked \in Seq(Artifact)
  /\ \A k : Written(k) \in Seq(Artifact)
  /\ \A s \in Seq(Artifact) : s # <<>> =>
       Head(s) \in Artifact /\ Tail(s) \in Seq(Artifact)
<1>1. {"schema", "graph", "mst", "descriptions", "embeddings"} = Artifact
  BY DEF Artifact
<1>2. Unlinked \in Seq(Artifact)
  BY <1>1 DEF Unlinked
<1>3. ASSUME NEW k PROVE Written(k) \in Seq(Artifact)
  BY <1>1 DEF Written
<1>4. QED
  BY <1>2, <1>3

LEMMA TypesInit == Init => TypeOK
<1>1. Init => IInv
  BY Initially
<1>2. QED
  BY <1>1, Lists DEF Init, TypeOK, Idle, IInv, Keyed

LEMMA TypesStep == TypeOK /\ IInv /\ IInv' /\ [Next]_vars => TypeOK'
<1> SUFFICES ASSUME TypeOK, IInv, IInv', [Next]_vars PROVE TypeOK'
  OBVIOUS
<1> USE DEF TypeOK
<1>1. registry' \in Registry
  BY DEF IInv, Keyed
<1>2. ASSUME NEW r \in Request, NEW c \in Connection, AlreadySaved(r, c) \/ Create(r, c)
      PROVE  TypeOK'
  <2>1. Known(c) \subseteq Target \cup Builtin
    BY KeysOfTargets DEF Known, Registry, supplied
  <2>2. CASE AlreadySaved(r, c)
    BY <1>2, <2>1, <2>2 DEF AlreadySaved, ingestion
  <2>3. CASE Create(r, c)
    BY <1>2, <2>1, <2>3 DEF Create, ingestion
  <2>4. QED
    BY <1>2, <2>2, <2>3
<1>3. ASSUME NEW r \in Request, ProbeFails(r) \/ Deleted(r) PROVE TypeOK'
  BY <1>3 DEF ProbeFails, Deleted, ingestion
<1>4. ASSUME NEW r \in Request, Register(r) PROVE TypeOK'
  <2>1. identity_of(asked[r]) \in Key
    BY <1>4, KeysOfTargets DEF IInv, Register, supplied
  <2>2. registry'[identity_of(asked[r])] \in Target \cup {Absent}
    BY <1>1, <2>1 DEF Registry
  <2>3. QED
    BY <1>1, <1>4, <2>2 DEF Register, ingestion
<1>5. ASSUME NEW r \in Request, NEW k \in Key, NEW b \in BOOLEAN, Delete(r, k, b)
      PROVE  TypeOK'
  BY <1>1, <1>5, Lists DEF Delete, ingestion
<1>6. ASSUME NEW r \in Request, Unlink(r) \/ UnlinkFails(r) PROVE TypeOK'
  <2>1. Tail(unlinking[r]) \in Seq(Artifact)
    BY <1>6, Lists DEF Unlink, UnlinkFails
  <2>2. artifacts' \in [Key -> SUBSET Artifact]
    <3>1. CASE Unlink(r)
      BY <3>1 DEF Unlink
    <3>2. CASE UnlinkFails(r)
      BY <3>2 DEF UnlinkFails
    <3>3. QED
      BY <1>6, <3>1, <3>2
  <2>3. damaged' \subseteq Key
    BY <1>6 DEF Unlink, UnlinkFails, IInv
  <2>4. QED
    BY <1>6, <2>1, <2>2, <2>3 DEF Unlink, UnlinkFails, ingestion
<1>7. ASSUME NEW r \in Request, Snapshot(r) \/ Open(r) \/ WriteFails(r) PROVE TypeOK'
  <2>1. NoEntries \in Registry
    BY DEF NoEntries, Registry
  <2>2. CASE Snapshot(r) \/ Open(r)
    BY <2>2 DEF Snapshot, Open, ingestion
  <2>3. CASE WriteFails(r)
    BY <2>1, <2>3, Lists DEF WriteFails, ingestion
  <2>4. QED
    BY <1>7, <2>2, <2>3
<1>8. ASSUME NEW r \in Request, Write(r) PROVE TypeOK'
  <2>1. saved' \in {snapshot[r], Torn}
    BY <1>8 DEF Write
  <2>2. NoEntries \in Registry
    BY DEF NoEntries, Registry
  <2>3. QED
    BY <1>8, <2>1, <2>2 DEF Write, ingestion
<1>9. ASSUME NEW k \in Key, Ingest(k) PROVE TypeOK'
  BY <1>9, Lists DEF Ingest, local
<1>10. CASE IngestWrites
  <2>1. Head(writes) \in Artifact /\ Tail(writes) \in Seq(Artifact)
    BY <1>10, Lists DEF IngestWrites
  <2>2. artifacts' \in [Key -> SUBSET Artifact]
    BY <1>10, <2>1 DEF IngestWrites
  <2>3. QED
    BY <1>10, <2>1, <2>2 DEF IngestWrites, local
<1>11. CASE IngestEnds
  BY <1>11, Lists DEF IngestEnds, local
<1>12. CASE Restart
  <2>1. NoEntries \in Registry
    BY DEF NoEntries, Registry
  <2>2. damaged' \subseteq Key
    BY <1>12 DEF Restart
  <2>3. QED
    BY <1>1, <1>12, <2>1, <2>2, Lists DEF Restart, Idle
<1>13. CASE UNCHANGED vars
  BY <1>13 DEF vars, local, ingestion
<1>14. QED
  BY <1>2, <1>3, <1>4, <1>5, <1>6, <1>7, <1>8, <1>9, <1>10, <1>11, <1>12, <1>13 DEF Next

\* The registry, the files, the requests and the ingestion keep their types.
THEOREM ConnectionTypes == Spec => []TypeOK
BY TypesInit, TypesStep, Inductive, PTL DEF Spec

-----------------------------------------------------------------------------
(* What counts as ingested is complete                                     *)

\* All files of an ingestion.
Whole(k) ==
  /\ {"schema", "graph", "descriptions", "embeddings"} \subseteq artifacts[k]
  /\ k.engine = "postgresql" => "mst" \in artifacts[k]

\* Request r deletes files of k and has the embeddings still to go.
Embedded == {<<"graph", "mst", "descriptions", "embeddings">>,
             <<"mst", "descriptions", "embeddings">>,
             <<"descriptions", "embeddings">>, <<"embeddings">>}
Midway(r, k) == pc[r] = "unlinking" /\ asked[r] = k /\ unlinking[r] \in Embedded

\* What is left to write, and what was written before it.
Underway(k) ==
  LET has == artifacts[k] sql == k.engine = "postgresql" IN
  \/ sql /\ writes = <<"schema", "graph", "mst", "schema", "descriptions", "embeddings">>
  \/ sql /\ writes = <<"graph", "mst", "schema", "descriptions", "embeddings">>
  \/ sql /\ writes = <<"mst", "schema", "descriptions", "embeddings">> /\ "graph" \in has
  \/ ~sql /\ writes = <<"schema", "graph", "schema", "descriptions", "embeddings">>
  \/ ~sql /\ writes = <<"graph", "schema", "descriptions", "embeddings">>
  \/ /\ "graph" \in has /\ (sql => "mst" \in has)
     /\ \/ writes = <<"schema", "descriptions", "embeddings">>
        \/ writes = <<"descriptions", "embeddings">> /\ "schema" \in has
        \/ writes = <<"embeddings">> /\ {"schema", "descriptions"} \subseteq has

\* What a deletion has to remove, before and after it starts to.
Lined ==
  \A r \in Request :
    /\ pc[r] \in {"saving", "opening", "writing"} /\ asked[r] \in Key =>
         unlinking[r] \in {Unlinked, <<>>}
    /\ pc[r] = "unlinking" => unlinking[r] \in {Unlinked, <<>>} \cup Embedded

\* Where there are embeddings there is everything, but under a deletion, which
\* has removed the schema first and removes the embeddings yet.  A database
\* that is ingested is not half deleted, and has no embeddings before the end.
OrderlyKey(k) ==
  /\ "embeddings" \in artifacts[k] => Whole(k) \/ \E r \in Request : Midway(r, k)
  /\ \A r \in Request : Midway(r, k) => "schema" \notin artifacts[k]
  /\ ingesting = k =>
       /\ \A r \in Request : ~Midway(r, k)
       /\ writes = <<>> \/ (Underway(k) /\ "embeddings" \notin artifacts[k])

Orderly == Lined /\ \A k \in Key \ damaged : OrderlyKey(k)

LEMMA NoTuple ==
  /\ \A s \in Embedded : s # <<>> /\ s # Unlinked
  /\ Unlinked # <<>>
<1>1. <<"schema", "graph", "mst", "descriptions", "embeddings">>[1] = "schema"
  OBVIOUS
<1>2. \A s \in Embedded : s # <<>> /\ s[1] # "schema"
  BY DEF Embedded
<1>3. Unlinked # <<>>
  BY DEF Unlinked
<1>4. QED
  BY <1>1, <1>2, <1>3 DEF Unlinked

LEMMA OrderlyInit == Init => Orderly
<1> SUFFICES ASSUME Init PROVE Orderly
  OBVIOUS
<1>1. \A r \in Request : pc[r] = "idle"
  BY DEF Init, Idle
<1>2. \A k \in Key : artifacts[k] = {} /\ ingesting # k
  BY FileAssumption DEF Init
<1>3. QED
  BY <1>1, <1>2 DEF Orderly, Lined, OrderlyKey, Midway

\* A step that leaves a database's files and its ingestion alone, and starts
\* and ends no deletion half-way.
LEMMA KeyKept ==
  ASSUME NEW k \in Key, OrderlyKey(k), artifacts'[k] = artifacts[k],
         ingesting' = k => ingesting = k /\ (writes' = writes \/ writes' = <<>>),
         \A r \in Request : Midway(r, k)' <=> Midway(r, k)
  PROVE  OrderlyKey(k)'
<1>1. Whole(k)' <=> Whole(k)
  BY DEF Whole
<1>2. ingesting' = k /\ writes' = writes => (Underway(k)' <=> Underway(k))
  BY DEF Underway
<1>3. QED
  BY <1>1, <1>2 DEF OrderlyKey

\* Only one request moves, and it is not amid a deletion.
LEMMA RequestMoves ==
  ASSUME Orderly, UNCHANGED <<artifacts, ingestion>>, damaged \subseteq damaged',
         NEW r \in Request,
         \A o \in Request \ {r} :
           pc'[o] = pc[o] /\ asked'[o] = asked[o] /\ unlinking'[o] = unlinking[o],
         pc[r] = "unlinking" => unlinking[r] \notin Embedded,
         pc'[r] = "unlinking" => unlinking'[r] \in {Unlinked, <<>>},
         pc'[r] \in {"saving", "opening", "writing"} /\ asked'[r] \in Key =>
           unlinking'[r] \in {Unlinked, <<>>}
  PROVE  Orderly'
<1>1. \A o \in Request, k \in Key : Midway(o, k)' <=> Midway(o, k)
  BY NoTuple DEF Midway
<1>2. Lined'
  BY DEF Orderly, Lined
<1>3. \A k \in Key \ damaged' : OrderlyKey(k)'
  BY <1>1, KeyKept DEF Orderly, ingestion
<1>4. QED
  BY <1>2, <1>3 DEF Orderly

LEMMA OrderlyRequest ==
  ASSUME TypeOK, IInv, Orderly, NEW r \in Request,
         \/ \E c \in Connection : AlreadySaved(r, c) \/ Create(r, c)
         \/ ProbeFails(r) \/ Register(r)
         \/ \E k \in Key, b \in BOOLEAN : Delete(r, k, b)
         \/ Snapshot(r) \/ Open(r) \/ Write(r) \/ WriteFails(r)
  PROVE  Orderly'
<1> USE DEF TypeOK
<1>1. UNCHANGED <<artifacts, ingestion>> /\ damaged \subseteq damaged'
  BY DEF AlreadySaved, Create, ProbeFails, Register, Delete, Snapshot, Open, Write,
         WriteFails
<1>2. \A o \in Request \ {r} :
        pc'[o] = pc[o] /\ asked'[o] = asked[o] /\ unlinking'[o] = unlinking[o]
  BY DEF AlreadySaved, Create, ProbeFails, Register, Delete, Snapshot, Open, Write,
         WriteFails
<1>3. CASE \E c \in Connection : AlreadySaved(r, c) \/ Create(r, c)
  <2>1. pc[r] = "idle" /\ pc'[r] \in {"idle", "probing"}
    BY <1>3 DEF AlreadySaved, Create
  <2>2. QED
    BY <1>1, <1>2, <2>1, RequestMoves
<1>4. CASE ProbeFails(r)
  <2>1. pc[r] = "probing" /\ pc'[r] = "idle"
    BY <1>4 DEF ProbeFails
  <2>2. QED
    BY <1>1, <1>2, <2>1, RequestMoves
<1>5. CASE Register(r)
  <2>1. pc[r] = "probing" /\ pc'[r] = "saving" /\ asked'[r] \notin Key
    BY <1>5, KeysApart DEF Register, IInv
  <2>2. QED
    BY <1>1, <1>2, <2>1, RequestMoves
<1>6. CASE \E k \in Key, b \in BOOLEAN : Delete(r, k, b)
  <2>1. pc[r] = "idle" /\ pc'[r] = "saving" /\ unlinking'[r] \in {Unlinked, <<>>}
    BY <1>6 DEF Delete
  <2>2. QED
    BY <1>1, <1>2, <2>1, RequestMoves
<1>7. CASE Snapshot(r) \/ Open(r)
  <2>1. /\ pc[r] \in {"saving", "opening"} /\ pc'[r] \in {"opening", "writing"}
        /\ asked'[r] = asked[r] /\ unlinking'[r] = unlinking[r]
    BY <1>7 DEF Snapshot, Open
  <2>2. asked[r] \in Key => unlinking[r] \in {Unlinked, <<>>}
    BY <2>1 DEF Orderly, Lined
  <2>3. QED
    BY <1>1, <1>2, <2>1, <2>2, RequestMoves
<1>8. CASE Write(r)
  <2>1. /\ pc[r] = "writing" /\ pc'[r] = IF asked[r] \in Key THEN "unlinking" ELSE "idle"
        /\ unlinking'[r] = unlinking[r]
    BY <1>8 DEF Write
  <2>2. asked[r] \in Key => unlinking[r] \in {Unlinked, <<>>}
    BY <2>1 DEF Orderly, Lined
  <2>3. QED
    BY <1>1, <1>2, <2>1, <2>2, RequestMoves
<1>9. CASE WriteFails(r)
  <2>1. pc[r] \in {"opening", "writing"} /\ pc'[r] = "idle"
    BY <1>9 DEF WriteFails
  <2>2. QED
    BY <1>1, <1>2, <2>1, RequestMoves
<1>10. QED
  BY <1>3, <1>4, <1>5, <1>6, <1>7, <1>8, <1>9

\* The files that a deletion still has to remove, one fewer each time.
LEMMA Shorter ==
  /\ Head(Unlinked) = "schema"
  /\ Tail(Unlinked) = <<"graph", "mst", "descriptions", "embeddings">>
  /\ Tail(<<"graph", "mst", "descriptions", "embeddings">>)
       = <<"mst", "descriptions", "embeddings">>
  /\ Tail(<<"mst", "descriptions", "embeddings">>) = <<"descriptions", "embeddings">>
  /\ Tail(<<"descriptions", "embeddings">>) = <<"embeddings">>
  /\ Head(<<"embeddings">>) = "embeddings" /\ Tail(<<"embeddings">>) = <<>>
<1>1. \A a, b, c, d, e :
        /\ Head(<<a, b, c, d, e>>) = a
        /\ Tail(<<a, b, c, d, e>>) = <<b, c, d, e>>
        /\ Tail(<<b, c, d, e>>) = <<c, d, e>>
        /\ Tail(<<c, d, e>>) = <<d, e>> /\ Tail(<<d, e>>) = <<e>>
        /\ Head(<<e>>) = e /\ Tail(<<e>>) = <<>>
  OBVIOUS
<1>2. QED
  BY <1>1 DEF Unlinked

LEMMA OrderlyUnlink ==
  ASSUME TypeOK, IInv, Orderly, NEW r \in Request, Unlink(r) \/ UnlinkFails(r)
  PROVE  Orderly'
<1> USE DEF TypeOK
<1>0. PICK k \in Key : k = asked[r]
  BY DEF Unlink, UnlinkFails, IInv
<1>1. /\ pc[r] = "unlinking" /\ unlinking[r] # <<>> /\ UNCHANGED <<pc, asked, ingestion>>
      /\ unlinking' = [unlinking EXCEPT ![r] = Tail(@)] /\ damaged \subseteq damaged'
      /\ \A j \in Key \ {k} : artifacts'[j] = artifacts[j]
  BY <1>0 DEF Unlink, UnlinkFails
<1>2. /\ unlinking'[r] = Tail(unlinking[r])
      /\ \A o \in Request \ {r} : unlinking'[o] = unlinking[o]
  BY <1>1
<1>3. \/ Head(unlinking[r]) = "schema" /\ Tail(unlinking[r]) \in Embedded
      \/ /\ unlinking[r] \in Embedded
         /\ \/ Tail(unlinking[r]) \in Embedded
            \/ Head(unlinking[r]) = "embeddings" /\ Tail(unlinking[r]) = <<>>
  <2>1. unlinking[r] \in {Unlinked} \cup Embedded
    BY <1>1 DEF Orderly, Lined
  <2>2. CASE unlinking[r] = Unlinked
    BY <2>2, Shorter DEF Embedded
  <2>3. CASE unlinking[r] \in Embedded
    BY <2>3, Shorter DEF Embedded
  <2>4. QED
    BY <2>1, <2>2, <2>3
<1>4. Lined'
  BY <1>1, <1>2, <1>3 DEF Orderly, Lined
<1>5. \A j \in Key \ {k}, o \in Request : Midway(o, j)' <=> Midway(o, j)
  BY <1>0, <1>1, <1>2 DEF Midway
<1>6. \A j \in Key \ damaged' : j # k => OrderlyKey(j)'
  BY <1>1, <1>5, KeyKept DEF Orderly, ingestion
<1>7. ASSUME k \notin damaged' PROVE OrderlyKey(k)'
  <2>1. /\ artifacts'[k] = artifacts[k] \ {Head(unlinking[r])}
        /\ ingesting # k /\ ingesting' # k
    BY <1>0, <1>7 DEF Unlink, UnlinkFails, ingestion
  <2>2. OrderlyKey(k)
    BY <1>1, <1>7 DEF Orderly
  <2>3. "schema" \notin artifacts'[k]
    <3>1. unlinking[r] \in Embedded => "schema" \notin artifacts[k]
      BY <1>0, <1>1, <2>2 DEF OrderlyKey, Midway
    <3>2. QED
      BY <1>3, <2>1, <3>1
  <2>4. "embeddings" \in artifacts'[k] => Midway(r, k)'
    BY <1>0, <1>1, <1>2, <1>3, <2>1 DEF Midway
  <2>5. QED
    BY <2>1, <2>3, <2>4 DEF OrderlyKey
<1>8. QED
  BY <1>4, <1>6, <1>7 DEF Orderly

LEMMA OrderlyDeleted ==
  ASSUME TypeOK, IInv, Orderly, NEW r \in Request, Deleted(r)
  PROVE  Orderly'
<1> USE DEF TypeOK
<1>1. /\ pc[r] = "unlinking" /\ unlinking[r] = <<>> /\ pc'[r] = "idle"
      /\ UNCHANGED <<artifacts, ingestion, unlinking>>
      /\ \A o \in Request \ {r} : pc'[o] = pc[o] /\ asked'[o] = asked[o]
      /\ \A k \in damaged : k \notin damaged' => artifacts[k] = {} /\ ingesting # k
  BY DEF Deleted
<1>2. \A o \in Request, k \in Key : Midway(o, k)' <=> Midway(o, k)
  BY <1>1, NoTuple DEF Midway
<1>3. Lined'
  BY <1>1 DEF Orderly, Lined
<1>4. ASSUME NEW k \in Key, k \notin damaged' PROVE OrderlyKey(k)'
  <2>1. CASE k \notin damaged
    BY <1>1, <1>2, <2>1, KeyKept DEF Orderly, ingestion
  <2>2. CASE k \in damaged
    BY <1>1, <1>4, <2>2 DEF OrderlyKey, ingestion
  <2>3. QED
    BY <2>1, <2>2
<1>5. QED
  BY <1>3, <1>4 DEF Orderly

LEMMA OrderlyIngest ==
  ASSUME TypeOK, Orderly, NEW k \in Key, Ingest(k)
  PROVE  Orderly'
<1>1. /\ UNCHANGED <<artifacts, local>> /\ ingesting' = k /\ writes' = Written(k)
      /\ ~is_ingested(k) /\ damaged \subseteq damaged' /\ ingesting = Absent
      /\ k \notin damaged' => ~Deleting(k)
  BY DEF Ingest
<1>2. /\ Lined' <=> Lined
      /\ \A r \in Request, j \in Key : Midway(r, j)' <=> Midway(r, j)
  BY <1>1 DEF Lined, Midway, local
<1>3. \A j \in Key \ damaged' : j # k => OrderlyKey(j)'
  BY <1>1, <1>2, KeyKept DEF Orderly
<1>4. ASSUME k \notin damaged' PROVE OrderlyKey(k)'
  <2>1. \A r \in Request : ~Midway(r, k)
    BY <1>1, <1>4, NoTuple DEF Midway, Deleting
  <2>2. OrderlyKey(k)
    BY <1>1, <1>4 DEF Orderly
  <2>3. "embeddings" \notin artifacts[k]
    BY <1>1, <2>1, <2>2 DEF OrderlyKey, Whole, is_ingested
  <2>4. Underway(k)'
    BY <1>1 DEF Underway, Written
  <2>5. QED
    BY <1>1, <1>2, <2>1, <2>3, <2>4 DEF OrderlyKey
<1>5. QED
  BY <1>2, <1>3, <1>4 DEF Orderly

LEMMA WholeIsComplete ==
  ASSUME NEW k, Whole(k)
  PROVE  HasAll(k)
<1>1. CASE k.engine = "postgresql"
  <2>1. /\ DOMAIN Written(k) = 1 .. 6
        /\ Written(k) = <<"schema", "graph", "mst", "schema", "descriptions", "embeddings">>
    BY <1>1 DEF Written
  <2>2. \A i \in 1 .. 6 : i \in {1, 2, 3, 4, 5, 6}
    OBVIOUS
  <2>3. QED
    BY <1>1, <2>1, <2>2 DEF Whole, HasAll
<1>2. CASE k.engine # "postgresql"
  <2>1. /\ DOMAIN Written(k) = 1 .. 5
        /\ Written(k) = <<"schema", "graph", "schema", "descriptions", "embeddings">>
    BY <1>2 DEF Written
  <2>2. \A i \in 1 .. 5 : i \in {1, 2, 3, 4, 5}
    OBVIOUS
  <2>3. QED
    BY <2>1, <2>2 DEF Whole, HasAll
<1>3. QED
  BY <1>1, <1>2

LEMMA NowWhole ==
  ASSUME NEW k, HasAll(k)'
  PROVE  Whole(k)'
<1>1. CASE k.engine = "postgresql"
  <2>1. /\ DOMAIN Written(k) = 1 .. 6
        /\ Written(k) = <<"schema", "graph", "mst", "schema", "descriptions", "embeddings">>
    BY <1>1 DEF Written
  <2>2. /\ Written(k)[1] \in artifacts'[k] /\ Written(k)[2] \in artifacts'[k]
        /\ Written(k)[3] \in artifacts'[k] /\ Written(k)[5] \in artifacts'[k]
        /\ Written(k)[6] \in artifacts'[k]
    BY <2>1 DEF HasAll
  <2>3. QED
    BY <2>1, <2>2 DEF Whole
<1>2. CASE k.engine # "postgresql"
  <2>1. /\ DOMAIN Written(k) = 1 .. 5
        /\ Written(k) = <<"schema", "graph", "schema", "descriptions", "embeddings">>
    BY <1>2 DEF Written
  <2>2. /\ Written(k)[1] \in artifacts'[k] /\ Written(k)[2] \in artifacts'[k]
        /\ Written(k)[4] \in artifacts'[k] /\ Written(k)[5] \in artifacts'[k]
    BY <2>1 DEF HasAll
  <2>3. QED
    BY <1>2, <2>1, <2>2 DEF Whole
<1>3. QED
  BY <1>1, <1>2

\* One more file is written.
LEMMA UnderwayGoesOn ==
  ASSUME TypeOK, NEW k \in Key, Underway(k), ingesting = k, IngestWrites,
         "embeddings" \notin artifacts[k]
  PROVE  IF writes' = <<>> THEN Whole(k)'
         ELSE Underway(k)' /\ "embeddings" \notin artifacts'[k]
<1> USE DEF TypeOK
<1>1. /\ artifacts'[k] = artifacts[k] \cup {Head(writes)}
      /\ writes' = Tail(writes)
  BY DEF IngestWrites
<1> HIDE DEF TypeOK
<1>2. CASE writes = <<"schema", "graph", "mst", "schema", "descriptions", "embeddings">>
  BY <1>1, <1>2 DEF Underway
<1>3. CASE writes = <<"graph", "mst", "schema", "descriptions", "embeddings">>
  BY <1>1, <1>3 DEF Underway
<1>4. CASE writes = <<"mst", "schema", "descriptions", "embeddings">>
  BY <1>1, <1>4 DEF Underway
<1>5. CASE writes = <<"schema", "graph", "schema", "descriptions", "embeddings">>
  BY <1>1, <1>5 DEF Underway
<1>6. CASE writes = <<"graph", "schema", "descriptions", "embeddings">>
  BY <1>1, <1>6 DEF Underway
<1>7. CASE writes = <<"schema", "descriptions", "embeddings">>
  BY <1>1, <1>7 DEF Underway
<1>8. CASE writes = <<"descriptions", "embeddings">>
  BY <1>1, <1>8 DEF Underway
<1>9. CASE writes = <<"embeddings">>
  BY <1>1, <1>9 DEF Underway, Whole
<1>10. QED
  BY <1>2, <1>3, <1>4, <1>5, <1>6, <1>7, <1>8, <1>9 DEF Underway

LEMMA OrderlyWrites ==
  ASSUME TypeOK, Orderly, IngestWrites
  PROVE  Orderly'
<1>0. PICK k \in Key : k = ingesting
  BY DEF TypeOK, IngestWrites
<1>1. /\ artifacts' = [artifacts EXCEPT ![k] = @ \cup {Head(writes)}]
      /\ writes # <<>> /\ UNCHANGED <<local, ingesting>> /\ ingesting # Absent
      /\ \A j \in damaged : j \notin damaged' =>
           j = k /\ writes' = <<>> /\ ~Deleting(k) /\ HasAll(k)'
  BY <1>0 DEF IngestWrites
<1>2. \A j \in Key \ {k} : artifacts'[j] = artifacts[j]
  BY <1>1 DEF TypeOK
<1>3. /\ Lined' <=> Lined
      /\ \A r \in Request, j \in Key : Midway(r, j)' <=> Midway(r, j)
  BY <1>1 DEF Lined, Midway, local
<1>4. ASSUME NEW j \in Key, j # k, j \notin damaged' PROVE OrderlyKey(j)'
  <2>1. ingesting' # j /\ j \notin damaged
    BY <1>0, <1>1, <1>4
  <2>2. QED
    BY <1>2, <1>3, <1>4, <2>1, KeyKept DEF Orderly
<1>5. ASSUME k \notin damaged, k \notin damaged' PROVE OrderlyKey(k)'
  <2>1. /\ Underway(k) /\ "embeddings" \notin artifacts[k]
        /\ \A r \in Request : ~Midway(r, k)
    BY <1>0, <1>1, <1>5 DEF Orderly, OrderlyKey
  <2>2. IF writes' = <<>> THEN Whole(k)'
        ELSE Underway(k)' /\ "embeddings" \notin artifacts'[k]
    BY <1>0, <2>1, UnderwayGoesOn
  <2>3. \A r \in Request : ~Midway(r, k)'
    BY <1>3, <2>1
  <2>4. CASE writes' = <<>>
    BY <2>2, <2>3, <2>4 DEF OrderlyKey
  <2>5. CASE writes' # <<>>
    BY <2>2, <2>3, <2>5 DEF OrderlyKey
  <2>6. QED
    BY <2>4, <2>5
<1>6. ASSUME k \in damaged, k \notin damaged' PROVE OrderlyKey(k)'
  <2>1. writes' = <<>> /\ ~Deleting(k) /\ HasAll(k)'
    BY <1>1, <1>6
  <2>2. \A r \in Request : ~Midway(r, k)
    BY <2>1, NoTuple DEF Midway, Deleting
  <2>3. Whole(k)'
    BY <2>1, NowWhole
  <2>4. \A r \in Request : ~Midway(r, k)'
    BY <1>3, <2>2
  <2>5. QED
    BY <2>1, <2>3, <2>4 DEF OrderlyKey
<1>7. QED
  BY <1>3, <1>4, <1>5, <1>6 DEF Orderly

LEMMA OrderlyEnds ==
  ASSUME TypeOK, Orderly, IngestEnds \/ Restart \/ UNCHANGED vars
  PROVE  Orderly'
<1>1. CASE IngestEnds
  <2>1. UNCHANGED <<artifacts, local, damaged>> /\ \A k \in Key : ingesting' # k
    BY <1>1, FileAssumption DEF IngestEnds
  <2>2. /\ Lined' <=> Lined
        /\ \A r \in Request, j \in Key : Midway(r, j)' <=> Midway(r, j)
    BY <2>1 DEF Lined, Midway, local
  <2>3. QED
    BY <2>1, <2>2, KeyKept DEF Orderly
<1>2. CASE Restart
  <2>1. /\ \A r \in Request : pc'[r] = "idle"
        /\ artifacts' = artifacts /\ \A k \in Key : ingesting' # k
        /\ damaged \subseteq damaged'
        /\ \A k \in Key : k \notin damaged' => ~Deleting(k)
    BY <1>2, FileAssumption DEF Restart, Idle
  <2>2. Lined'
    BY <2>1 DEF Lined
  <2>3. ASSUME NEW k \in Key, k \notin damaged' PROVE OrderlyKey(k)'
    <3>1. \A r \in Request : ~Midway(r, k) /\ ~Midway(r, k)'
      BY <2>1, <2>3, NoTuple DEF Midway, Deleting
    <3>2. QED
      BY <2>1, <2>3, <3>1, KeyKept DEF Orderly
  <2>4. QED
    BY <2>2, <2>3 DEF Orderly
<1>3. CASE UNCHANGED vars
  <2>1. UNCHANGED <<artifacts, local, ingestion, damaged>>
    BY <1>3 DEF vars
  <2>2. /\ Lined' <=> Lined
        /\ \A r \in Request, j \in Key : Midway(r, j)' <=> Midway(r, j)
    BY <2>1 DEF Lined, Midway, local
  <2>3. QED
    BY <2>1, <2>2, KeyKept DEF Orderly, ingestion
<1>4. QED
  BY <1>1, <1>2, <1>3

\* Whatever counts as ingested and is not damaged has all its files, however
\* many threads add, delete and ingest databases, wherever the server dies and
\* whichever write or unlink fails: only a deletion that leaves files, or one
\* that meets an ingestion, damages a database, until an ingestion got through
\* since (existing_ingestion, _delete_artifacts).
THEOREM FilesStaySound == Spec => []FilesAreSound
<1> DEFINE Inv == TypeOK /\ IInv /\ Orderly
<1>1. Init => Inv
  BY Initially, TypesInit, OrderlyInit
<1>2. Inv /\ [Next]_vars => Inv'
  <2>1. SUFFICES ASSUME TypeOK, IInv, Orderly, [Next]_vars PROVE Inv'
    OBVIOUS
  <2>2. IInv' /\ TypeOK'
    BY <2>1, StepKeeps, TypesStep
  <2>3. Orderly'
    BY <2>1, OrderlyRequest, OrderlyUnlink, OrderlyDeleted, OrderlyIngest,
       OrderlyWrites, OrderlyEnds DEF Next
  <2>4. QED
    BY <2>2, <2>3
<1>3. Inv => FilesAreSound
  <2>1. SUFFICES ASSUME TypeOK, Orderly, NEW k \in Key \ damaged, is_ingested(k)
                 PROVE  HasAll(k)
    BY DEF FilesAreSound, IngestedIsComplete
  <2>2. Whole(k)
    BY <2>1 DEF Orderly, OrderlyKey, is_ingested
  <2>3. QED
    BY <2>2, WholeIsComplete
<1>4. QED
  BY <1>1, <1>2, <1>3, PTL DEF Spec

-----------------------------------------------------------------------------
(* One thread, no faults                                                   *)

Sole(r) ==
  /\ IInv
  /\ pc[r] \in {"idle", "probing", "unlinking"} => Loaded = registry
  /\ pc[r] \in {"opening", "writing"} => snapshot[r] = registry
  /\ pc[r] = "writing" => saved = Empty

LEMMA SoleInit == ASSUME NEW r \in Request, Init PROVE Sole(r)
BY Initially DEF Init, Sole, Loaded, Idle

LEMMA SoleStep ==
  ASSUME NEW r, Request = {r}, Fault = {} PROVE Sole(r) /\ [Next]_vars => Sole(r)'
<1>1. SUFFICES ASSUME Sole(r), [Next]_vars PROVE Sole(r)'
  OBVIOUS
<1>2. IInv /\ IInv' /\ DOMAIN pc = Request /\ DOMAIN snapshot = Request
  BY <1>1, StepKeeps DEF Sole, IInv
<1>3. CASE \E c \in Connection : AlreadySaved(r, c) \/ Create(r, c)
  BY <1>1, <1>2, <1>3 DEF Sole, AlreadySaved, Create, Loaded
<1>4. CASE ProbeFails(r) \/ Unlink(r) \/ UnlinkFails(r) \/ Deleted(r)
  BY <1>1, <1>2, <1>4 DEF Sole, ProbeFails, Unlink, UnlinkFails, Deleted, Loaded
<1>5. CASE Register(r)
  BY <1>1, <1>2, <1>5 DEF Sole, Register, Loaded
<1>6. CASE \E k \in Key, b \in BOOLEAN : Delete(r, k, b)
  BY <1>1, <1>2, <1>6 DEF Sole, Delete, Loaded
<1>7. CASE Snapshot(r)
  BY <1>1, <1>2, <1>7 DEF Sole, Snapshot, Loaded
<1>8. CASE Open(r)
  BY <1>1, <1>2, <1>8 DEF Sole, Open, Loaded
<1>9. CASE Write(r)
  <2>1. saved' = registry /\ registry' = registry /\ registry \in Registry
    BY <1>1, <1>2, <1>9 DEF Sole, Write, IInv, Keyed
  <2>2. Loaded' = registry'
    BY <2>1, FileAssumption DEF Loaded
  <2>3. pc'[r] \in {"idle", "unlinking"}
    BY <1>2, <1>9 DEF Write
  <2>4. QED
    BY <1>2, <2>2, <2>3 DEF Sole
<1>10. CASE Restart
  BY <1>1, <1>2, <1>10 DEF Sole, Restart, Loaded, Idle
<1>11. CASE (\E k \in Key : Ingest(k)) \/ IngestWrites \/ IngestEnds \/ UNCHANGED vars
  BY <1>1, <1>2, <1>11 DEF Sole, Ingest, IngestWrites, IngestEnds, vars, local, Loaded
<1>12. ~WriteFails(r)
  BY DEF WriteFails
<1>13. QED
  BY <1>1, <1>3, <1>4, <1>5, <1>6, <1>7, <1>8, <1>9, <1>10, <1>11, <1>12 DEF Next

\* The file is as the registry is whenever no request is under way, if one
\* thread serves them, its writes succeed and the server dies at no point
\* between the opening and the closing of the file (save_connections).
THEOREM SoleThreadSaves ==
  ASSUME NEW r, Request = {r}, Fault = {}
  PROVE  Spec => []SavedIsOnDisk
<1>1. Init => Sole(r)
  BY SoleInit
<1>2. Sole(r) /\ [Next]_vars => Sole(r)'
  BY SoleStep
<1>3. Sole(r) => SavedIsOnDisk
  BY DEF Sole, SavedIsOnDisk, Idle
<1>4. QED
  BY <1>1, <1>2, <1>3, PTL DEF Spec

\* What the file does not have yet is what the request adds.
Pending(r) ==
  pc[r] \in {"saving", "opening"} =>
    \A k \in Key : registry[k] # Absent /\ Loaded[k] = Absent =>
      asked[r] \notin Key /\ identity_of(asked[r]) = k

LEMMA SolePending ==
  ASSUME NEW r, Request = {r}, Fault = {}, Sole(r), Pending(r), [Next]_vars
  PROVE  Pending(r)'
<1>1. IInv /\ DOMAIN pc = Request /\ r \in Request
  BY DEF Sole, IInv
<1>2. registry \in Registry
  BY <1>1 DEF IInv, Keyed
<1>3. CASE \E c \in Connection : AlreadySaved(r, c) \/ Create(r, c)
  BY <1>1, <1>3 DEF AlreadySaved, Create, Pending
<1>4. CASE ProbeFails(r) \/ Unlink(r) \/ UnlinkFails(r) \/ Deleted(r) \/ Write(r) \/ Open(r)
  BY <1>1, <1>4 DEF ProbeFails, Unlink, UnlinkFails, Deleted, Write, Open, Pending
<1>5. CASE Register(r)
  <2>1. asked[r] \in Connection /\ asked[r] \notin Key /\ Loaded = registry
    BY <1>1, <1>5, KeysApart DEF Register, IInv, Sole
  <2>2. \A k \in Key : k # identity_of(asked[r]) => registry'[k] = registry[k]
    BY <1>2, <1>5 DEF Register, Registry
  <2>3. Loaded' = Loaded /\ asked' = asked
    BY <1>5 DEF Register, Loaded
  <2>4. QED
    BY <2>1, <2>2, <2>3 DEF Pending
<1>6. CASE \E k \in Key, b \in BOOLEAN : Delete(r, k, b)
  <2>1. PICK k \in Key, b \in BOOLEAN : Delete(r, k, b)
    BY <1>6
  <2>2. Loaded' = Loaded /\ Loaded = registry
    BY <2>1 DEF Delete, Loaded, Sole
  <2>3. \A i \in Key : registry'[i] # Absent => registry'[i] = registry[i]
    BY <1>2, <2>1 DEF Delete, Registry
  <2>4. QED
    BY <2>2, <2>3 DEF Pending
<1>7. CASE Snapshot(r)
  <2>1. Loaded' = Loaded /\ registry' = registry /\ asked' = asked /\ pc[r] = "saving"
    BY <1>7 DEF Snapshot, Loaded
  <2>2. QED
    BY <2>1 DEF Pending
<1>8. CASE Restart
  BY <1>1, <1>8 DEF Restart, Idle, Pending
<1>9. CASE (\E k \in Key : Ingest(k)) \/ IngestWrites \/ IngestEnds \/ UNCHANGED vars
  BY <1>9 DEF Ingest, IngestWrites, IngestEnds, vars, local, Loaded, Pending
<1>10. ~WriteFails(r)
  BY DEF WriteFails
<1>11. QED
  BY <1>3, <1>4, <1>5, <1>6, <1>7, <1>8, <1>9, <1>10 DEF Next

\* With one thread and no faults, a database leaves the picker only when it is
\* deleted, or if the server dies before the request that added it was
\* answered (save_connections, load_connections).
THEOREM SoleThreadKeepsEntries ==
  ASSUME NEW r, Request = {r}, Fault = {}
  PROVE  Spec => [][OnlyDeletedGo]_vars
<1>1. Init => Sole(r) /\ Pending(r)
  BY SoleInit DEF Init, Pending, Idle
<1>2. Sole(r) /\ Pending(r) /\ [Next]_vars => (Sole(r) /\ Pending(r))'
  BY SoleStep, SolePending
<1>3. Sole(r) /\ Pending(r) /\ TypeOK /\ [Next]_vars => [OnlyDeletedGo]_vars
  <2>1. SUFFICES ASSUME Sole(r), Pending(r), TypeOK, Next, NEW k \in Key,
                        registry[k] # Absent, registry'[k] = Absent
                 PROVE  DeletedOrDied(k)
    BY DEF OnlyDeletedGo
  <2>2. IInv /\ registry \in Registry /\ r \in Request /\ DOMAIN pc = Request
        /\ DOMAIN asked = Request
    BY <2>1 DEF Sole, IInv, Keyed
  <2>3. CASE \E j \in Key, b \in BOOLEAN : Delete(r, j, b)
    <3>1. PICK j \in Key, b \in BOOLEAN : Delete(r, j, b)
      BY <2>3
    <3>2. j = k
      BY <2>1, <2>2, <3>1 DEF Delete, Registry
    <3>3. asked'[r] = k /\ pc'[r] = "saving"
      BY <2>2, <3>1, <3>2 DEF Delete
    <3>4. QED
      BY <2>2, <3>3 DEF DeletedOrDied
  <2>4. CASE Restart
    <3>1. registry' = Loaded /\ pc[r] # "writing"
      BY <2>2, <2>4 DEF Restart
    <3>2. pc[r] \in {"saving", "opening"}
      BY <2>1, <2>2, <3>1 DEF Sole, TypeOK
    <3>3. asked[r] \notin Key /\ identity_of(asked[r]) = k
      BY <2>1, <3>1, <3>2 DEF Pending
    <3>4. QED
      BY <2>2, <3>2, <3>3 DEF DeletedOrDied
  <2>5. CASE Register(r)
    <3>1. identity_of(asked[r]) \in Key /\ asked[r] \in supplied
      BY <2>2, <2>5, KeysOfTargets DEF Register, IInv, supplied
    <3>2. registry'[k] = registry[k]
      BY <2>1, <2>2, <2>5, <3>1 DEF Register, Registry
    <3>3. QED
      BY <2>1, <3>2
  <2>6. CASE registry' = registry
    BY <2>1, <2>6
  <2>7. QED
    BY <2>1, <2>3, <2>4, <2>5, <2>6
    DEF Next, AlreadySaved, Create, ProbeFails, Unlink, UnlinkFails, Deleted,
        Snapshot, Open, Write, WriteFails, Ingest, IngestWrites, IngestEnds
<1>4. QED
  BY <1>1, <1>2, <1>3, ConnectionTypes, PTL DEF Spec
=============================================================================
