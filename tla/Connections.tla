---------------------------- MODULE Connections ----------------------------
(***************************************************************************)
(* The databases a user adds from connection strings                       *)
(* (routes/connections.py, models/targets.py, connection_repository.py,    *)
(* detector.py): the registry the process holds, the file that makes it    *)
(* outlive a restart, and the artifacts that an ingestion leaves under the *)
(* key of a database.                                                      *)
(*                                                                         *)
(* The endpoints run in threads.  A connection string is a record of what  *)
(* it names: the driver reads all of it, the code only what urlsplit can   *)
(* make out, if it is `plain'.                                             *)
(***************************************************************************)
EXTENDS Naturals, Sequences

CONSTANTS
  Request,     \* the threads
  Connection,  \* the strings that users supply
  Builtin,     \* those that the settings hold
  DefaultPort, \* what the driver takes without a port
  Fault,       \* "write": writing the connections' file may fail;
               \* "death": the server may die while it writes that file
  Absent,      \* no entry; no ingestion; no answer
  Missing, Empty, Torn  \* no file, a truncated one, a garbled one

Engine == {"postgresql", "mongodb"}
supplied == Connection \cup Builtin

ASSUME ConnectionAssumption ==
  /\ supplied \subseteq
       [engine : Engine \cup {"unsupported"}, host : STRING, port : STRING,
        database : STRING, login : STRING, plain : BOOLEAN,
        form : {"uri", "sqlalchemy", "keyword"}]
  /\ Fault \subseteq {"write", "death"}

-----------------------------------------------------------------------------
(* detector.py and the target of a connection string                       *)

\* parse_connection: where urlsplit raises, only the engine is known.
parse_connection(c) ==
  IF c.plain
  THEN [engine |-> c.engine, host |-> c.host, port |-> c.port, database |-> c.database]
  ELSE [engine |-> c.engine, host |-> "", port |-> "", database |-> ""]

\* A mutant: the databases of one server are taken for the same.
IdentityOfServer(c) == [parse_connection(c) EXCEPT !.database = ""]

\* identity_of: neither credentials nor the form of the string take part.
identity_of(c) == parse_connection(c)

\* A target's key is a digest of the identity, taken to be as good as it.
Key == {identity_of(c) : c \in supplied}

\* driver_connection: a SQLAlchemy suffix is dropped, all else is kept.
driver_connection(c) ==
  IF c.form = "sqlalchemy" THEN [c EXCEPT !.form = "uri"] ELSE c

Target == {driver_connection(c) : c \in supplied}

Artifact == {"schema", "graph", "mst", "descriptions", "embeddings"}

\* What an ingestion writes, in this order.
Written(k) ==
  IF k.engine = "postgresql"
  THEN <<"schema", "graph", "mst", "schema", "descriptions", "embeddings">>
  ELSE <<"schema", "graph", "schema", "descriptions", "embeddings">>

\* A mutant: the embeddings are left.
UnlinkedButEmbeddings == <<"schema", "graph", "mst", "descriptions">>

\* What delete_artifacts=true removes, in this order.
Unlinked == <<"schema", "graph", "mst", "descriptions", "embeddings">>

VARIABLES
  registry,   \* _DYNAMIC: the connection that an entry carries
  saved,      \* the connections' file
  artifacts,  \* the files under a key
  pc,         \* where a request is
  asked,      \* what a request is about: a connection to add, or a key
  answer,     \* the connection of the entry it was answered with last
  snapshot,   \* what a request writes
  unlinking,  \* the files it still deletes
  ingesting, writes, \* the key that is ingested, and what is still written
  damaged     \* history: whose files a deletion left behind, or met an ingestion

local == <<pc, asked, answer, snapshot, unlinking>>
ingestion == <<ingesting, writes>>
vars == <<registry, saved, artifacts, local, ingestion, damaged>>

Registry == [Key -> Target \cup {Absent}]
ASSUME FileAssumption ==
  {Missing, Empty, Torn} \cap Registry = {} /\ Absent \notin Key

NoEntries == [k \in Key |-> Absent]

-----------------------------------------------------------------------------
(* POST /connections                                                       *)

\* A mutant: only the databases that users added are looked through.
KnownDynamic(c) ==
  IF registry[identity_of(c)] # Absent THEN {registry[identity_of(c)]} ELSE {}

\* find_by_connection: the built-in databases first.
Known(c) ==
  LET configured == {b \in Builtin : identity_of(b) = identity_of(c)} IN
  IF configured # {} THEN configured
  ELSE IF registry[identity_of(c)] # Absent THEN {registry[identity_of(c)]}
  ELSE {}

AlreadySaved(r, c) ==
  /\ pc[r] = "idle" /\ c.engine \in Engine
  /\ asked' = [asked EXCEPT ![r] = c]
  /\ \E known \in Known(c) : answer' = [answer EXCEPT ![r] = known]
  /\ UNCHANGED <<registry, saved, artifacts, pc, snapshot, unlinking, ingestion,
                 damaged>>

Create(r, c) ==
  /\ pc[r] = "idle" /\ c.engine \in Engine
  /\ Known(c) = {}
  /\ pc' = [pc EXCEPT ![r] = "probing"]
  /\ asked' = [asked EXCEPT ![r] = c]
  /\ answer' = [answer EXCEPT ![r] = Absent]
  /\ UNCHANGED <<registry, saved, artifacts, snapshot, unlinking, ingestion,
                 damaged>>

\* The database does not answer: 502.
ProbeFails(r) ==
  /\ pc[r] = "probing"
  /\ pc' = [pc EXCEPT ![r] = "idle"]
  /\ asked' = [asked EXCEPT ![r] = Absent]
  /\ UNCHANGED <<registry, saved, artifacts, answer, snapshot, unlinking,
                 ingestion, damaged>>

\* register_target: another thread's entry is left alone, and is the answer.
Register(r) ==
  LET k == identity_of(asked[r]) IN
  /\ pc[r] = "probing"
  /\ registry' = [registry EXCEPT ![k] =
                    IF @ = Absent THEN driver_connection(asked[r]) ELSE @]
  /\ answer' = [answer EXCEPT ![r] = registry'[k]]
  /\ pc' = [pc EXCEPT ![r] = "saving"]
  /\ UNCHANGED <<saved, artifacts, asked, snapshot, unlinking, ingestion,
                 damaged>>

-----------------------------------------------------------------------------
(* DELETE /connections/{key}                                               *)

\* A mutant: the file is left as it is.
DeleteUnsaved(r, k, delete_artifacts) ==
  /\ pc[r] = "idle" /\ registry[k] # Absent
  /\ registry' = [registry EXCEPT ![k] = Absent]
  /\ asked' = [asked EXCEPT ![r] = k]
  /\ answer' = [answer EXCEPT ![r] = Absent]
  /\ unlinking' = [unlinking EXCEPT ![r] =
                     IF delete_artifacts THEN Unlinked ELSE <<>>]
  /\ pc' = [pc EXCEPT ![r] = "unlinking"]
  /\ UNCHANGED <<saved, artifacts, snapshot, ingestion,
                 damaged>>

Delete(r, k, delete_artifacts) ==
  /\ pc[r] = "idle" /\ registry[k] # Absent
  /\ registry' = [registry EXCEPT ![k] = Absent]
  /\ asked' = [asked EXCEPT ![r] = k]
  /\ answer' = [answer EXCEPT ![r] = Absent]
  /\ unlinking' = [unlinking EXCEPT ![r] =
                     IF delete_artifacts THEN Unlinked ELSE <<>>]
  /\ pc' = [pc EXCEPT ![r] = "saving"]
  /\ UNCHANGED <<saved, artifacts, snapshot, ingestion,
                 damaged>>

\* Files of k are still to be deleted.
Deleting(k) ==
  \E r \in Request :
    pc[r] = "unlinking" /\ asked[r] = k /\ unlinking[r] # <<>>

Unlink(r) ==
  /\ pc[r] = "unlinking" /\ unlinking[r] # <<>>
  /\ artifacts' = [artifacts EXCEPT ![asked[r]] = @ \ {Head(unlinking[r])}]
  /\ unlinking' = [unlinking EXCEPT ![r] = Tail(@)]
  /\ damaged' = damaged \cup ({asked[r]} \cap {ingesting})
  /\ UNCHANGED <<registry, saved, pc, asked, answer, snapshot, ingestion>>

\* The file stays, which is logged, and the next one has its turn.
UnlinkFails(r) ==
  /\ pc[r] = "unlinking" /\ unlinking[r] # <<>>
  /\ Head(unlinking[r]) \in artifacts[asked[r]]
  /\ unlinking' = [unlinking EXCEPT ![r] = Tail(@)]
  /\ damaged' = damaged \cup {asked[r]}
  /\ UNCHANGED <<registry, saved, artifacts, pc, asked, answer, snapshot,
                 ingestion>>

\* Where no file is left there is nothing to mend.
Deleted(r) ==
  /\ pc[r] = "unlinking" /\ unlinking[r] = <<>>
  /\ pc' = [pc EXCEPT ![r] = "idle"]
  /\ asked' = [asked EXCEPT ![r] = Absent]
  /\ damaged' = {k \in damaged :
                   k # asked[r] \/ artifacts[k] # {} \/ ingesting = k}
  /\ UNCHANGED <<registry, saved, artifacts, answer, snapshot, unlinking,
                 ingestion>>

-----------------------------------------------------------------------------
(* save_connections                                                        *)

Snapshot(r) ==
  /\ pc[r] = "saving"
  /\ snapshot' = [snapshot EXCEPT ![r] = registry]
  /\ pc' = [pc EXCEPT ![r] = "opening"]
  /\ UNCHANGED <<registry, saved, artifacts, asked, answer, unlinking, ingestion,
                 damaged>>

\* write_text truncates the file before it has anything in it.
Open(r) ==
  /\ pc[r] = "opening"
  /\ saved' = Empty
  /\ pc' = [pc EXCEPT ![r] = "writing"]
  /\ UNCHANGED <<registry, artifacts, asked, answer, snapshot, unlinking, ingestion,
                 damaged>>

\* A file that another thread filled in between shows through, unless what is
\* written over it is as long.
Write(r) ==
  /\ pc[r] = "writing"
  /\ saved' \in IF saved \in {Empty, snapshot[r]} THEN {snapshot[r]}
                ELSE {snapshot[r], Torn}
  /\ pc' = [pc EXCEPT ![r] = IF asked[r] \in Key THEN "unlinking" ELSE "idle"]
  /\ snapshot' = [snapshot EXCEPT ![r] = NoEntries]
  /\ UNCHANGED <<registry, artifacts, asked, answer, unlinking, ingestion, damaged>>

\* The request fails; the registry keeps what it holds.
WriteFails(r) ==
  /\ "write" \in Fault
  /\ pc[r] \in {"opening", "writing"}
  /\ pc' = [pc EXCEPT ![r] = "idle"]
  /\ asked' = [asked EXCEPT ![r] = Absent]
  /\ answer' = [answer EXCEPT ![r] = Absent]
  /\ snapshot' = [snapshot EXCEPT ![r] = NoEntries]
  /\ unlinking' = [unlinking EXCEPT ![r] = <<>>]
  /\ UNCHANGED <<registry, saved, artifacts, ingestion, damaged>>

-----------------------------------------------------------------------------
(* The others                                                              *)

\* Every file that an ingestion writes.
HasAll(k) == \A i \in DOMAIN Written(k) : Written(k)[i] \in artifacts[k]

\* existing_ingestion, as far as files that load are concerned.
is_ingested(k) == {"schema", "embeddings"} \subseteq artifacts[k]

Ingest(k) ==
  /\ ingesting = Absent /\ registry[k] # Absent /\ ~is_ingested(k)
  /\ ingesting' = k /\ writes' = Written(k)
  /\ damaged' = damaged \cup {j \in {k} : Deleting(j)}
  /\ UNCHANGED <<registry, saved, artifacts, local>>

\* With the last file a run has mended what a deletion left behind, unless
\* one is under way, or took files that the run had written.
IngestWrites ==
  /\ ingesting # Absent /\ writes # <<>>
  /\ artifacts' = [artifacts EXCEPT ![ingesting] = @ \cup {Head(writes)}]
  /\ writes' = Tail(writes)
  /\ damaged' = {k \in damaged : \/ k # ingesting \/ writes' # <<>>
                                 \/ Deleting(k) \/ ~HasAll(k)'}
  /\ UNCHANGED <<registry, saved, local, ingesting>>

\* It is through, or the model or the database failed it.
IngestEnds ==
  /\ ingesting # Absent
  /\ ingesting' = Absent /\ writes' = <<>>
  /\ UNCHANGED <<registry, saved, artifacts, local, damaged>>

\* load_connections: a file that does not parse counts as none.
Loaded == IF saved \in {Missing, Empty, Torn} THEN NoEntries ELSE saved

Idle == [r \in Request |-> "idle"]

\* The server dies and is started again.
Restart ==
  /\ "death" \notin Fault => \A r \in Request : pc[r] # "writing"
  /\ registry' = Loaded
  /\ pc' = Idle
  /\ asked' = [r \in Request |-> Absent] /\ answer' = [r \in Request |-> Absent]
  /\ snapshot' = [r \in Request |-> NoEntries]
  /\ unlinking' = [r \in Request |-> <<>>]
  /\ ingesting' = Absent /\ writes' = <<>>
  /\ damaged' = damaged \cup {k \in Key : Deleting(k)}
  /\ UNCHANGED <<saved, artifacts>>

Init ==
  /\ registry = NoEntries /\ saved = Missing
  /\ artifacts = [k \in Key |-> {}]
  /\ pc = Idle /\ asked = [r \in Request |-> Absent]
  /\ answer = [r \in Request |-> Absent]
  /\ snapshot = [r \in Request |-> NoEntries]
  /\ unlinking = [r \in Request |-> <<>>]
  /\ ingesting = Absent /\ writes = <<>> /\ damaged = {}

Next ==
  \/ \E r \in Request :
       \/ \E c \in Connection : AlreadySaved(r, c) \/ Create(r, c)
       \/ ProbeFails(r) \/ Register(r)
       \/ \E k \in Key, delete_artifacts \in BOOLEAN : Delete(r, k, delete_artifacts)
       \/ Unlink(r) \/ UnlinkFails(r) \/ Deleted(r)
       \/ Snapshot(r) \/ Open(r) \/ Write(r) \/ WriteFails(r)
  \/ \E k \in Key : Ingest(k)
  \/ IngestWrites \/ IngestEnds \/ Restart

Spec == Init /\ [][Next]_vars

-----------------------------------------------------------------------------
(* Properties                                                              *)

\* Types of the registry, the files, the requests and the ingestion.
TypeOK ==
  /\ registry \in Registry
  /\ saved \in Registry \cup {Missing, Empty, Torn}
  /\ artifacts \in [Key -> SUBSET Artifact]
  /\ pc \in [Request -> {"idle", "probing", "saving", "opening", "writing", "unlinking"}]
  /\ asked \in [Request -> Connection \cup Key \cup {Absent}]
  /\ answer \in [Request -> Target \cup Builtin \cup {Absent}]
  /\ snapshot \in [Request -> Registry]
  /\ unlinking \in [Request -> Seq(Artifact)]
  /\ ingesting \in Key \cup {Absent} /\ writes \in Seq(Artifact)
  /\ damaged \subseteq Key

\* The database that the driver opens for a string.
Reached(c) ==
  [engine |-> c.engine, host |-> c.host, database |-> c.database,
   port |-> IF c.port = "" THEN DefaultPort ELSE c.port]

\* Strings that urlsplit takes and that both name the port or both do not: the
\* code tells them apart as the driver does.
SpelledAlike(c, d) == c.plain /\ d.plain /\ (c.port = "" <=> d.port = "")

\* "pasting the DSN behind `POSTGRES_DSN` selects that database rather than
\* adding a second copy of it" (routes/connections.py:94-98), a rotated
\* password or another form of the string neither: no two entries of the
\* picker reach the same database, whoever adds and deletes at the same time.
\* It does get a second entry if one string names the default port and the
\* other one none (detector.py:217), or if one of them does not parse.
OneEntryPerDatabase ==
  \A k \in Key : registry[k] # Absent =>
    /\ \A b \in Builtin :
         SpelledAlike(b, registry[k]) => Reached(b) # Reached(registry[k])
    /\ \A j \in Key \ {k} :
         registry[j] # Absent /\ SpelledAlike(registry[j], registry[k]) =>
           Reached(registry[j]) # Reached(registry[k])

\* More than the engine is read off the string.
Legible(c) == c.plain /\ <<c.host, c.port, c.database>> # <<"", "", "">>

\* Whoever adds a database is given an entry that reaches it, if more than the
\* engine can be read off the string.  All others of an engine, a replica set
\* with its list of hosts among them, are taken for one database
\* (detector.py:189-193).
AnswerReachesAsked ==
  \A r \in Request :
    answer[r] # Absent /\ Legible(asked[r]) => Reached(answer[r]) = Reached(asked[r])

\* "if it is present and non-empty, the run that produced it got all the way
\* through" (core/ingestion/pipeline.py:83-84): an entry counts as ingested
\* only if no file is missing, wherever an ingestion was broken off.  A
\* deletion that leaves files, as an unlink fails or the server dies, or one
\* that takes files while they are written, may damage it, until an ingestion
\* got through since, or no file is left.
IngestedIsComplete == \A k \in Key \ damaged : is_ingested(k) => HasAll(k)

\* The file, the requests and the artifacts keep their types, and what counts
\* as ingested and is not damaged is complete (existing_ingestion).
FilesAreSound == TypeOK /\ IngestedIsComplete

\* The databases are "missing from the picker after a restart" without the
\* file (rest/app.py:26-29): between requests it holds what the picker lists.
SavedIsOnDisk == pc = Idle => Loaded = registry

\* "the picker still lists those databases after the API restarts"
\* (connection_repository.py:4-5): an entry goes when somebody deletes it, or
\* if the server dies before the request that added it was answered.
DeletedOrDied(k) ==
  \/ \E r \in Request : asked'[r] = k /\ pc'[r] = "saving"
  \/ \E r \in Request : /\ pc[r] \in {"saving", "opening", "writing"}
                       /\ asked[r] \notin Key /\ identity_of(asked[r]) = k

OnlyDeletedGo ==
  \A k \in Key : registry[k] # Absent /\ registry'[k] = Absent => DeletedOrDied(k)
=============================================================================
