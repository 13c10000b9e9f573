----------------------------- MODULE Ingestion -----------------------------
(***************************************************************************)
(* The ingestion of one database (core/ingestion/pipeline.py), the files   *)
(* it leaves and who reads them: the check that lets a later selection     *)
(* skip it, the listing of databases, and the schema that queries keep in  *)
(* memory (schema_cache.py).                                               *)
(*                                                                         *)
(* An ingestion runs in the event loop and gives it up only where it       *)
(* awaits the model, so that between two of those points other ingestions  *)
(* wait; the listing runs in a thread, between any two reads and writes of *)
(* the others, and a crash may come anywhere, in the middle of a write     *)
(* too.  A file's content is reduced to the version of the database it is  *)
(* about and to whether it carries generated descriptions.                 *)
(***************************************************************************)
EXTENDS Naturals, Sequences

CONSTANTS
  Request,      \* requests that ingest the database, with force or without
  HasMst,       \* whether the target has a spanning tree (PostgreSQL)
  DESCRIBE_MAX_ATTEMPTS,
  Batches,      \* batches of tables to describe
  MaxVersion,   \* bound of the model: versions of the database
  Missing, Torn \* no file; a file whose writing was not finished

ASSUME BoundAssumption ==
  /\ DESCRIBE_MAX_ATTEMPTS \in Nat \ {0} /\ Batches \in Nat \ {0}
  /\ MaxVersion \in Nat \ {0}
  /\ HasMst \in BOOLEAN

Version == 1 .. MaxVersion
Artifact == {"schema", "graph", "mst", "descriptions", "embeddings"}
Content == [of : Version, described : BOOLEAN]

ASSUME FileAssumption ==
  Missing \notin Content /\ Torn \notin Content /\ Missing # Torn

VARIABLES
  live,         \* the version the database is at
  artifact,     \* the files
  pc,           \* where a request is
  extracted,    \* the version it extracted
  described,    \* whether its copy of the schema has its descriptions
  todo,         \* the files it still writes before it awaits or answers
  batch, attempt,
  answer,       \* what a request was answered last
  memory,       \* the schema the server's orchestrator keeps, once loaded
  listing,      \* the file that the listing of databases loads next
  whole,        \* history: who is served alone since it extracted
  disturbed     \* history: whether the files may be those of several runs

local == <<pc, extracted, described, todo, batch, attempt, answer>>
others == <<memory, listing>>
history == <<whole, disturbed>>
vars == <<live, artifact, local, others, history>>

-----------------------------------------------------------------------------
(* What is on disk                                                         *)

Exists(a) == artifact[a] # Missing

\* What was written to the end.  Embeddings are JSON and load only then; the
\* TOML of a torn file may still parse, with some of its tables or with none.
Loads(a) == artifact[a] \in Content
MayFail(a) == Exists(a) /\ ~Loads(a)

\* existing_ingestion takes a run that left this for a complete one, unless
\* what it loads after that, outside of its try, raises.
Marked == Loads("embeddings") /\ Exists("schema")

\* What a run that got all the way through leaves behind.
Complete ==
  /\ \A a \in Artifact \ {"mst"} : Loads(a)
  /\ HasMst => Loads("mst")
  /\ artifact["schema"].described /\ artifact["descriptions"].described
  /\ \A a \in {"graph", "descriptions"} :
       artifact[a].of = artifact["schema"].of
  /\ HasMst => artifact["mst"].of = artifact["schema"].of

\* The event loop is free: no request is between two writes.
LoopFree == \A i \in Request : pc[i] # "writing"

-----------------------------------------------------------------------------
(* run_ingestion_pipeline                                                  *)

Arrives(i) == pc[i] = "idle" /\ LoopFree

Skip(i) ==
  /\ Arrives(i) /\ Marked
  /\ answer' = "skipped"
  /\ UNCHANGED <<live, artifact, pc, extracted, described, todo, batch,
                 attempt, others, history>>

\* existing_ingestion raises, or the database cannot be reached.
Refuse(i, force) ==
  /\ Arrives(i)
  /\ force \/ ~Marked \/ MayFail("schema") \/ MayFail("descriptions")
  /\ answer' = "error"
  /\ UNCHANGED <<live, artifact, pc, extracted, described, todo, batch,
                 attempt, others, history>>

\* The files that extract_and_save_schema writes.
Extraction == IF HasMst THEN <<"schema", "graph", "mst">>
              ELSE <<"schema", "graph">>

\* extract_and_save_schema, before its writes.  From here on the files may
\* be of several runs, if some run completed or another one is under way.
Extract(i, force) ==
  /\ Arrives(i) /\ (force \/ ~Marked)
  /\ extracted' = [extracted EXCEPT ![i] = live]
  /\ described' = [described EXCEPT ![i] = FALSE]
  /\ todo' = [todo EXCEPT ![i] = Extraction]
  /\ pc' = [pc EXCEPT ![i] = "writing"]
  /\ whole' = {o \in {i} : \A r \in Request : pc[r] = "idle"}
  /\ disturbed' = (disturbed \/ Loads("embeddings") \/ whole' = {})
  /\ UNCHANGED <<live, artifact, batch, attempt, answer, others>>

\* write_text opens the file, which empties it.
Open(i) ==
  /\ pc[i] = "writing" /\ todo[i] # <<>>
  /\ artifact[Head(todo[i])] # Torn
  /\ artifact' = [artifact EXCEPT ![Head(todo[i])] = Torn]
  /\ UNCHANGED <<live, local, others, history>>

\* The graph carries no descriptions; of the rest it depends on the stage.
Close(i) ==
  /\ pc[i] = "writing" /\ todo[i] # <<>>
  /\ artifact[Head(todo[i])] = Torn
  /\ artifact' = [artifact EXCEPT ![Head(todo[i])] =
                    [of |-> extracted[i], described |-> described[i]]]
  /\ todo' = [todo EXCEPT ![i] = Tail(@)]
  /\ UNCHANGED <<live, pc, extracted, described, batch, attempt, answer,
                 others, history>>

\* The request is answered and what it knew is gone.
Ends(i) ==
  /\ pc' = [pc EXCEPT ![i] = "idle"]
  /\ extracted' = [extracted EXCEPT ![i] = 1]
  /\ described' = [described EXCEPT ![i] = FALSE]
  /\ todo' = [todo EXCEPT ![i] = <<>>]
  /\ batch' = [batch EXCEPT ![i] = 1]
  /\ attempt' = [attempt EXCEPT ![i] = 1]
  /\ UNCHANGED <<live, artifact, others, whole>>

WriteFails(i) ==
  /\ pc[i] = "writing" /\ todo[i] # <<>>
  /\ artifact[Head(todo[i])] = Torn
  /\ Ends(i) /\ answer' = "error"
  /\ UNCHANGED disturbed

\* describe_tables loads the graph and asks about the first batch.
Describe(i) ==
  /\ pc[i] = "writing" /\ todo[i] = <<>> /\ ~described[i]
  /\ pc' = [pc EXCEPT ![i] = "describing"]
  /\ batch' = [batch EXCEPT ![i] = 1]
  /\ attempt' = [attempt EXCEPT ![i] = 1]
  /\ UNCHANGED <<live, artifact, extracted, described, todo, answer, others,
                 history>>

\* _describe_batch: the answer parses.
NextBatch(i) ==
  /\ pc[i] = "describing" /\ LoopFree /\ batch[i] < Batches
  /\ batch' = [batch EXCEPT ![i] = @ + 1]
  /\ attempt' = [attempt EXCEPT ![i] = 1]
  /\ UNCHANGED <<live, artifact, pc, extracted, described, todo, answer,
                 others, history>>

\* A mutant: a batch that does not parse is asked about without end.
AskAgainAlways(i) ==
  /\ pc[i] = "describing" /\ LoopFree
  /\ attempt' = [attempt EXCEPT ![i] =
                   IF @ = DESCRIBE_MAX_ATTEMPTS THEN 1 ELSE @ + 1]
  /\ UNCHANGED <<live, artifact, pc, extracted, described, todo, batch,
                 answer, others, history>>

AskAgain(i) ==
  /\ pc[i] = "describing" /\ LoopFree /\ attempt[i] < DESCRIBE_MAX_ATTEMPTS
  /\ attempt' = [attempt EXCEPT ![i] = @ + 1]
  /\ UNCHANGED <<live, artifact, pc, extracted, described, todo, batch,
                 answer, others, history>>

\* The last attempt did not parse, or the call to the model failed.
DescribeFails(i) ==
  /\ pc[i] = "describing" /\ LoopFree
  /\ Ends(i) /\ answer' = "error"
  /\ UNCHANGED disturbed

\* A mutant: the embeddings, the mark of a complete run, come first.
ApplyMarkFirst(i) ==
  /\ pc[i] = "describing" /\ LoopFree /\ batch[i] = Batches
  /\ described' = [described EXCEPT ![i] = TRUE]
  /\ todo' = [todo EXCEPT ![i] =
                IF Loads("embeddings") THEN <<"schema", "descriptions">>
                ELSE <<"embeddings", "schema", "descriptions">>]
  /\ pc' = [pc EXCEPT ![i] = "writing"]
  /\ UNCHANGED <<live, artifact, extracted, batch, attempt, answer, others,
                 history>>

\* What is written in the end: schema and documentation, and placeholder
\* embeddings unless there are some already.
Documents == IF Loads("embeddings") THEN <<"schema", "descriptions">>
             ELSE <<"schema", "descriptions", "embeddings">>

\* The last batch is described.
Apply(i) ==
  /\ pc[i] = "describing" /\ LoopFree /\ batch[i] = Batches
  /\ described' = [described EXCEPT ![i] = TRUE]
  /\ todo' = [todo EXCEPT ![i] = Documents]
  /\ pc' = [pc EXCEPT ![i] = "writing"]
  /\ UNCHANGED <<live, artifact, extracted, batch, attempt, answer, others,
                 history>>

\* The files are those of one run again, if no other one came in between.
Answer(i) ==
  /\ pc[i] = "writing" /\ todo[i] = <<>> /\ described[i]
  /\ Ends(i) /\ answer' = "ingested"
  /\ disturbed' = (disturbed /\ i \notin whole)

-----------------------------------------------------------------------------
(* list_databases_endpoint, in a thread of its own                         *)

\* A mutant: embeddings that do not load raise.
ListEmbeddingsRaises ==
  /\ listing \in {"none", "failed"}
  /\ listing' = IF Loads("embeddings") THEN "schema" ELSE "failed"
  /\ UNCHANGED <<live, artifact, local, memory, history>>

\* existing_ingestion gives up, without raising, unless embeddings load.
ListEmbeddings ==
  /\ listing \in {"none", "failed"}
  /\ listing' = IF Loads("embeddings") THEN "schema" ELSE "none"
  /\ UNCHANGED <<live, artifact, local, memory, history>>

\* What may come of a look for a file that is loaded when it exists, and of
\* the load: no file is removed in between.
Loading(a, next) ==
  CASE Loads(a)   -> {next}
    [] MayFail(a) -> {next, "failed"}
    [] OTHER      -> {"none"}

ListSchema ==
  /\ listing = "schema" /\ listing' \in Loading("schema", "descriptions")
  /\ UNCHANGED <<live, artifact, local, memory, history>>

ListDescriptions ==
  /\ listing = "descriptions" /\ listing' \in Loading("descriptions", "none")
  /\ UNCHANGED <<live, artifact, local, memory, history>>

List == ListEmbeddings \/ ListSchema \/ ListDescriptions

-----------------------------------------------------------------------------
(* The others                                                              *)

\* SchemaCache.get_or_load, for the first query since the server started.
\* Descriptions that do not load leave the schema as it is.
LoadSchema ==
  /\ LoopFree /\ memory = Missing /\ Exists("schema")
  /\ memory' = IF Loads("schema")
               THEN [artifact["schema"] EXCEPT
                       !.described = @ \/ Loads("descriptions")]
               ELSE Torn
  /\ UNCHANGED <<live, artifact, local, listing, history>>

\* Somebody changes the database.
Migrate ==
  /\ live < MaxVersion /\ live' = live + 1
  /\ UNCHANGED <<artifact, local, others, history>>

\* The server dies and is started again.
Crash ==
  /\ pc' = [i \in Request |-> "idle"]
  /\ extracted' = [i \in Request |-> 1]
  /\ described' = [i \in Request |-> FALSE]
  /\ todo' = [i \in Request |-> <<>>]
  /\ batch' = [i \in Request |-> 1] /\ attempt' = [i \in Request |-> 1]
  /\ answer' = "none" /\ memory' = Missing /\ listing' = "none"
  /\ UNCHANGED <<live, artifact, history>>

Init ==
  /\ live = 1 /\ artifact = [a \in Artifact |-> Missing]
  /\ pc = [i \in Request |-> "idle"] /\ extracted = [i \in Request |-> 1]
  /\ described = [i \in Request |-> FALSE]
  /\ todo = [i \in Request |-> <<>>]
  /\ batch = [i \in Request |-> 1] /\ attempt = [i \in Request |-> 1]
  /\ answer = "none" /\ memory = Missing /\ listing = "none"
  /\ whole = {} /\ disturbed = FALSE

\* What the server does about a request once it has taken it on.
Serve(i) ==
  \/ Open(i) \/ Close(i) \/ WriteFails(i) \/ Describe(i) \/ NextBatch(i)
  \/ AskAgain(i) \/ DescribeFails(i) \/ Apply(i) \/ Answer(i)

Next ==
  \/ \E i \in Request :
       \/ Skip(i) \/ Serve(i)
       \/ \E force \in BOOLEAN : Refuse(i, force) \/ Extract(i, force)
  \/ LoadSchema \/ List \/ Migrate \/ Crash

Spec == Init /\ [][Next]_vars

\* A call to the model returns or fails, and the event loop runs whoever is
\* ready, first come first served: whoever waits for it gets it.
FairSpec == Spec /\ \A i \in Request : SF_vars(Serve(i))

-----------------------------------------------------------------------------
(* Properties                                                              *)

\* Types of the files, of the requests, of the others and of the history.
TypeOK ==
  /\ live \in Version
  /\ artifact \in [Artifact -> Content \cup {Missing, Torn}]
  /\ pc \in [Request -> {"idle", "writing", "describing"}]
  /\ extracted \in [Request -> Version]
  /\ described \in [Request -> BOOLEAN]
  /\ todo \in [Request -> Seq(Artifact)]
  /\ batch \in [Request -> 1 .. Batches]
  /\ attempt \in [Request -> 1 .. DESCRIBE_MAX_ATTEMPTS]
  /\ answer \in {"none", "skipped", "error", "ingested"}
  /\ memory \in Content \cup {Missing, Torn}
  /\ listing \in {"none", "schema", "descriptions", "failed"}
  /\ whole \subseteq Request /\ disturbed \in BOOLEAN

\* What makes a later selection skip the ingestion are the complete files of
\* one run and one version of the database, whatever failed or crashed before
\* (existing_ingestion's docstring, pipeline.py:81-86), unless a forced run
\* began over the files of a complete one, or two runs overlapped; and then
\* again as soon as a run got through that no other one came in between.
SkipMeansComplete == Marked /\ ~disturbed => Complete

\* A listing, which reads one file after the other while the event loop
\* writes them, fails on no database whose runs only failed or crashed.  It
\* may fail where a forced run began over the files of a complete one, or two
\* runs overlapped, until one gets through: past the embeddings nothing that
\* raises is caught (pipeline.py:105-109), though the comment at
\* pipeline.py:93-96 would have no target take a listing down.
ListingSurvives ==
  [][listing' = "failed" /\ listing # "failed" => disturbed]_vars

\* An ingestion answers, however many of the model's answers do not parse
\* (describe.py:119-149), overlapping ones included.
IngestionEnds == \A i \in Request : pc[i] # "idle" ~> pc[i] = "idle"
=============================================================================
