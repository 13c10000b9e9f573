# NL2Any: a verification project

NL2AnyQuery answers questions in natural language: it corrects the spelling,
asks a guardrail model whether the question is a read query, lets a model pick
tables, generate a query and validate it, checks the query against a read-only
policy, executes it against PostgreSQL or MongoDB and returns rows.  A run that
got far enough is saved, and can be rerun from a later stage with feedback.

This directory holds TLA+ models of that program, TLC configurations that check
them, and proofs checked by TLAPS.  Paths below are relative to
`src/backend/src/`; `pipeline/` stands for `core/query_processing/pipeline/`.

## 1. Inventory

| Component | State | Operations | Interacts with | What is hard | What makes it correct |
|---|---|---|---|---|---|
| State machine (`pipeline/fsm/`) | state, transition count, `PipelineContext` | one transition per stage event | adapters, orchestrator | loops back between stages, three kinds of retry, flags set by a rerun | only checked queries are executed; artifacts belong together; every run ends before the cap |
| Orchestrator (`pipeline/orchestrator.py`) | none across runs but caches | `execute_pipeline`, `rerun_pipeline` | state machine, run repository, schema cache | partial failures, cancellation, concurrent reruns | an executed query is answered; a saved run can be rerun |
| Run repository (`data/repositories/run_repository.py`) | one JSON file per run | save, load, clean up | orchestrator | lost updates, files removed under a save | a loaded run is one that some run wrote |
| KV cache manager (`control/providers/model/koboldcpp_cache.py`) | slot maps, LRU times, warmed slots, schema hashes, a lock | allocate, warm up, save and load state | table selector, KoboldCpp server | slots allocated before the lock, other requests on the same server | a warmed slot holds the prefix of the database that owns it |
| Table selector (`pipeline/selector.py`) | cached prefixes | `select` | KV cache, model | see above | only names of the schema are selected |
| Selection strategies (`pipeline/strategies/`) | candidates of earlier attempts | `scope`, `_widen` | retrieval, join graph | retries that must widen | a retry never offers less |
| Join graph (`pipeline/join_graph.py`) | adjacency | neighbourhood, connect | strategies, policy | bounded walks, disconnected selections | a connected selection keeps what was selected |
| Generators, validators, policy, executor | none | one call per stage | models, databases | the same question decided in two ways, answers that contradict themselves, failures in the middle | only approved queries that stay within the selection run; a sound query is not lost; no row is |
| Feedback (`pipeline/feedback.py`) | history in the run file | `build_cascading_guidance` | orchestrator | sliding window, order of stages | later feedback wins |
| REST routes and streaming (`api/rest/`) | one queue per stream | query, rerun, stream, ingest, connect | orchestrator | disconnects, background tasks | one terminal message per stream |
| Ingestion (`core/ingestion/`) | artifacts on disk | extract, describe, embed | model, database, repositories | crash between artifacts, skip and force, listings that read while files are rewritten | a skipped ingestion is complete; a listing fails on nothing that merely failed |
| Description batching (`core/ingestion/schema/describe.py`) | none | chunk, describe with retries | model | batches bounded twice | each table is described exactly once |
| Spanning tree (`core/ingestion/schema/mst.py`) | union-find | Kruskal, traversal | ingestion | paths compressed while they are climbed | a spanning forest, and an order along it |
| Connections (`data/repositories/connection_repository.py`, `data/models/targets.py`) | registry, connections file | register, save, load | routes | snapshot and write races, corrupt files, deletions that leave files | a saved connection survives a restart; what counts as ingested is |
| File caches (`data/repositories/files.py`, `schema_cache.py`) | entries by path | read through, clear | all repositories | stale entries | a read is as new as the file |
| Schema extraction (`data/clients/postgres/metadata.py`) | none | three catalog queries, a check | ingestion | the database changes between the queries, names of constraints repeat, rights hide parts | what is accepted is closed; the owner misses no key |
| Spelling correction (`pipeline/spelling.py`) | none | protect jargon, correct words, restore | guardrail | terms within terms, text that changes under the positions found in it | corrections are what was done; jargon comes out as given |
| Token counts (`pipeline/fsm/adapters.py`) | a number in each stage | leave, read, reset | all runs of the process | the number is left before an await and read after it | no prompt is counted twice |
| Providers, clients, command line, frontend, seeds | none | requests | servers | none of their own | not modelled |

`PROJECT.json` lists them with their files and status, and under "hazards" the
places where each can go wrong in a way a unit test hardly reaches.

## 2. Plan

In this order, the most important behaviour first.

1. `Pipeline`: the state machine with the orchestrator around it, sessions of one run
and its reruns.  `QueryService`: the contract with a client. `PipelineProofs`: safety,
and that the one implements the other. 2. `KvCache`, `KvCacheProofs`: slot manager,
selector and warm-up worker around one lock and one KoboldCpp server. 3. `RunStore`:
overlapping requests for one run, saves through temporary files, the clean-up, the
window over the feedback history.  `FileCache`: a cached file under concurrent reads
and writes.  `RunStoreProofs` is about both. 4. `Ingestion`, `IngestionProofs`: the
artifacts in their order, crash, skip and force. 5. `Metadata`, what an extraction
reads while the database changes; `SpanningForest`, union-find and order; `Describe`,
batches and their retries: the computations of an ingestion, side by side in
`IngestionStages`.  `IngestionStagesProofs`. 6. `Connections`, `ConnectionsProofs`:
registry and file across restarts, next to ingestions and deletions. 7. `TableScope`,
`JoinRepair`, `Spelling`, the algorithms of a query, step by step, against reference
definitions, and `TokenCounts`, the counts that the runs of a process share: side by
side in `QueryStages`. 8. `SqlGate`, `MongoGate`, both over `QueryResults`: a query
between generator and result, side by side in `QueryGates`.  `QueryGatesProofs` is
about 7 and 8, but for the counts of tokens: they are in `PipelineProofs`, whose runs
record them. 9. `Stream`, `StreamProofs`: the event stream of a run.

`MC*` modules give the small instances their constants, and where it helps a
symmetry, a view or a constraint.  No module declares a recursive operator.

## 3. What is modelled

### Pipeline

A behaviour is a *session*: one fresh run of a question, then reruns of the run
it saved.  `state` and `transition_count` are the runner's locals, `context`
holds the fields of `PipelineContext` that control depends on, `run_file` the
fields a rerun loads, `outcome` what the caller got.  `clock` stamps selections
and queries with fresh numbers, so that the model can tell whether two fields
are about the same selection or the same query; nothing else about them matters.
`generated` is a history variable.

* One action per pair of state and event of `fsm/transition.py`, guards from its
  conditions, updates from `ContextUpdates` and `record_event_artifacts`.
* `Advance` is the end of the loop in `fsm/runner.py`, the cap included.
* `StageFailed` is the `Failed` event any adapter makes of an exception.
* `Finish` builds the response and saves the run; `Raises` says when building it
  raises, `ShouldSave` is the condition of `_save_pipeline_run_file`.
* `Cancelled` can only happen where a stage awaits a model: the spelling check,
  the policy check, the execution and the save are synchronous calls.
* `RunExpires` is `cleanup_old_runs`; `Rerun` is `rerun_pipeline` up to the
  runner's first turn, `Rehydrated` the context it builds.

`Rehydrated` leaves out the fallback for a saved MongoDB query that does not parse
(`pipeline/orchestrator.py:707-720`): what is saved is the JSON of a query that did
(`generators/mongo.py:159`), so only a file edited by hand gets there.

A stage's answer is chosen freely among those its adapter can give.  The model
call of a stage is atomic: other requests share none of the state of a session
(reruns of one run that overlap are `RunStore`'s matter).

### QueryService

The promise to a client in five variables and seven actions: a run proposes
queries, approves one, executes only an approved one and at most once, then
answers; a run that raises or is cancelled has executed and stored nothing; a
rerun inherits no approval.  `Pipeline` instantiates it as `Service` with
`phase <- outcome`, `candidate <- generated_query.id`,
`approved <- policy_result.allowed`, `executed <- execution_result # None` and
`stored <- run_file.generated_query.id`.

### KvCache

Stage 1 keeps the prompt prefix of each database in a slot of the KoboldCpp
server: save the server's context after a dummy question, load it before each
selection.  The processes are requests in table selection and one warm-up task
per database; `pc` says where each stands, a step is what one coroutine does
between two awaits.

* `db_to_slot`, `slot_to_db`, `warmed`, `disabled` are the manager's fields;
  `_slot_access_time` is `used` (its keys) and `older` (its order), and
  `_free_slots` is the rest.  `hashed` stands for `_schema_hashes`: schemas do
  not change here, so a hash is only there or not.
* `Allocate` is `get_or_allocate_slot` with its four branches; it is always part
  of the action of its caller.
* `lock` and `ahead` are the `asyncio.Lock` and its waiters, first come first
  served.  `Join` acquires or queues, `End` releases: it is what `async with`
  does on every way out, return, exception or cancellation.
* `live` and `stored` are the server's, each the name of the database whose
  prefix is there.  A call takes effect with its answer; one that fails or is
  cancelled may have taken effect or not.
* `Ask` .. `Generated` follow `_generate_with_cache`, `StartWorker` .. `Saved`
  follow `_warmup_worker`, `SelectDatabase` and `TriggerWarmup` the select route
  and its background task.
* `later` and `reused` are history variables for the properties.

A request's cancellation while it awaits a warm-up task cancels that task, and
with it the other requests that await it: `await task` passes the cancellation
on.  A database hit by a failed `load_state` twice goes on without cache, as the
code does.  What an aborted HTTP call may still do to the server later than the
abort is not modelled.

### RunStore

`files` and `mtime` are the directory: each path, of a run or a temporary one, holds
nothing or what a run file comes to here, which feedback the selection and the query in
it were made under and the last feedback of each stage in its history.  A request
(`pc`, `snapshot`, `start`, `applicable`) is served by its `process`, loads a file
(`Rerun`, guards from `rerun_pipeline`) or begins a run (`Ask`), and in the end writes
the whole of its copy: `WriteTemp`, `Replace`, then `List` and one `Unlink` for each
file of `cleanup_old_runs`, each of which may fail.  `Window` is the window of
`build_cascading_guidance`, `Shown` what the validator is told.  `Turn` says that
requests of one process take turns at awaits only; processes interleave at every step,
and `Crash` leaves what was written.  `clock` makes the instants of writes distinct: it
counts the writes and the passing of time.

Two server processes over one directory do lose runs: the clean-up of one may
remove a file the other has just written, when it was listed with the time of the
version before.  So retention is stated of one process only (`OneProcessRetains`).

### FileCache

One artifact behind `read_cached`: `Stat`, `Hit`, `Parse`, `Store` and `Return` are
the steps of a read, `Truncate`, `Write`, `Drop` those of `write_text`, by writers of
this process and of others (`Foreign`), which drop nothing.  `held` (history) is what
the file was during a read.  A signature is a number that grows with each change:
two writes of equal size within one tick of the file system's clock are left out.
What a write has left half done may parse or not, and is then what the file holds.

### Ingestion

`artifact` holds for each of the five files the version of the database it is about
and whether it carries descriptions, or `Torn` between opening and closing.  `Skip`,
`Refuse` and `Extract` are the three ways into `run_ingestion_pipeline`; `Open`,
`Close` and `WriteFails` each write, `Describe` to `Apply` the description stage with
its attempts; between two awaits an ingestion keeps the event loop (`LoopFree`).
`LoadSchema` is the schema cache, `Migrate` a change of the database, `Crash` may come
anywhere.  The listing endpoint is a thread: `ListEmbeddings`, `ListSchema` and
`ListDescriptions` are its loads of one database, each a step, and `listing` the file
that is next.  A torn embeddings file is torn JSON and loads never; the TOML of the
others is cut anywhere, so it may parse, with some of its tables or with none, or not
(`Loading`).  The look whether a file exists and its load are one step, as no listed
database is deleted here.

Requests may force and may overlap.  Both can leave the files of two runs side by side,
since embeddings of an earlier run vouch for what a later one has half rewritten
(`core/ingestion/pipeline.py:211`).  The history variable `disturbed` says that this
may have happened: from a run that begins over embeddings that load, or while another
is under way, until one gets through that no other began beside (`whole`).
`SkipMeansComplete` is about files that are not disturbed, and `ListingSurvives` says
that a listing fails on disturbed ones only.  While they are disturbed it does fail:
the loads at `:105` and `:109` are outside the `try` (section 7).

### Metadata

`tables` and `keys` are the database, `ListTables`, `ListColumns` and `ListKeys` the
three queries, each of which commits, so that `CreateTable`, `DropTable`, `AddColumn`
and `AddKey` may come between them.  `Joined` is the join over `information_schema` by
the names the query joins by; `access` is what the catalog shows to the role that asks.
`ListKeys` ends with `validate_consistency`.

### SpanningForest

Kruskal's algorithm with each turn of the loops of `find` a step (`Climb`,
`Compress`), since one assignment in the wrong order loses a set; `Union` chooses
an edge, `Start` and `Visit` are the walk that orders the tables.  The reference is
a closure that knows nothing of the union-find: `Within` gives the tables within so
many steps, `Joined` and `Trees` what is connected, `FirstOf` and `Depth` where a
table's tree begins and how far from there it is.

### Describe

The loops of `_chunk_nodes` (`AddToBatch`, `CloseBatch`, `LastBatch`) and of
`describe_tables` (`Answered`, `AskAgain`, `GiveUp`).  A table is a position and a
number of columns; a model may describe tables it was not asked about.

### Connections

`registry` is the process's, `saved` the file, `artifacts` what an ingestion left under
each key.  A connection string is a record of what it names; `parse_connection` and
`identity_of` are what `detector.py` makes of it, which reads nothing but the engine
off a string that is not `plain`, and `Reached` is what the driver opens.  A request
adds (`AlreadySaved`, `Create`, `ProbeFails`, `Register`), deletes (`Delete`, one
`Unlink` or `UnlinkFails` for each file, `Deleted`), and saves (`Snapshot`, `Open`,
`Write`, `WriteFails`); the steps of two threads interleave, and a database may be
deleted while it is ingested.  `Restart` may come between any two steps; `Fault` says
whether writing the connections' file may fail, and whether the server may die while it
does.

What the code promises about connections it does not keep for every string, so the
properties name the strings.  `SpelledAlike`: two strings that parse and both name the
port or both do not; others of one database get an entry each.  `Legible`: a string of
which more than the engine can be read; all others of an engine are taken for one
database.  Strings that name their host in a query part, and the difference that
`mongodb+srv` makes, are left out.  A deletion that leaves files, or takes them while
an ingestion writes them, leaves a database that may count as ingested with files
missing: `damaged` (history) holds its key until an ingestion gets through undisturbed,
or no file is left.

### TableScope

The `bfs` strategy over the attempts of one run: `Seed` and `Widen` retrieve and merge,
`StartWalk`, `Visit`, `EndWalk` are `bfs_levels` for each seed, `Collect` cuts the
neighbourhood to `max_tables`; failing retrieval falls back to the whole schema as the
adapter does.  `Merged` is `_widen`'s update of the matches it keeps.  A similarity is
a number, 0 below the threshold.

### JoinRepair

`connect_selection`, one turn of its loop a step: `Group`, then `Bridge` along the
first of the shortest paths, until `Joined` or `GiveUp`.  `Reach` is what every closed
set contains and `Paths` enumerates walks instead of searching, so that what a
breadth-first search returns, and its order, is stated and not repeated.  No caller uses
the function yet.

### Spelling

`Find` and `Replace` protect one term after the other, longest first and from the
last occurrence to the first; `Token` cuts words and applies the first rule that
fits (`Chosen`); `Return` puts the terms back.  Words and separators are atoms; edit
distances and the dictionary are relations between words, and no term overlaps an
occurrence of itself.

A term that starts or ends in another sign than a word character or a hyphen may have
its placeholder next to a word.  The two are then one token, which is kept as it is,
and the placeholder is left in the question (`Token`, `spelling.py:131`).
`NothingIsLeft` says that terms that are `Closed` never do this.  `CorrectionsAreReal`
and `LongestTermIsKept` are about questions in which no placeholder is left
(`Restored`), and `ExemptAreKept` about all.

### TokenCounts

`last_prompt_tokens` is the attribute that each stage keeps; `Ask` leaves a prompt's
size there, `Answer` is the adapter's reading and resetting, `CutOff` what an exception
or a cancellation does, which is neither.  `sent` (history) is what was really
sent.  All prompts of a run have one size; stages may follow each other in any
order that the state machine allows.

### SqlGate, MongoGate, QueryResults

A query as the checks look at it, from the text of a model to the rows of a result.
`Generate` is extraction and containment check of the generator, `AskForTables` (or
`AskForCollections`) the model's own complaint, `Reselect` a new selection;
`RejectAtOnce` are the checks before the validating model, `Ask` its answer with every
combination of fields and what the validator settles them to, `WriteAgain` the retry;
`Police`, `Execute` and `Process` are policy, executor and results.  What `sqlglot`
makes of a text is given: whether it parses, its kind, the tables it names, the names
it defines.  Of what changes something the policy refuses what holds one of eleven
kinds of expression (`write`, `with_write`, `command`) and lets pass what holds none of
them and a Select (`unlisted`: `SELECT ... INTO`, `COPY (SELECT ...) TO`, a `MERGE`
that only deletes).  So `ExecutedIsContained` says what is true of all that runs, and
`OnlyReads` what the policy's docstring says, which run `policy` refutes.  A MongoDB
pipeline is a sequence of operators with the collections they read; a collection may be
read that has the name of a selected one, or what follows its first dot (`GoesBy`,
`generators/mongo.py:133`).  In both models a quoted `"false"` counts as true until the
result is made of it, and so rejects for no error.  Functions that a query calls, the
lenient mode, `validate_sql_schema_references` (called by tests only) and the
conversion of values are left out.

### Stream

`task` is the run (`Begin`, `Resume`, `Raise`, `Cancelled`), `generator` the response
(`Iterate`, `Get`, `Send`, `Close`), `queue` what is between them, `Leave` the client.  A
task is seen only while it waits for a model, so a step runs from one await to the
next.  `received`, `emitted` are history.  A generator that was never iterated has
entered no `try`: a client that leaves that early cancels nothing (`Close`).

## 4. Runs and what they show

| Run | Instance | Shows |
|---|---|---|
| `pipeline` | 2 retries of each kind, 2 reruns | the safety of a session and its end, and that it implements `QueryService` |
| `kv_cache` | 3 databases, 2 slots, 2 requests, no warm-up tasks | lock, slot contents, slot maps and LRU under eviction |
| `kv_ends` | 1 pinned database, 2 requests, shared server | each request ends |
| `kv_eviction` | 2 databases, 2 requests, 1 slot | finding (section 7) |
| `repositories` | one of: 2 requests of 2 processes for 1 run, or of 1 process for 3 runs, 2 files kept; 2 readers, 1 writer here and 1 elsewhere, 4 states of the file | history and artifacts of a file agree, one process retains what it should; no read is stale |
| `ingestion` | 2 requests, forced or not, overlapping or not; 2 batches, 2 attempts, 2 versions; a listing | a skipped ingestion is complete and a listing survives, but for forced and overlapping runs; ingestions end |
| `ingestion_stages` | one of: extraction, changes, reduction, description | the computations of an ingestion |
| `query_stages` | one of: scope, repair, spelling, counts | the computations around a query |
| `query_gates` | one of: PostgreSQL, MongoDB | what runs is contained and approved, what is sound runs, results are whole |
| `policy` | the same | finding (section 7) |
| `connections` | 2 requests at once over 3 strings, or one at a time over 7, two of which do not parse and one of which names no port; failing writes and unlinks, restarts | entries, answers, files and artifacts fit |
| `stream` | up to 5 stages | what a client sees, and that it learns the outcome |

Some runs join what a question needs on its own.  In `IngestionStages`, `QueryStages`
and `QueryGates` a variable (`part`, `engine`) says which component a behaviour is
about; the others stay at a fixed state, and each starts from whatever it may be given
in general, so the union is as strong as separate runs. `MCRepositories` keeps a
behaviour to `RunStore` or `FileCache`, and of the former to one of two sets of
requests (`Within`), according to whether they have one `process`, and `MCConnections`
does by a `scope`: the product of both would be too large, or a property is promised to
one of them only. `OneThreadKeeps` is of this kind: one thread, whose writes of the
connections' file neither fail nor are broken off; otherwise the file may lag behind
(section 7).

A component's named parts are joined into one property where they answer one
question (`ScopeIsSound`, `SqlGateIsSound` and so on, in the joining modules); the
type invariant of a module without a theorem about its types is one of the parts.
The type invariants of the other modules, and of `Pipeline` also
`SelectorRetryHasFeedback` and `NothingExecutedIsLost`, are proved for all constants
and no run repeats them.

Why the bounds are enough.

* `Pipeline`: two retries let each loop of the state machine be taken, taken again
  after the other, and run out; the second rerun starts from a file that a rerun
  wrote, and a third would find nothing new in it, since a rerun loads only what
  the file holds.  The context numbers selections and queries, so the number of
  retries and reruns also bounds the clock, and no other bound is needed.
* `KvCache`: one database more than slots makes evictions happen, and two requests
  contend for the lock, one holding it and one waiting.  In `kv_cache` no warm-up
  task is started, since the select route is not on the event loop, as in the code
  (`OnLoop`); `kv_ends` is on the loop, and has the task and two requests that await
  it or queue for the lock behind it.  `kv_cache` uses the
  symmetry of requests and of databases: it has no pinned or oversized one, and
  checks no liveness.
* `RunStore`: two requests overlap in every order, and what a third would load is
  what one of the two wrote; `MaxFiles` is below the number of files there can be.
* `FileCache`: four signatures let a file be rewritten by both writers within one
  read and again within the next.
* `Ingestion`: with two batches there is a batch after the first, and with two attempts
  one that is asked again; a second version makes the files of two runs
  distinguishable; a third request would only do again what the first did before.
* `ingestion_stages`: two tables with two keys suffice to mix keys up by name; find
  has a chain to compress with four tables; five tables of widths 0, 1, 2 and 5
  meet both bounds of a batch (3 tables, 4 columns) from either side.  `Metadata`
  changes start from a database without keys whose owner asks.
* `query_stages`: every graph of four tables has two components with a table left and
  paths longer than the levels; `Embedded` holds a table that the schema lacks and
  misses two that it has.  Questions have up to five atoms and up to two of three
  terms, one of which ends in a sign and leaves its placeholder next to a word.  Two
  runs of three calls each reach a validation from a rerun's feedback and go past it;
  the engine of the first may be fixed by symmetry.
* `query_gates`: queries of two references that are odd in at most one respect: two
  oddities are met by two checks, each of which refuses by itself.  Pipelines of
  three stages with a grouping lookup order the lookup, unwinding and projection in
  every way; all others have two.  One of two collections has the other's name after
  its dot.
* `Connections`: two threads race over three strings that parse and name the port,
  where the connections' file may fail to be written; one thread, whose writes of that
  file succeed, has in addition a string without a port, of a database that another
  string names with it, two replica sets, which do not parse, and an unsupported
  engine.  Both have a built-in database, and one whose string comes in a second form
  with another password.  Unlinks fail in both, and restarts come anywhere, for one
  thread but within a write.  One database is ingested in each.

Safety that is proved for every value of the constants (section 6) does not depend on
these numbers.  Every property of a passing run is refuted by a mutant of the code,
listed in `PROJECT.json`; the mutants stand next to the definitions they change.
Several runs say `CHECK_DEADLOCK FALSE`, because what they model ends: a session
without reruns left, a store whose clock is used up, a computation that is done.

## 5. Fairness

`Pipeline` assumes weak fairness of each run's own progress: the event loop runs
a coroutine that can go on, and each stage's call is answered or raises.  The
latter is an assumption about models and databases: the HTTP clients have no timeout
unless one is configured.  Nothing obliges a client to rerun, or a file to expire.
`KvCache` assumes the same of each process, and that the server runs the
background tasks of a response it has sent.  `Ingestion` assumes strong fairness of
each request: it may wait for the event loop behind others, which hands it out first
come first served.  `SpanningForest` is one thread and assumes that it goes on.
`Stream` assumes only what the event loop and the server do; that models answer is a
premise of `StayingIsAnswered` alone, and `LeavingStopsRun` holds without it.  No
assumption says *how* a call ends: fairness is on the disjunction of success and
failure, so a run may fail for ever.

## 6. What is proved

All theorems below are checked by TLAPS for every value of the constants that the
`ASSUME`s of the modules allow (retries, reruns and bounds are naturals; requests and
databases are disjoint; there is at least one slot; the runs of a process, and the
tables of a schema, are finitely many).  Where a property holds under a condition, the
condition is the theorem's hypothesis and named below.

`PipelineProofs`.  None of the safety properties is inductive: that the executed
query was checked depends on what the context holds in *every* earlier state, and
on what a run file that was loaded holds.  `IInv` adds, by state, what a run has in
hand (`Provenance`), what it has in hand when it ended (`Endings`), what the entry
stage of a rerun fixed (`Entry`), how many transitions led to a state in terms of
the retries used (`Counting`), and what feedback is about (`Feedback`), and joins
them with the coherence of the run file.  From these follow `ExecutedIsChecked`,
`SavedIsCoherent`, `FeedbackIsCurrent`, `RetryFeedbackIsInStep`,
`AttemptsAreGenerations`, `CapIsNeverHit`, `ExecutedIsNotLost` and the action property
`FrozenIsKept`.  The refinement, `PipelineImplementsService`: initial states map to
initial states, and under `IInv` each action maps to one of `QueryService`'s or to a
stutter (`StepRefines`).  `Stamps` says that nothing carries a number the clock has not
reached; so a generated query is one that was never approved.  *Counts of tokens*,
`ExactCounts`, about `TokenCounts` in `QueryStages`: `NoneTwice`, that what the stages
recorded and what still lies in the counters is at most what was sent, is a statement
about sums over all runs and counters, which a step changes in one place
(`SumChanges`); `OwnExact` and `AloneExact` say what a run's own counters hold, and that
nobody else is busy while a run is alone.

`KvCacheProofs`.  `Base` is the type invariant, what each process holds
(`Holdings`) and the lock (`OneHolder`): it is inductive, with one lemma for
each of `Allocate`, `Join` and `End`, which all actions are made of.
`MapsAgree` and `LeastRecentIsEvicted` assume that no database is pinned, and the
second that there are finitely many: an evicted database is followed, in `later`,
by the owner of each other slot and by its successor, which gives an injection
from the slots.  Both fail for pinned databases: two
databases may then share a slot.  `WarmedIsOwners` assumes a server of its own and
prompts that fit (`Kept`: what is about to be saved is the saver's own prefix, and
a slot that never had a second owner belongs to everyone who was given it).  On a
shared server it fails (another stage's prompt may come between the dummy question
and the save), and for a slot that changed its owner as `kv_eviction` shows; a database
whose prompt is too large sends it to the server without the lock, like another stage.

`RunStoreProofs`.  That a file's history explains its artifacts needs the same of
everything that may become a file: of temporary files and of the copies that
requests work on (`IInv`); and `Applies`, that a request has no feedback for stages
before the one it starts from, so that it does not touch what it need not explain.
`WindowShowsNewest` is the fact about windows it all rests on.  `SavedIsRetained`
carries the condition of the property, one process: by `Retaining` one request saves at
a time, the instant of its write names each file, and whatever a clean-up has listed
may go whenever it gets to it; that at least `MaxFiles` files were written after such a
file is counted through an injection from the files kept into those instants
(`ExcessMayGo`).  `FreshReads`, for `FileCache`: a read is fresh because a cached
signature is `CacheSound`.  A parse kept under the present signature is what the file
holds now, and one kept under an older signature is never hit again, as signatures
grow.  This also covers the slow reader that puts an old parse back after a writer
dropped it.

`IngestionProofs`.  `SkippedIsComplete` and `ListingIsSafe` have no assumption but those
on the constants.  `Progress` says, of the one request that is served alone, which files
are of its version by what is still to be written.  Where nothing is `disturbed`
(`Sound`), whoever is served is served alone; once embeddings load, everything is
complete and no run has anything left to write.  A run that began over complete files
keeps `Progress` too, although embeddings load all the while (`Whole`): when it gets
through, the files are sound again.  A listing that has passed the embeddings finds them
still loading (`Listed`), as nothing rewrites embeddings that load (`MarkLast`); so an
undisturbed one can load the rest.

`IngestionStagesProofs`.  *Descriptions*: `Filling` says which positions the closed
batches and the open one cover and that the open one keeps the bounds, `Describing`
that what was described lies in batches that were asked, `Counting` that the columns
counted are those of the open batch and that each closed batch could not take the next
table (`Greedy`).  *Extraction*: `Found` says what each of the three listings knows
about the database as it was and as it is; what the joins add or lose follows from the
keys they join (`PairsJoined`).  *Reduction*, `SoundReduction`: a forest given as parents
is described by a function `R` to the roots and one, `A`, to what may be met on the way
there (`Rooted`), which survive each assignment of a compression (`Compressed`) and each
union (`Attached`); `R` agrees with the closure over the chosen edges (`Agrees`), because
that closure is the least set that the edges do not leave (`Connected`); trees are
counted by their roots.  The walk keeps a `Line`: the tables met are in order, those
that wait span two levels of one tree, all neighbours of a visited table are met, and
no tree is met before an earlier one.

`ConnectionsProofs`.  `Keyed`: an entry stands under the identity of its own target, in
the registry, in every snapshot and in the file.  `EntriesAreDistinct` and
`AnswersReach` follow, since two strings that are spelled alike are read as the same
only if the driver opens the same, and a string of which more than the engine can be
read shares its identity with none that does not parse.  `FilesStaySound`: by
`Orderly`, where there are embeddings under a key that is not damaged, there is
everything, but under a deletion, which has removed the schema first and removes the
embeddings yet (`Midway`); a failing unlink or a server that dies within damages the
key, and so does an ingestion beside a deletion.  An ingestion mends the key with its
last file only where all are there (`NowWhole`).  None of the three has an assumption
about threads, strings or faults.  `SoleThreadSaves` and `SoleThreadKeepsEntries`
assume one thread whose writes succeed and are not broken off: the two halves of
`OneThreadKeeps` (`SavedIsOnDisk`, `OnlyDeletedGo`).  The run checks them of two
requests that take turns, the theorems of one that is served again and again.

`QueryGatesProofs`.  *Gates*: `SqlInv` and `MongoInv` say by stage that the query is
what the text of the model contains and that the generator's checks passed, which
answer the validation is made of (`Concluded`), and what a policy that let it pass has
seen; the properties follow by cases over the fields of an answer (`Opinions`).  That
what runs only reads is none of them: it is not true.  The count of documents along a
pipeline is a recursive function over its stages, of which `ReturnsFew` says that it
exists and what its last stage bounds.  *The scope of the selector*, `SoundScope` and
`RetriesWiden`: `Wave` says of one walk that its queue is in the order of the levels,
that these differ by one at most, and that all neighbours of a table that has left the
queue are met; when the queue is empty, levels are distances (`WaveEnds`).  `Walks`
says what the walks that are over have left in `level` and `reached_from`, `Offers`
what the attempts so far have offered: nothing but what is near to a candidate
(`Cover`), and all of that when nothing was cut.  A sorted or shortened list is known
by the positions it takes from another (`Takes`), and a sorting exists for any order on
a finite set (`SortedExists`).  The types need that a fallback begins with nothing
walked (`NothingWalked`): a walk kept from the attempt before would name seeds that are
none.
*Spelling*, `SoundSpelling`: positions in the text move with every replacement, so
`SpellingInv` speaks of stretches.  Between placeholders the text is the question,
shifted by some distance (`Stretches`), which is why the original of every correction
is something the user wrote.  Replacing from the last occurrence to the first leaves
the earlier ones where they were found (`Fitting`); this is where a replacement in the
other order, or a term that overlaps itself, would break the proof.  What a correction
or the longest term promises is in the output, or stands in the rest of the text as a
placeholder (`Visible`), which later terms cannot touch, as no letter folds to a
placeholder; words that are left alone are counted over output and rest together
(`ExemptCounted`).  No placeholder is left when all terms are `Closed`, as a
placeholder then never has a word or another one beside it (`Fenced`): a replacement
looks at the atoms next to what it replaces, and later ones change none of them into a
word.  So no token is made of both, which is the only way for one to get into the
result (`Unmixed`).
*The repair of a selection*, `SoundRepair`: `RepairInv` says that the groups are what
their members reach (`Groups`), and, before they are formed anew, that each of the old
ones lies in one of the new and two of them in the same (`Merging`), so that there are
fewer then (`Fewer`).  A repair is smallest although the search for a bridge only bars
the tables of its own two groups: the first selected table after the start of any path
ends a path that bridges two groups too, so a shortest bridge adds no more than any
other path (`NoCheaper`). When no path leads from a group to another, no walk through
the shown tables leaves the largest one either (`NothingJoins`): the first table of
another group on such a walk would end a path.

`StreamProofs`.  `EmittedInv`: what was put into the queue is one stage after the other
and nothing follows an outcome; `ReceivedInv`: what the client has is a beginning of it.
`CancelledIsSilent` is the safety part of `LeavingStopsRun`.

*Induction.*  No prover here can use the library's induction theorems, whose premise is
an operator.  Where a proof needs to go along the positions of a sequence, the steps
of a walk or the members of a finite set, the modules prove what they need from the
well-foundedness of the naturals (`LeastNumber`: a non-empty set of naturals has a least
member): `Induction` for sets of naturals, `Recursion` for functions defined by
recursion on them, `SumExists` for sums.

Only model-checked: the liveness properties `RunTerminates`, `RequestsEnd`,
`IngestionEnds`, `ReductionEnds`, `StayingIsAnswered` and `LeavingStopsRun` (liveness
under fairness is out of the prover's reach).

## 7. Findings

| Run | What the code does | What the text says |
|---|---|---|
| `kv_eviction` | `is_warmed` is true of a slot another database was saved into | "Check if the database's slot has been warmed in memory" (`koboldcpp_cache.py:151`) |
| `policy` | a statement that changes something, of a kind that the list of prohibited expressions leaves out and with a Select in it, is executed with autocommit (`pipeline/policy.py:63`) | "Validate that the query is strictly read-only and references valid schema." (`:31`) |

Seen while modelling, in instances that are not kept as runs of their own; the models
contain the behaviour, and the properties are worded so as not to claim otherwise:

* Pipeline: with the default of three retries four queries may be generated, one text
  says three attempts; a rerun from validation that falls through asks the generator
  again without the validator's feedback (`pipeline/fsm/transition.py:293`); a failed
  spelling check leaves no guardrail result, so that building the response raises
  (`pipeline/orchestrator.py:379`).
* KV cache: another stage's prompt can get between the dummy question and the save
  (`koboldcpp_cache.py:337`); an unpinned database may be given a pinned slot while
  another is free (`:129`); the select route's background task has no event loop and
  starts no warm-up (`api/rest/routes/schema.py:86`).
* Feedback: after two reruns the validator is told only the later feedback of a query
  (`pipeline/feedback.py:64`).
* Ingestion: a forced one that stops halfway leaves embeddings that vouch for
  half-rewritten files (`core/ingestion/pipeline.py:211`); while it rewrites the schema
  or the descriptions the whole listing may fail, although a comment says that one
  broken target cannot take it down (`:93-96`), as only the load of the embeddings is
  within the `try` and those of the others are not (`:105`, `:109`); queries keep the
  first schema they loaded (`schema_cache.py:23`), and so does the selector's prefix
  (`pipeline/selector.py:298`).
* Selection: a retry's better matches push out those of the attempt before, with their
  neighbourhoods, when both together exceed `top_k` (`strategies/bfs.py:121`), though
  the docstring promises a wider view (`:106-107`); `RetryWidens` is about retries
  below it; of groups that cannot be joined the largest is kept, which may drop the
  table selected first (`join_graph.py:387`).
* Connections: two threads may write their snapshots in the wrong order
  (`connection_repository.py:107`); after a write that failed the retry is answered
  "already saved" and nothing is written; a server that dies within a write lists
  nothing afterwards (`:85`); a deletion that overlaps an ingestion, breaks off, or
  cannot unlink one of the files, which is only logged
  (`api/rest/routes/connections.py:143`), leaves embeddings without the rest; two
  replica sets are taken for one database (`detector.py:189-193`), and one database
  with and without its default port for two (`:217`).
* Gates: the generator lets a table of another schema pass that has the name of a
  selected one (`generators/postgres.py:191`), and the policy does; for MongoDB it lets
  a collection pass that has the name after the dot of a selected one
  (`generators/mongo.py:133`); a semicolon in a
  quoted value cuts a query (`:66`); a quoted `"false"` rejects without an error type;
  a pipeline's own limit overrides that of the settings (`executor.py:117`); a
  rejection that lists no issue is turned into an acceptance (`validators/mongo.py:241`);
  a lookup within a lookup is not contained (`generators/mongo.py:142`).
* Extraction: a foreign key of two columns becomes four relationships
  (`metadata.py:96`); a role that does not own the tables sees no keys (`:95`); tables
  whose names differ in case only cannot be ingested (`data/models/schema.py:107`).
* Token counts: of two runs at one stage one is shown the other's tokens or none
  (`fsm/adapters.py:82`); a call that was cut off leaves its count behind
  (`validator.py:173`).
* Spelling: a term that starts or ends in a sign leaves its placeholder in the question
  when it stands next to a word; a term after a hyphen is spelled anew without a
  correction being reported; parts of hyphenated words are corrected one by one
  (`spelling.py:131`, `:147`, `:151`).
* Stream: a client that leaves before its response is iterated cancels nothing
  (`api/rest/routes/query.py:145`).

## 8. What is not modelled

Prompts, the grounding of names, the parsing of SQL, edit distances and cosine
similarity are computations on text and numbers; their outcomes are chosen freely or
given as relations.  The providers and the embedding client are one request each
without state of their own.  Sampling of MongoDB documents, the drivers, the command
line with its semantic retriever, argument parsing and settings, the JSON of the
repositories, the frontend, and the seed scripts are left out: they are input and
output, or declarations.  Health routes and the set-up of the application keep no
state.  `connect_selection` is modelled although nothing calls it, because its tests
state what it is for.
