----------------------------- MODULE RunStore -----------------------------
(***************************************************************************)
(* The run files (run_repository.py) and the feedback they carry from one  *)
(* rerun to the next (feedback.py, and the loading and saving ends of the  *)
(* orchestrator's rerun_pipeline).                                         *)
(*                                                                         *)
(* A request loads a run's file, works on that copy for minutes, and       *)
(* writes the whole of it back.  Requests of one process interleave only   *)
(* where they await, so a save and the clean-up after it are one piece for *)
(* their own process; two server processes over one directory interleave   *)
(* step by step.  What a run file holds is reduced to which feedback each  *)
(* of its parts was made under: of the feedback history the code only ever *)
(* reads the last entry of each stage.                                     *)
(***************************************************************************)
EXTENDS Naturals, FiniteSets, Sequences

CONSTANTS
  Request,      \* requests being served
  Process,      \* operating system processes over one runs directory
  Run,          \* run identifiers
  Temp,         \* names of temporary files
  Feedback,     \* texts of feedback
  NoFeedback,
  NoFile,
  MaxFiles,     \* files that a clean-up leaves
  MaxAge,       \* age beyond which it removes a file
  MaxClock      \* bound of the model: ticks of the clock

ASSUME FeedbackAssumption == NoFeedback \notin Feedback

ASSUME BoundAssumption ==
  MaxFiles \in Nat \ {0} /\ MaxAge \in Nat /\ MaxClock \in Nat

\* The name of a temporary file is that of its run and more.
ASSUME NameAssumption == Run \cap Temp = {}

Path == Run \cup Temp           \* glob("*.json") finds the temporary files too

VARIABLES
  process,      \* that serves each request, for as long as the model looks
  files,        \* the directory: what each path holds
  mtime,        \* when it was written
  clock,
  pc, run,      \* where a request is, and the run it is about
  snapshot,     \* the state it loaded
  start,        \* the stage it starts from
  applicable,   \* the feedback given for that stage and the later ones
  temp,         \* the temporary file it is writing
  doomed,       \* the files its clean-up has found and will remove
  savedAt,      \* history: when the file of a run was last written
  writes        \* history: the instants at which files were written

request == <<pc, run, snapshot, start, applicable, temp, doomed>>
history == <<savedAt, writes>>
vars == <<process, files, mtime, clock, request, history>>

-----------------------------------------------------------------------------
(* Feedback and guidance                                                   *)

Stage == {"table_selection", "query_generation", "validation"}

Earlier ==                      \* the order of valid_stages
  {<<"table_selection", "query_generation">>,
   <<"table_selection", "validation">>, <<"query_generation", "validation">>}

Given == Feedback \cup {NoFeedback}

\* What a stage's prompt shows: the last feedback before, and the current one.
Window(prior, current) ==
  LET before == IF prior = NoFeedback THEN <<>> ELSE <<prior>>
  IN IF current \in {NoFeedback, prior} THEN before ELSE Append(before, current)

Latest(items) == IF items = <<>> THEN NoFeedback ELSE items[Len(items)]

Items == {items \in Seq(Feedback) : Len(items) <= 2}

Shown(items) == {items[i] : i \in DOMAIN items}

\* The feedback of table selection and of query generation together: what
\* stage 2 is shown, and what stage 3 is told the query was made under.
Guidance == [table_selection : Items, query_generation : Items]

State ==
  [last      : [Stage -> Given],  \* feedback_history, its last entries
   selection : Items,             \* shown when selected_objects was chosen
   query     : Guidance,          \* shown when generated_query was written
   told      : Guidance]          \* shown when the query was last judged

BlankState ==
  [last |-> [s \in Stage |-> NoFeedback], selection |-> <<>>,
   query |-> [table_selection |-> <<>>, query_generation |-> <<>>],
   told |-> [table_selection |-> <<>>, query_generation |-> <<>>]]

\* build_cascading_guidance, for what q loaded and was given.
ItemsOf(q, s) == Window(snapshot[q].last[s], applicable[q][s])

GuidanceOf(q) == [table_selection |-> ItemsOf(q, "table_selection"),
                  query_generation |-> ItemsOf(q, "query_generation")]

\* A mutant: the history is read again from the file when it is saved.
LastMerged(q) ==
  LET before == IF files[run[q]] = NoFile THEN snapshot[q].last
                ELSE files[run[q]].last
  IN [s \in Stage |-> IF applicable[q][s] # NoFeedback THEN applicable[q][s]
                      ELSE before[s]]

LastOf(q) ==
  [s \in Stage |-> IF applicable[q][s] # NoFeedback THEN applicable[q][s]
                   ELSE snapshot[q].last[s]]

\* What q saves.  A rerun keeps the selection unless it starts there, and its
\* query if it starts at the validation and never goes back to generation.
Saved(q, kept) ==
  [last      |-> LastOf(q),
   selection |-> IF start[q] = "table_selection"
                 THEN ItemsOf(q, "table_selection") ELSE snapshot[q].selection,
   query     |-> IF kept THEN snapshot[q].query ELSE GuidanceOf(q),
   told      |-> GuidanceOf(q)]

-----------------------------------------------------------------------------
(* The requests                                                            *)

Saving == {"written", "listing", "unlinking"}

\* A save and its clean-up hold up the other requests of the same process.
Turn(q) == \A o \in Request \ {q} :
             process[o] = process[q] => pc[o] \notin Saving

Exists(p) == files[p] # NoFile

\* execute_pipeline: a new run, under an identifier nobody has used.
Ask(q, r) ==
  /\ pc[q] = "idle" /\ Turn(q)
  /\ ~Exists(r) /\ savedAt[r] = 0
  /\ \A o \in Request : pc[o] # "idle" => run[o] # r
  /\ pc' = [pc EXCEPT ![q] = "running"]
  /\ run' = [run EXCEPT ![q] = r]
  /\ snapshot' = [snapshot EXCEPT ![q] = BlankState]
  /\ start' = [start EXCEPT ![q] = "table_selection"]
  /\ applicable' = [applicable EXCEPT ![q] = [s \in Stage |-> NoFeedback]]
  /\ UNCHANGED <<files, mtime, clock, temp, doomed, history>>

\* rerun_pipeline, up to its first await.  Feedback for a stage before the
\* starting one is left out.
Rerun(q, r, s, given) ==
  /\ pc[q] = "idle" /\ Turn(q)
  /\ Exists(r)
  /\ \A t \in Stage : <<t, s>> \in Earlier => given[t] = NoFeedback
  /\ pc' = [pc EXCEPT ![q] = "running"]
  /\ run' = [run EXCEPT ![q] = r]
  /\ snapshot' = [snapshot EXCEPT ![q] = files[r]]
  /\ start' = [start EXCEPT ![q] = s]
  /\ applicable' = [applicable EXCEPT ![q] = given]
  /\ UNCHANGED <<files, mtime, clock, temp, doomed, history>>

\* The pipeline ends in a way that is not saved: rejected feedback, a failed
\* stage, a cancelled request.
EndUnsaved(q) ==
  /\ pc[q] = "running" /\ Turn(q)
  /\ pc' = [pc EXCEPT ![q] = "idle"]
  /\ UNCHANGED <<files, mtime, clock, run, snapshot, start, applicable, temp,
                 doomed, history>>

-----------------------------------------------------------------------------
(* save_run_state                                                          *)

\* The temporary file is written.  Two writes never share an instant.
WriteTemp(q, t, kept) ==
  /\ pc[q] = "running" /\ Turn(q)
  /\ ~Exists(t)
  /\ kept => start[q] = "validation"
  /\ clock < MaxClock
  /\ clock' = clock + 1
  /\ files' = [files EXCEPT ![t] = Saved(q, kept)]
  /\ mtime' = [mtime EXCEPT ![t] = clock']
  /\ writes' = writes \cup {clock'}
  /\ pc' = [pc EXCEPT ![q] = "written"]
  /\ temp' = [temp EXCEPT ![q] = t]
  /\ UNCHANGED <<run, snapshot, start, applicable, doomed, savedAt>>

\* The write fails halfway: the file stays, under its temporary name.
WriteFails(q, t) ==
  /\ pc[q] = "running" /\ Turn(q)
  /\ ~Exists(t)
  /\ clock < MaxClock
  /\ clock' = clock + 1
  /\ files' = [files EXCEPT ![t] = BlankState]
  /\ mtime' = [mtime EXCEPT ![t] = clock']
  /\ writes' = writes \cup {clock'}
  /\ pc' = [pc EXCEPT ![q] = "idle"]
  /\ UNCHANGED <<run, snapshot, start, applicable, temp, doomed, savedAt>>

\* os.replace keeps the time of the temporary file.
Replace(q) ==
  /\ pc[q] = "written" /\ Exists(temp[q])
  /\ files' = [files EXCEPT ![run[q]] = files[temp[q]], ![temp[q]] = NoFile]
  /\ mtime' = [mtime EXCEPT ![run[q]] = mtime[temp[q]]]
  /\ savedAt' = [savedAt EXCEPT ![run[q]] = mtime[temp[q]]]
  /\ pc' = [pc EXCEPT ![q] = "listing"]
  /\ UNCHANGED <<clock, run, snapshot, start, applicable, temp, doomed, writes>>

\* The replace fails: the temporary file is removed and nothing cleaned up.
ReplaceFails(q) ==
  /\ pc[q] = "written"
  /\ files' = [files EXCEPT ![temp[q]] = NoFile]
  /\ pc' = [pc EXCEPT ![q] = "idle"]
  /\ UNCHANGED <<mtime, clock, run, snapshot, start, applicable, temp, doomed,
                 history>>

-----------------------------------------------------------------------------
(* cleanup_old_runs                                                        *)

Expired == {p \in Path : Exists(p) /\ clock - mtime[p] > MaxAge}
Recent == {p \in Path : Exists(p)} \ Expired

\* A mutant: sorted the other way.
ExcessNewest ==
  {E \in SUBSET Recent :
     /\ Cardinality(Recent \ E) =
          IF Cardinality(Recent) > MaxFiles THEN MaxFiles ELSE Cardinality(Recent)
     /\ \A p \in E, k \in Recent \ E : mtime[p] >= mtime[k]}

\* The oldest files beyond MaxFiles, one set for each way to break ties.
Excess ==
  {E \in SUBSET Recent :
     /\ Cardinality(Recent \ E) =
          IF Cardinality(Recent) > MaxFiles THEN MaxFiles ELSE Cardinality(Recent)
     /\ \A p \in E, k \in Recent \ E : mtime[p] <= mtime[k]}

List(q) ==
  /\ pc[q] = "listing"
  /\ \E E \in Excess : doomed' = [doomed EXCEPT ![q] = Expired \cup E]
  /\ pc' = [pc EXCEPT ![q] = "unlinking"]
  /\ UNCHANGED <<files, mtime, clock, run, snapshot, start, applicable, temp,
                 history>>

Unlink(q, p) ==
  /\ pc[q] = "unlinking" /\ p \in doomed[q]
  /\ files' = [files EXCEPT ![p] = NoFile]
  /\ doomed' = [doomed EXCEPT ![q] = @ \ {p}]
  /\ UNCHANGED <<mtime, clock, pc, run, snapshot, start, applicable, temp,
                 history>>

Respond(q) ==
  /\ pc[q] = "unlinking" /\ doomed[q] = {}
  /\ pc' = [pc EXCEPT ![q] = "idle"]
  /\ UNCHANGED <<files, mtime, clock, run, snapshot, start, applicable, temp,
                 doomed, history>>

-----------------------------------------------------------------------------
(* A process dies with all its requests; the files stay as they are.       *)
Crash(o) ==
  /\ \E q \in Request : process[q] = o /\ pc[q] # "idle"
  /\ pc' = [q \in Request |-> IF process[q] = o THEN "idle" ELSE pc[q]]
  /\ UNCHANGED <<files, mtime, clock, run, snapshot, start, applicable, temp,
                 doomed, history>>

Pass ==
  /\ clock < MaxClock /\ clock' = clock + 1
  /\ UNCHANGED <<files, mtime, request, history>>

Init ==
  /\ process \in [Request -> Process]
  /\ files = [p \in Path |-> NoFile] /\ mtime = [p \in Path |-> 0]
  /\ clock = 0
  /\ pc = [q \in Request |-> "idle"] /\ run \in [Request -> Run]
  /\ snapshot = [q \in Request |-> BlankState]
  /\ start = [q \in Request |-> "table_selection"]
  /\ applicable = [q \in Request |-> [s \in Stage |-> NoFeedback]]
  /\ temp \in [Request -> Temp]
  /\ doomed = [q \in Request |-> {}]
  /\ savedAt = [r \in Run |-> 0] /\ writes = {}

Serve(q) ==
  \/ \E r \in Run : \/ Ask(q, r)
                    \/ \E s \in Stage, given \in [Stage -> Given] : Rerun(q, r, s, given)
  \/ EndUnsaved(q)
  \/ \E t \in Temp : \/ \E kept \in BOOLEAN : WriteTemp(q, t, kept)
                     \/ WriteFails(q, t)
  \/ Replace(q) \/ ReplaceFails(q) \/ List(q) \/ Respond(q)
  \/ \E p \in Path : Unlink(q, p)

Next ==
  /\ UNCHANGED process
  /\ (\E q \in Request : Serve(q)) \/ (\E o \in Process : Crash(o)) \/ Pass

Spec == Init /\ [][Next]_vars

-----------------------------------------------------------------------------
(* Properties                                                              *)

\* Types: a run's path and a request's snapshot hold whole states only.
TypeOK ==
  /\ process \in [Request -> Process]
  /\ files \in [Path -> State \cup {NoFile}] /\ mtime \in [Path -> Nat]
  /\ clock \in Nat
  /\ pc \in [Request -> {"idle", "running"} \cup Saving]
  /\ run \in [Request -> Run] /\ snapshot \in [Request -> State]
  /\ start \in [Request -> Stage]
  /\ applicable \in [Request -> [Stage -> Given]]
  /\ temp \in [Request -> Temp] /\ doomed \in [Request -> SUBSET Path]
  /\ savedAt \in [Run -> Nat] /\ writes \subseteq Nat

\* The history in a file accounts for the artifacts beside it: the newest
\* feedback each was made under is the last of its stage in the history.
Explained(state) ==
  /\ Latest(state.selection) = state.last["table_selection"]
  /\ Latest(state.query.table_selection) = state.last["table_selection"]
  /\ Latest(state.query.query_generation) = state.last["query_generation"]

\* Whatever reruns of one run overlap, each on its own copy, and wherever a
\* save is cut off, the history of a run's file accounts for its selection
\* and for its query (orchestrator.py:633-653).
HistoryExplainsArtifacts ==
  \A r \in Run : Exists(r) => Explained(files[r])

\* A run that was saved can be loaded until it is too old or MaxFiles files
\* have been written after it (cleanup_old_runs's docstring).
MayGo(r) ==
  \/ clock - savedAt[r] > MaxAge
  \/ Cardinality({w \in writes : w > savedAt[r]}) >= MaxFiles

\* So it is as long as one process uses the directory.
OneProcess == \A q, o \in Request : process[q] = process[o]
OneProcessRetains ==
  OneProcess => \A r \in Run : savedAt[r] # 0 /\ ~Exists(r) => MayGo(r)
=============================================================================
