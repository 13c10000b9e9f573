------------------------------ MODULE Pipeline ------------------------------
(***************************************************************************)
(* The natural-language-to-query pipeline: the finite state machine that   *)
(* drives one run (fsm/runner.py, fsm/transition.py, fsm/context.py), the  *)
(* orchestrator around it (execute_pipeline, rerun_pipeline) and the run   *)
(* file a later rerun starts from.  A behaviour is a SESSION: one fresh    *)
(* run of a question, then reruns of its saved run, one after the other.   *)
(*                                                                         *)
(* A stage's model or database call is atomic here: the event loop may     *)
(* interleave other requests inside it, but they share none of this state. *)
(* A selection and a query are known only by WHEN they were made: `clock`  *)
(* stamps each with a number never used before, so that two stamps are     *)
(* equal exactly when two fields hold the same selection or the same query.*)
(***************************************************************************)
EXTENDS Naturals

CONSTANTS
  MaxRetries,   \* settings.max_retries
  MaxReruns     \* bound: reruns in a session

ASSUME RetriesAssumption == MaxRetries \in Nat
ASSUME RerunsAssumption  == MaxReruns \in Nat

VARIABLES
  state,              \* runner's local: the current PipelineState
  transition_count,   \* runner's local
  context,            \* the PipelineContext of the run
  outcome,            \* what the caller of the run has got so far
  run_file,           \* the saved run state, as a rerun can load it
  reruns,             \* reruns started so far
  clock,              \* selections and queries made so far, in the session
  generated           \* queries the generator answered in this run (history)

vars == <<state, transition_count, context, outcome, run_file, reruns, clock,
          generated>>

-----------------------------------------------------------------------------
(* States, verdicts and errors                                             *)

Stage == {"spelling_check", "question_guardrail", "feedback_guardrail",
          "table_selection", "query_generation", "query_validation",
          "policy_check", "query_execution"}

\* A mutant: the error state is forgotten among the terminal ones.
TerminalSuccessOnly == {"terminal_success"}

Terminal == {"terminal_success", "terminal_error"}

PipelineState == Stage \cup Terminal

EntryStage == {"fresh", "table_selection", "query_generation", "validation"}

None == 0    \* the stamp of a field that is None or an empty list

\* The message of a stage that raised: its error text names the stage.
FailedError == [s \in Stage |->
  CASE s = "spelling_check"     -> "spelling_failed"
    [] s = "question_guardrail" -> "guardrail_failed"
    [] s = "feedback_guardrail" -> "feedback_check_failed"
    [] s = "table_selection"    -> "selection_failed"
    [] s = "query_generation"   -> "generation_failed"
    [] s = "query_validation"   -> "validation_failed"
    [] s = "policy_check"       -> "policy_failed"
    [] s = "query_execution"    -> "execution_failed"]

Error == {"none", "rejected", "feedback_rejected", "nothing_selected",
          "missing_info_frozen", "missing_info_exhausted", "unsafe",
          "validation_exhausted", "policy_rejected", "cap_exceeded",
          "spelling_failed", "guardrail_failed", "feedback_check_failed",
          "selection_failed", "generation_failed", "validation_failed",
          "policy_failed", "execution_failed"}

Query   == [id : Nat, schema : Nat]        \* schema: what it was generated from
NoQuery == [id |-> None, schema |-> None]

Validation   == [query : Nat, verdict : {"none", "valid", "unsafe", "invalid"}]
NoValidation == [query |-> None, verdict |-> "none"]

Policy   == [query : Nat, schema : Nat, allowed : BOOLEAN]
NoPolicy == [query |-> None, schema |-> None, allowed |-> FALSE]

Context ==
  [entry_stage : EntryStage, stage_1_frozen : BOOLEAN,
   initial_val_checked : BOOLEAN, stage_3_fallthrough_allowed : BOOLEAN,
   selector_retries : Nat, validation_retries : Nat, attempts : Nat,
   s1_system_retry : {"none", "nothing_selected", "missing_info"},
   s2_system_retry : Nat,              \* the query its feedback is about
   guardrail_result : {"none", "reject", "basic", "read_query"},
   selected_objects : Nat, relevant_schema : Nat, generated_query : Query,
   validation_result : Validation, policy_result : Policy,
   execution_result : Nat,             \* the query whose rows it holds
   error : Error]

RunFile ==
  [saved : BOOLEAN, selected_objects : Nat, selection_retries : Nat,
   relevant_schema : Nat, generated_query : Query, validation : Validation,
   policy : Policy]

NoRunFile ==
  [saved |-> FALSE, selected_objects |-> None, selection_retries |-> 0,
   relevant_schema |-> None, generated_query |-> NoQuery,
   validation |-> NoValidation, policy |-> NoPolicy]

\* The context execute_pipeline builds for a new question.
FreshContext ==
  [entry_stage |-> "fresh", stage_1_frozen |-> FALSE,
   initial_val_checked |-> FALSE, stage_3_fallthrough_allowed |-> FALSE,
   selector_retries |-> 0, validation_retries |-> 0, attempts |-> 1,
   s1_system_retry |-> "none", s2_system_retry |-> None,
   guardrail_result |-> "none", selected_objects |-> None,
   relevant_schema |-> None, generated_query |-> NoQuery,
   validation_result |-> NoValidation, policy_result |-> NoPolicy,
   execution_result |-> None, error |-> "none"]

Init ==
  /\ state = "spelling_check"
  /\ transition_count = 0
  /\ context = FreshContext
  /\ outcome = "running"
  /\ run_file = NoRunFile
  /\ reruns = 0
  /\ clock = 0
  /\ generated = 0

-----------------------------------------------------------------------------
(* One turn of the runner's loop                                           *)

\* A mutant: no headroom for the selector's retries.
CapWithoutSelector == 2 * MaxRetries + 6
Cap == 5 * MaxRetries + 8     \* calculate_transition_cap

In(s) == state = s /\ outcome = "running"

\* The end of a turn: the transition's updates are applied, the state moves
\* on, and the cap is enforced even over a terminal next state.
Advance(next, ctx) ==
  /\ transition_count' = transition_count + 1
  /\ IF transition_count + 1 > Cap
     THEN /\ state' = "terminal_error"
          /\ context' = [ctx EXCEPT !.error = "cap_exceeded"]
     ELSE /\ state' = next
          /\ context' = ctx
  /\ UNCHANGED <<outcome, run_file, reruns>>

Turn(next, ctx) == Advance(next, ctx) /\ UNCHANGED <<clock, generated>>

Halt(err) == Turn("terminal_error", [context EXCEPT !.error = err])

\* A stage raised: its adapter turned the exception into a Failed event.  No
\* artifact is recorded, so those of earlier turns stay in the context.
StageFailed(s) == In(s) /\ Halt(FailedError[s])

SpellingCompleted ==
  /\ In("spelling_check")
  /\ Turn("question_guardrail", context)

GuardrailReject ==
  /\ In("question_guardrail")
  /\ Turn("terminal_error", [context EXCEPT !.guardrail_result = "reject",
                                            !.error = "rejected"])

GuardrailBasic ==
  /\ In("question_guardrail")
  /\ Turn("terminal_success", [context EXCEPT !.guardrail_result = "basic"])

GuardrailRead ==
  /\ In("question_guardrail")
  /\ Turn("table_selection", [context EXCEPT !.guardrail_result = "read_query"])

FeedbackRejected ==
  /\ In("feedback_guardrail")
  /\ Halt("feedback_rejected")

FeedbackAccepted ==
  /\ In("feedback_guardrail")
  /\ Turn(CASE context.entry_stage = "query_generation" -> "query_generation"
            [] context.entry_stage = "validation" -> "query_validation"
            [] OTHER -> "table_selection",
          context)

-----------------------------------------------------------------------------
(* Stage 1: table selection                                                *)

\* A mutant: the schema handed to Stage 2 is packaged once, not per selection.
TablesSelectedSchemaOnce ==
  /\ In("table_selection")
  /\ clock' = clock + 1
  /\ Advance("query_generation",
       [context EXCEPT !.selected_objects = clock + 1,
                       !.relevant_schema = IF @ = None THEN clock + 1 ELSE @,
                       !.s1_system_retry = "none"])
  /\ UNCHANGED generated

TablesSelected ==
  /\ In("table_selection")
  /\ clock' = clock + 1
  /\ Advance("query_generation",
       [context EXCEPT !.selected_objects = clock + 1,
                       !.relevant_schema = clock + 1,
                       !.s1_system_retry = "none"])
  /\ UNCHANGED generated

\* An empty answer is recorded as such, but relevant_schema is only replaced
\* by a non-empty one: until the next answer it describes an older selection.
EmptySelection == [context EXCEPT !.selected_objects = None]

SelectorFailed ==       \* the selector reports its own exception as an answer
  /\ In("table_selection")
  /\ Turn("terminal_error", [EmptySelection EXCEPT !.error = "selection_failed"])

SelectionExhausted ==
  /\ In("table_selection")
  /\ context.selector_retries >= MaxRetries
  /\ Turn("terminal_error", [EmptySelection EXCEPT !.error = "nothing_selected"])

SelectionRetry ==
  /\ In("table_selection")
  /\ context.selector_retries < MaxRetries
  /\ Turn("table_selection",
          [EmptySelection EXCEPT !.selector_retries = @ + 1,
                                 !.s1_system_retry = "nothing_selected"])

-----------------------------------------------------------------------------
(* Stage 2: query generation                                               *)

\* A mutant: attempts counts the retries, not the queries.
QueryGeneratedOffByOne ==
  /\ In("query_generation")
  /\ clock' = clock + 1
  /\ generated' = generated + 1
  /\ Advance("query_validation",
       [context EXCEPT !.generated_query = [id     |-> clock + 1,
                                            schema |-> context.relevant_schema],
                       !.attempts = context.validation_retries])

QueryGenerated ==
  /\ In("query_generation")
  /\ clock' = clock + 1
  /\ generated' = generated + 1
  /\ Advance("query_validation",
       [context EXCEPT !.generated_query = [id     |-> clock + 1,
                                            schema |-> context.relevant_schema],
                       !.attempts = context.validation_retries + 1])

MissingInfoFrozen ==
  /\ In("query_generation")
  /\ context.stage_1_frozen
  /\ Halt("missing_info_frozen")

MissingInfoExhausted ==
  /\ In("query_generation")
  /\ ~context.stage_1_frozen
  /\ context.selector_retries >= MaxRetries
  /\ Halt("missing_info_exhausted")

\* A mutant: a rerun's frozen selection may be backtracked over.
MissingInfoBacktrackFrozen ==
  /\ In("query_generation")
  /\ context.selector_retries < MaxRetries
  /\ Turn("table_selection",
          [context EXCEPT !.selector_retries = @ + 1,
                          !.s1_system_retry = "missing_info"])

MissingInfoBacktrack ==
  /\ In("query_generation")
  /\ ~context.stage_1_frozen
  /\ context.selector_retries < MaxRetries
  /\ Turn("table_selection",
          [context EXCEPT !.selector_retries = @ + 1,
                          !.s1_system_retry = "missing_info"])

-----------------------------------------------------------------------------
(* Stage 3: query validation                                               *)

Judged(verdict) ==
  [context EXCEPT !.validation_result =
     [query |-> context.generated_query.id, verdict |-> verdict]]

\* The first verdict on a query a rerun loaded does not count as a retry.
Fallthrough ==
  \/ context.stage_3_fallthrough_allowed
  \/ context.entry_stage = "validation" /\ ~context.initial_val_checked

ValidationValid ==
  /\ In("query_validation")
  /\ Turn("policy_check",
          [Judged("valid") EXCEPT !.s2_system_retry = None,
                                  !.stage_3_fallthrough_allowed = FALSE])

ValidationUnsafe ==
  /\ In("query_validation")
  /\ Turn("terminal_error", [Judged("unsafe") EXCEPT !.error = "unsafe"])

ValidationFallthrough ==
  /\ In("query_validation")
  /\ Fallthrough
  /\ Turn("query_generation",
          [Judged("invalid") EXCEPT !.stage_3_fallthrough_allowed = FALSE,
                                    !.initial_val_checked = TRUE,
                                    !.validation_retries = 0,
                                    !.attempts = 1])

ValidationExhausted ==
  /\ In("query_validation")
  /\ ~Fallthrough
  /\ context.validation_retries >= MaxRetries
  /\ Turn("terminal_error",
          [Judged("invalid") EXCEPT !.error = "validation_exhausted"])

\* A mutant: the first retry's feedback is kept for the later ones.
ValidationRetryOldFeedback ==
  /\ In("query_validation")
  /\ ~Fallthrough
  /\ context.validation_retries < MaxRetries
  /\ Turn("query_generation",
          [Judged("invalid") EXCEPT !.validation_retries = @ + 1,
             !.s2_system_retry = IF @ = None THEN context.generated_query.id
                                             ELSE @])

ValidationRetry ==
  /\ In("query_validation")
  /\ ~Fallthrough
  /\ context.validation_retries < MaxRetries
  /\ Turn("query_generation",
          [Judged("invalid") EXCEPT !.validation_retries = @ + 1,
             !.s2_system_retry = context.generated_query.id])

-----------------------------------------------------------------------------
(* Stages 4 and 5: the policy check and the execution                      *)

Ruled(allowed) ==
  [context EXCEPT !.policy_result =
     [query   |-> context.generated_query.id,
      schema  |-> context.relevant_schema,
      allowed |-> allowed]]

PolicyAllowed ==
  /\ In("policy_check")
  /\ Turn("query_execution", Ruled(TRUE))

\* A mutant: a query the policy rejected is executed nevertheless.
PolicyRejectedIgnored ==
  /\ In("policy_check")
  /\ Turn("query_execution", Ruled(FALSE))

PolicyRejected ==
  /\ In("policy_check")
  /\ Turn("terminal_error", [Ruled(FALSE) EXCEPT !.error = "policy_rejected"])

ExecutionCompleted ==
  /\ In("query_execution")
  /\ Turn("terminal_success",
          [context EXCEPT !.execution_result = context.generated_query.id])

-----------------------------------------------------------------------------
(* The orchestrator around a run                                           *)

\* Building the response needs a guardrail result; only a guardrail that
\* raised gets one made up.  A rerun whose feedback was rejected raises too.
Raises ==
  \/ context.error = "feedback_rejected"
  \/ context.guardrail_result = "none" /\ context.error # "guardrail_failed"

\* A mutant: any run that ended in an error can be rerun.
ShouldSaveAnyError ==
  \/ context.execution_result # None
  \/ context.error # "none"

\* _save_pipeline_run_file's condition; rerun_pipeline repeats it.
ShouldSave ==
  \/ context.execution_result # None
  \/ context.policy_result.query # None /\ ~context.policy_result.allowed
  \/ context.policy_result.allowed /\ context.error = "execution_failed"
  \/ context.error = "validation_exhausted"

SavedRun ==
  [saved             |-> TRUE,
   selected_objects  |-> context.selected_objects,
   selection_retries |-> context.selector_retries,
   relevant_schema   |-> context.relevant_schema,
   generated_query   |-> context.generated_query,
   validation        |-> context.validation_result,
   policy            |-> context.policy_result]

\* The run is over: the response is built, then the run file written.  A save
\* that fails is logged and forgotten.
Finish ==
  /\ outcome = "running"
  /\ state \in Terminal
  /\ outcome' = IF Raises THEN "raised" ELSE "answered"
  /\ \/ ~Raises /\ ShouldSave /\ run_file' = SavedRun
     \/ UNCHANGED run_file
  /\ UNCHANGED <<state, transition_count, context, reruns, clock, generated>>

\* Where a run waits for a model: a disconnected client's task can only be
\* cancelled there.  Spelling, policy, execution and saving never await.
Awaiting == {"question_guardrail", "feedback_guardrail", "table_selection",
             "query_generation", "query_validation"}

Cancelled ==
  /\ outcome = "running"
  /\ state \in Awaiting
  /\ outcome' = "cancelled"
  /\ UNCHANGED <<state, transition_count, context, run_file, reruns, clock,
                 generated>>

\* cleanup_old_runs, called for any run that is saved, removes an old file.
RunExpires ==
  /\ run_file.saved
  /\ run_file' = NoRunFile
  /\ UNCHANGED <<state, transition_count, context, outcome, reruns, clock,
                 generated>>

\* _rehydrate_rerun_context: what is upstream of the starting stage is loaded
\* and frozen, what is downstream is cleared.  A saved query parses again: it
\* is the JSON of one (generators/mongo.py:159).
Rehydrated(start) ==
  LET frozen == start # "table_selection"
      query  == IF start = "validation" THEN run_file.generated_query
                                        ELSE NoQuery
      entry  == IF start = "validation" /\ query.id = None
                THEN "query_generation" ELSE start
      schema == IF run_file.relevant_schema # None
                THEN run_file.relevant_schema ELSE run_file.selected_objects
  IN [FreshContext EXCEPT
        !.entry_stage      = entry,
        !.stage_1_frozen   = frozen,
        !.stage_3_fallthrough_allowed = (entry = "validation"),
        !.selector_retries = IF frozen THEN run_file.selection_retries ELSE 0,
        !.guardrail_result = "read_query",
        !.selected_objects = IF frozen THEN run_file.selected_objects ELSE None,
        !.relevant_schema  = IF frozen THEN schema ELSE None,
        !.generated_query  = query]

Rerun(start) ==
  /\ outcome # "running"
  /\ run_file.saved
  /\ reruns < MaxReruns
  /\ state' = "feedback_guardrail"
  /\ transition_count' = 0
  /\ context' = Rehydrated(start)
  /\ outcome' = "running"
  /\ reruns' = reruns + 1
  /\ generated' = 0
  /\ UNCHANGED <<run_file, clock>>

-----------------------------------------------------------------------------
GuardrailStep == SpellingCompleted \/ GuardrailReject \/ GuardrailBasic
  \/ GuardrailRead \/ FeedbackRejected \/ FeedbackAccepted

SelectionStep == TablesSelected \/ SelectorFailed \/ SelectionExhausted
  \/ SelectionRetry

GenerationStep == QueryGenerated \/ MissingInfoFrozen \/ MissingInfoExhausted
  \/ MissingInfoBacktrack

ValidationStep == ValidationValid \/ ValidationUnsafe \/ ValidationFallthrough
  \/ ValidationExhausted \/ ValidationRetry

ExecutionStep == PolicyAllowed \/ PolicyRejected \/ ExecutionCompleted

\* What the event loop does once a stage's call is answered or raises, which it
\* is assumed to: model_timeout_seconds may bound it and is unset by default
\* (config/config.py:254).
RunStep ==
  \/ GuardrailStep \/ SelectionStep \/ GenerationStep \/ ValidationStep
  \/ ExecutionStep
  \/ \E s \in Stage : StageFailed(s)
  \/ Finish

Next ==
  \/ RunStep
  \/ Cancelled
  \/ RunExpires
  \/ \E start \in EntryStage \ {"fresh"} : Rerun(start)

Spec == Init /\ [][Next]_vars /\ WF_vars(RunStep)

-----------------------------------------------------------------------------
(* Properties                                                              *)

\* Every variable keeps the type the code gives it.
TypeOK ==
  /\ state \in PipelineState
  /\ transition_count \in Nat
  /\ context \in Context
  /\ outcome \in {"running", "answered", "raised", "cancelled"}
  /\ run_file \in RunFile
  /\ reruns \in Nat
  /\ clock \in Nat
  /\ generated \in Nat

\* The safety cap of the runner's loop is only a safety net: the retry bounds
\* end every run, fresh or rerun, before calculate_transition_cap does.
CapNeverHit == context.error # "cap_exceeded"

\* Every row a caller gets comes from a query that this run validated, that the
\* policy allowed against the very schema it was generated from, and that schema
\* is the one packaged from the tables the response names.
ExecutedQueryIsChecked ==
  context.execution_result # None =>
    /\ context.generated_query.id = context.execution_result
    /\ context.validation_result =
         [query |-> context.execution_result, verdict |-> "valid"]
    /\ context.policy_result =
         [query   |-> context.execution_result,
          schema  |-> context.generated_query.schema,
          allowed |-> TRUE]
    /\ context.generated_query.schema = context.relevant_schema
    /\ context.relevant_schema = context.selected_objects

\* What a rerun loads belongs together, however many reruns wrote it: a
\* selection, the schema packaged from it, a query generated from that schema,
\* and a verdict and a ruling about that very query (no ruling if the verdict
\* was the last of too many bad ones).
SavedRunIsCoherent ==
  run_file.saved =>
    /\ run_file.selected_objects # None
    /\ run_file.relevant_schema = run_file.selected_objects
    /\ run_file.generated_query.id # None
    /\ run_file.generated_query.schema = run_file.relevant_schema
    /\ run_file.validation.query = run_file.generated_query.id
    /\ \/ /\ run_file.validation.verdict = "invalid"
          /\ run_file.policy = NoPolicy
       \/ /\ run_file.validation.verdict = "valid"
          /\ run_file.policy.query = run_file.generated_query.id
          /\ run_file.policy.schema = run_file.generated_query.schema

\* When Stage 2 is asked again with validator feedback, the feedback is about
\* the last query generated and that query was judged invalid, even after a
\* detour through table selection.
FeedbackIsAboutLastRejectedQuery ==
  In("query_generation") /\ context.s2_system_retry # None =>
    /\ context.s2_system_retry = context.generated_query.id
    /\ context.validation_result =
         [query |-> context.generated_query.id, verdict |-> "invalid"]

\* Stage 1 sees retry feedback exactly on its retries: never on a first answer,
\* and never once a selection has been made.
SelectorRetryHasFeedback ==
  outcome = "running" =>
    CASE state = "table_selection" ->
           (context.s1_system_retry # "none") <=> (context.selector_retries > 0)
      [] state \in {"query_generation", "query_validation"} ->
           context.s1_system_retry = "none"
      [] OTHER -> TRUE

\* The attempts a response reports are the queries the generator answered in
\* that run, through every retry, backtrack and fall-through (at least one, for
\* the query a rerun loaded).
AttemptsCountGenerations ==
  context.attempts = IF generated = 0 THEN 1 ELSE generated

\* A rerun from query generation or validation works on the selection it
\* loaded: until it ends, neither the selection nor its schema is replaced.
FrozenSelectionKept ==
  [][context.stage_1_frozen /\ outcome = "running"
       => UNCHANGED <<context.selected_objects, context.relevant_schema>>]_vars

\* Once rows came back from the target database the caller gets them: a run
\* cannot be cancelled, and cannot fail to build its response, any more.
NothingExecutedIsLost ==
  outcome \in {"cancelled", "raised"} => context.execution_result = None

\* Every run ends, with an answer, an exception or a cancellation.
RunTerminates == (outcome = "running") ~> (outcome # "running")

\* The pipeline and its orchestrator implement the service: seen through these
\* five values, every step of any stage is a step of QueryService or invisible.
Service == INSTANCE QueryService WITH
  phase     <- outcome,
  candidate <- context.generated_query.id,
  approved  <- context.policy_result.allowed,
  executed  <- context.execution_result # None,
  stored    <- run_file.generated_query.id

\* A run, fresh or rerun, executes at most one query, one that it approved
\* itself, and only a run that answers writes the run file, with its own query.
ImplementsService == Service!Spec

=============================================================================
