-------------------------- MODULE PipelineProofs --------------------------
(***************************************************************************)
(* Proofs about Pipeline, and about the counts of tokens of QueryStages,   *)
(* which runs of the pipeline record when their stages end.                *)
(*                                                                         *)
(* Pipeline's safety properties hold for every max_retries and any number  *)
(* of reruns.  IInv below is inductive; its parts say, state by state, what *)
(* the context already holds and how many transitions led there.           *)
(*                                                                         *)
(* Whatever providers any number of runs share, what the counts of tokens  *)
(* promise holds.  Their totals are sums over finite sets, unfolded by     *)
(* induction; the invariant relates what a stage has sent to what it has   *)
(* recorded and what its counters still hold, for all runs together, for   *)
(* a run with providers of its own, and for a run that nothing overlaps.   *)
(***************************************************************************)
EXTENDS Pipeline, QueryStages, FiniteSetTheorems, WellFoundedInduction, TLAPS

-----------------------------------------------------------------------------
(* The inductive invariant                                                 *)

\* A part of the context that is ready, and belongs to what it was made from.
SelectionReady ==
  /\ context.selected_objects # None
  /\ context.relevant_schema = context.selected_objects

QueryReady ==
  /\ SelectionReady
  /\ context.generated_query.id # None
  /\ context.generated_query.schema = context.relevant_schema

JudgedAs(verdict) ==
  /\ QueryReady
  /\ context.validation_result =
       [query |-> context.generated_query.id, verdict |-> verdict]

RuledOn ==
  /\ JudgedAs("valid")
  /\ context.policy_result.query = context.generated_query.id
  /\ context.policy_result.schema = context.generated_query.schema

\* What a run has in hand in each state.
Provenance ==
  /\ state \in {"query_generation", "query_validation", "policy_check",
                "query_execution"} => SelectionReady
  /\ state \in {"query_validation", "policy_check", "query_execution"}
       => QueryReady
  /\ state \in {"policy_check", "query_execution"} => JudgedAs("valid")
  /\ state = "query_execution" => RuledOn /\ context.policy_result.allowed
  /\ state \in Stage \ {"query_execution"} => context.policy_result = NoPolicy
  /\ state \in Stage => context.error = "none" /\ context.execution_result = None
  /\ state \in Stage \ {"spelling_check", "question_guardrail"}
       => context.guardrail_result = "read_query"

\* What a run that is over has in hand, by the way it ended.
Endings ==
  /\ context.policy_result = NoPolicy \/ RuledOn
  /\ context.execution_result # None =>
       /\ RuledOn
       /\ context.policy_result.allowed
       /\ context.execution_result = context.generated_query.id
       /\ context.error = "none"
       /\ context.guardrail_result = "read_query"
  /\ context.error = "validation_exhausted" =>
       JudgedAs("invalid") /\ context.policy_result = NoPolicy
  /\ context.error # "cap_exceeded"
  /\ outcome = "cancelled" => state \in Awaiting
  /\ outcome = "raised" => state \in Terminal /\ context.execution_result = None

\* The entry stage fixes what is loaded and frozen, and the fall-through is
\* open only until the first verdict on a loaded query.
Entry ==
  /\ context.stage_1_frozen <=> context.entry_stage \in {"query_generation",
                                                          "validation"}
  /\ state \in {"spelling_check", "question_guardrail"}
       => context.entry_stage = "fresh"
  /\ state = "feedback_guardrail" =>
       /\ context.entry_stage # "fresh"
       /\ context.stage_1_frozen => SelectionReady
       /\ context.entry_stage = "validation" => QueryReady /\ Fallthrough
  /\ state = "table_selection" => ~context.stage_1_frozen
  /\ Fallthrough =>
       /\ context.entry_stage = "validation"
       /\ state \notin {"table_selection", "query_generation"}
       /\ generated = 0
       /\ context.validation_retries = 0
       /\ context.s2_system_retry = None

\* The budget of transitions: two more for each retry of either kind.
Work == 2 * (IF context.stage_1_frozen THEN 0 ELSE context.selector_retries)
          + 2 * context.validation_retries

Counting ==
  /\ context.selector_retries <= MaxRetries
  /\ context.validation_retries <= MaxRetries
  /\ state \in {"spelling_check", "feedback_guardrail"} => transition_count = 0
  /\ state = "question_guardrail" => transition_count <= 1
  /\ state = "table_selection" => transition_count <= 2 + Work
  /\ state = "query_generation" => transition_count <= 3 + Work
  /\ state = "query_validation" => transition_count <= 4 + Work
  /\ state = "query_validation" /\ Fallthrough => transition_count <= 1
  /\ state = "policy_check" => transition_count <= 5 + Work
  /\ state = "query_execution" => transition_count <= 6 + Work

\* Retry feedback and the counters go together.
Feedback ==
  /\ state \in {"table_selection", "query_generation"}
       /\ context.s2_system_retry # None
       => /\ context.s2_system_retry = context.generated_query.id
          /\ context.validation_result =
               [query |-> context.generated_query.id, verdict |-> "invalid"]
  /\ state \in {"spelling_check", "question_guardrail", "feedback_guardrail"} =>
       /\ context.s1_system_retry = "none"
       /\ context.s2_system_retry = None
       /\ ~context.stage_1_frozen => context.selector_retries = 0
       /\ context.validation_retries = 0
       /\ generated = 0
  /\ state = "table_selection" =>
       ((context.s1_system_retry # "none") <=> (context.selector_retries > 0))
  /\ state \in {"query_generation", "query_validation"}
       => context.s1_system_retry = "none"
  /\ state \in {"table_selection", "query_generation"}
       => generated = context.validation_retries
  /\ state = "query_validation" /\ ~Fallthrough
       => generated = context.validation_retries + 1

SavedRetries == run_file.selection_retries <= MaxRetries

IInv ==
  /\ TypeOK
  /\ Provenance
  /\ Endings
  /\ Entry
  /\ Counting
  /\ Feedback
  /\ AttemptsCountGenerations
  /\ SavedRunIsCoherent
  /\ SavedRetries

-----------------------------------------------------------------------------
(* A turn of the loop stays below the cap                                  *)

LEMMA BelowCap ==
  ASSUME IInv, state \in Stage
  PROVE  transition_count + 1 <= Cap
<1>1. /\ transition_count \in Nat
      /\ context.selector_retries \in Nat /\ context.validation_retries \in Nat
      /\ context.stage_1_frozen \in BOOLEAN
  BY DEF IInv, TypeOK, Context
<1>2. /\ context.selector_retries <= MaxRetries
      /\ context.validation_retries <= MaxRetries
  BY DEF IInv, Counting
<1>3. Work \in Nat /\ Work <= 4 * MaxRetries
  BY <1>1, <1>2, RetriesAssumption DEF Work
<1>4. transition_count <= 6 + Work
  BY <1>1, <1>3 DEF IInv, Counting, Stage
<1>5. QED
  BY <1>1, <1>3, <1>4, RetriesAssumption DEF Cap

LEMMA TurnOfTheLoop ==
  ASSUME IInv, NEW s \in Stage, In(s), NEW next, NEW ctx, Advance(next, ctx)
  PROVE  /\ state = s /\ state' = next /\ context' = ctx
         /\ outcome = "running" /\ outcome' = "running"
         /\ transition_count' = transition_count + 1
         /\ UNCHANGED <<run_file, reruns>>
<1>1. transition_count + 1 <= Cap
  BY BelowCap DEF In
<1>2. transition_count \in Nat /\ Cap \in Nat
  BY RetriesAssumption DEF IInv, TypeOK, Cap
<1>3. ~(transition_count + 1 > Cap)
  BY <1>1, <1>2
<1>4. QED
  BY <1>3 DEF In, Advance

USE DEF None

LEMMA InitInv == Init => IInv
BY RetriesAssumption
DEF Init, IInv, TypeOK, Provenance, Endings, Entry, Counting, Feedback,
    AttemptsCountGenerations, SavedRunIsCoherent, SavedRetries, FreshContext,
    NoRunFile, Context, RunFile, Query, NoQuery, Validation, NoValidation,
    Policy, NoPolicy, EntryStage, Error, PipelineState, Stage, Terminal,
    RuledOn, JudgedAs, QueryReady, SelectionReady, Fallthrough, Work

-----------------------------------------------------------------------------
(* Each action preserves the invariant                                     *)

LEMMA SpellingCompletedInv == IInv /\ SpellingCompleted => IInv'
<1> SUFFICES ASSUME IInv, SpellingCompleted PROVE IInv'
  OBVIOUS
<1>1. /\ state = "spelling_check" /\ state' = "question_guardrail"
      /\ context' = context
      /\ outcome = "running" /\ outcome' = "running"
      /\ transition_count' = transition_count + 1
      /\ UNCHANGED <<run_file, reruns, clock, generated>>
  BY TurnOfTheLoop DEF SpellingCompleted, Turn, In, Stage
<1>2. context \in Context /\ clock \in Nat /\ generated \in Nat
  BY DEF IInv, TypeOK
<1>3. context' \in Context
  BY <1>1, <1>2 DEF Context
<1>4. TypeOK'
  BY <1>1, <1>2, <1>3 DEF IInv, TypeOK, PipelineState, Stage, Terminal
<1>5. Provenance'
  BY <1>1, <1>2 DEF IInv, Context, Provenance, Endings, Entry, Stage, NoPolicy,
     RuledOn, JudgedAs, QueryReady, SelectionReady
<1>6. Endings'
  BY <1>1, <1>2 DEF IInv, Context, Provenance, Endings, Stage, NoPolicy,
     RuledOn, JudgedAs, QueryReady, SelectionReady
<1>7. Entry'
  BY <1>1, <1>2 DEF IInv, Context, Entry, Feedback, Fallthrough
<1>8. Counting'
  BY <1>1, <1>2, RetriesAssumption
  DEF IInv, TypeOK, Context, Entry, Counting, Feedback, Work, Fallthrough
<1>9. Feedback' /\ AttemptsCountGenerations'
  BY <1>1, <1>2 DEF IInv, Context, Entry, Feedback, AttemptsCountGenerations,
     Fallthrough
<1>10. (SavedRunIsCoherent /\ SavedRetries)'
  BY <1>1 DEF IInv, SavedRunIsCoherent, SavedRetries
<1>11. QED
  BY <1>4, <1>5, <1>6, <1>7, <1>8, <1>9, <1>10 DEF IInv

LEMMA GuardrailRejectInv == IInv /\ GuardrailReject => IInv'
<1> SUFFICES ASSUME IInv, GuardrailReject PROVE IInv'
  OBVIOUS
<1>1. /\ state = "question_guardrail" /\ state' = "terminal_error"
      /\ context' = [context EXCEPT !.guardrail_result = "reject",
                                    !.error = "rejected"]
      /\ outcome = "running" /\ outcome' = "running"
      /\ transition_count' = transition_count + 1
      /\ UNCHANGED <<run_file, reruns, clock, generated>>
  BY TurnOfTheLoop DEF GuardrailReject, Turn, In, Stage
<1>2. context \in Context /\ clock \in Nat /\ generated \in Nat
  BY DEF IInv, TypeOK
<1>3. context' \in Context
  <2>1. "rejected" \in Error
    BY <1>2 DEF Error
  <2>2. QED
    BY <1>1, <1>2, <2>1 DEF Context
<1>4. TypeOK'
  BY <1>1, <1>2, <1>3 DEF IInv, TypeOK, PipelineState, Stage, Terminal
<1>5. Provenance'
  BY <1>1, <1>2 DEF IInv, Context, Provenance, Endings, Entry, Stage, NoPolicy,
     RuledOn, JudgedAs, QueryReady, SelectionReady
<1>6. Endings'
  BY <1>1, <1>2 DEF IInv, Context, Provenance, Endings, Stage, NoPolicy,
     RuledOn, JudgedAs, QueryReady, SelectionReady
<1>7. Entry'
  BY <1>1, <1>2 DEF IInv, Context, Entry, Feedback, Fallthrough
<1>8. Counting'
  BY <1>1, <1>2, RetriesAssumption
  DEF IInv, TypeOK, Context, Entry, Counting, Feedback, Work, Fallthrough
<1>9. Feedback' /\ AttemptsCountGenerations'
  BY <1>1, <1>2 DEF IInv, Context, Entry, Feedback, AttemptsCountGenerations,
     Fallthrough
<1>10. (SavedRunIsCoherent /\ SavedRetries)'
  BY <1>1 DEF IInv, SavedRunIsCoherent, SavedRetries
<1>11. QED
  BY <1>4, <1>5, <1>6, <1>7, <1>8, <1>9, <1>10 DEF IInv

LEMMA GuardrailBasicInv == IInv /\ GuardrailBasic => IInv'
<1> SUFFICES ASSUME IInv, GuardrailBasic PROVE IInv'
  OBVIOUS
<1>1. /\ state = "question_guardrail" /\ state' = "terminal_success"
      /\ context' = [context EXCEPT !.guardrail_result = "basic"]
      /\ outcome = "running" /\ outcome' = "running"
      /\ transition_count' = transition_count + 1
      /\ UNCHANGED <<run_file, reruns, clock, generated>>
  BY TurnOfTheLoop DEF GuardrailBasic, Turn, In, Stage
<1>2. context \in Context /\ clock \in Nat /\ generated \in Nat
  BY DEF IInv, TypeOK
<1>3. context' \in Context
  BY <1>1, <1>2 DEF Context
<1>4. TypeOK'
  BY <1>1, <1>2, <1>3 DEF IInv, TypeOK, PipelineState, Stage, Terminal
<1>5. Provenance'
  BY <1>1, <1>2 DEF IInv, Context, Provenance, Endings, Entry, Stage, NoPolicy,
     RuledOn, JudgedAs, QueryReady, SelectionReady
<1>6. Endings'
  BY <1>1, <1>2 DEF IInv, Context, Provenance, Endings, Stage, NoPolicy,
     RuledOn, JudgedAs, QueryReady, SelectionReady
<1>7. Entry'
  BY <1>1, <1>2 DEF IInv, Context, Entry, Feedback, Fallthrough
<1>8. Counting'
  BY <1>1, <1>2, RetriesAssumption
  DEF IInv, TypeOK, Context, Entry, Counting, Feedback, Work, Fallthrough
<1>9. Feedback' /\ AttemptsCountGenerations'
  BY <1>1, <1>2 DEF IInv, Context, Entry, Feedback, AttemptsCountGenerations,
     Fallthrough
<1>10. (SavedRunIsCoherent /\ SavedRetries)'
  BY <1>1 DEF IInv, SavedRunIsCoherent, SavedRetries
<1>11. QED
  BY <1>4, <1>5, <1>6, <1>7, <1>8, <1>9, <1>10 DEF IInv

LEMMA GuardrailReadInv == IInv /\ GuardrailRead => IInv'
<1> SUFFICES ASSUME IInv, GuardrailRead PROVE IInv'
  OBVIOUS
<1>1. /\ state = "question_guardrail" /\ state' = "table_selection"
      /\ context' = [context EXCEPT !.guardrail_result = "read_query"]
      /\ outcome = "running" /\ outcome' = "running"
      /\ transition_count' = transition_count + 1
      /\ UNCHANGED <<run_file, reruns, clock, generated>>
  BY TurnOfTheLoop DEF GuardrailRead, Turn, In, Stage
<1>2. context \in Context /\ clock \in Nat /\ generated \in Nat
  BY DEF IInv, TypeOK
<1>3. context' \in Context
  BY <1>1, <1>2 DEF Context
<1>4. TypeOK'
  BY <1>1, <1>2, <1>3 DEF IInv, TypeOK, PipelineState, Stage, Terminal
<1>5. Provenance'
  BY <1>1, <1>2 DEF IInv, Context, Provenance, Endings, Entry, Stage, NoPolicy,
     RuledOn, JudgedAs, QueryReady, SelectionReady
<1>6. Endings'
  BY <1>1, <1>2 DEF IInv, Context, Provenance, Endings, Stage, NoPolicy,
     RuledOn, JudgedAs, QueryReady, SelectionReady
<1>7. Entry'
  BY <1>1, <1>2 DEF IInv, Context, Entry, Feedback, Fallthrough
<1>8. Counting'
  BY <1>1, <1>2, RetriesAssumption
  DEF IInv, TypeOK, Context, Entry, Counting, Feedback, Work, Fallthrough
<1>9. Feedback' /\ AttemptsCountGenerations'
  BY <1>1, <1>2 DEF IInv, Context, Entry, Feedback, AttemptsCountGenerations,
     Fallthrough
<1>10. (SavedRunIsCoherent /\ SavedRetries)'
  BY <1>1 DEF IInv, SavedRunIsCoherent, SavedRetries
<1>11. QED
  BY <1>4, <1>5, <1>6, <1>7, <1>8, <1>9, <1>10 DEF IInv

LEMMA FeedbackRejectedInv == IInv /\ FeedbackRejected => IInv'
<1> SUFFICES ASSUME IInv, FeedbackRejected PROVE IInv'
  OBVIOUS
<1>1. /\ state = "feedback_guardrail" /\ state' = "terminal_error"
      /\ context' = [context EXCEPT !.error = "feedback_rejected"]
      /\ outcome = "running" /\ outcome' = "running"
      /\ transition_count' = transition_count + 1
      /\ UNCHANGED <<run_file, reruns, clock, generated>>
  BY TurnOfTheLoop DEF FeedbackRejected, Halt, Turn, In, Stage
<1>2. context \in Context /\ clock \in Nat /\ generated \in Nat
  BY DEF IInv, TypeOK
<1>3. context' \in Context
  <2>1. "feedback_rejected" \in Error
    BY <1>2 DEF Error
  <2>2. QED
    BY <1>1, <1>2, <2>1 DEF Context
<1>4. TypeOK'
  BY <1>1, <1>2, <1>3 DEF IInv, TypeOK, PipelineState, Stage, Terminal
<1>5. Provenance'
  BY <1>1, <1>2 DEF IInv, Context, Provenance, Endings, Entry, Stage, NoPolicy,
     RuledOn, JudgedAs, QueryReady, SelectionReady
<1>6. Endings'
  BY <1>1, <1>2 DEF IInv, Context, Provenance, Endings, Stage, NoPolicy,
     RuledOn, JudgedAs, QueryReady, SelectionReady
<1>7. Entry'
  BY <1>1, <1>2 DEF IInv, Context, Entry, Feedback, Fallthrough
<1>8. Counting'
  BY <1>1, <1>2, RetriesAssumption
  DEF IInv, TypeOK, Context, Entry, Counting, Feedback, Work, Fallthrough
<1>9. Feedback' /\ AttemptsCountGenerations'
  BY <1>1, <1>2 DEF IInv, Context, Entry, Feedback, AttemptsCountGenerations,
     Fallthrough
<1>10. (SavedRunIsCoherent /\ SavedRetries)'
  BY <1>1 DEF IInv, SavedRunIsCoherent, SavedRetries
<1>11. QED
  BY <1>4, <1>5, <1>6, <1>7, <1>8, <1>9, <1>10 DEF IInv

LEMMA TablesSelectedInv == IInv /\ TablesSelected => IInv'
<1> SUFFICES ASSUME IInv, TablesSelected PROVE IInv'
  OBVIOUS
<1>1. /\ state = "table_selection" /\ state' = "query_generation"
      /\ context' = [context EXCEPT !.selected_objects = clock + 1,
                                    !.relevant_schema = clock + 1,
                                    !.s1_system_retry = "none"]
      /\ outcome = "running" /\ outcome' = "running"
      /\ transition_count' = transition_count + 1
      /\ clock' = clock + 1
      /\ UNCHANGED <<run_file, reruns, generated>>
  BY TurnOfTheLoop DEF TablesSelected, In, Stage
<1>2. context \in Context /\ clock \in Nat /\ generated \in Nat
  BY DEF IInv, TypeOK
<1>3. context' \in Context
  <2>1. clock + 1 \in Nat
    BY <1>2
  <2>2. QED
    BY <1>1, <1>2, <2>1 DEF Context
<1>4. TypeOK'
  BY <1>1, <1>2, <1>3 DEF IInv, TypeOK, PipelineState, Stage, Terminal
<1>5. Provenance'
  BY <1>1, <1>2 DEF IInv, Context, Provenance, Endings, Entry, Stage, NoPolicy,
     RuledOn, JudgedAs, QueryReady, SelectionReady
<1>6. Endings'
  BY <1>1, <1>2 DEF IInv, Context, Provenance, Endings, Stage, NoPolicy,
     RuledOn, JudgedAs, QueryReady, SelectionReady
<1>7. Entry'
  BY <1>1, <1>2 DEF IInv, Context, Entry, Feedback, Fallthrough
<1>8. Counting'
  BY <1>1, <1>2, RetriesAssumption
  DEF IInv, TypeOK, Context, Entry, Counting, Feedback, Work, Fallthrough
<1>9. Feedback' /\ AttemptsCountGenerations'
  BY <1>1, <1>2 DEF IInv, Context, Entry, Feedback, AttemptsCountGenerations,
     Fallthrough
<1>10. (SavedRunIsCoherent /\ SavedRetries)'
  BY <1>1 DEF IInv, SavedRunIsCoherent, SavedRetries
<1>11. QED
  BY <1>4, <1>5, <1>6, <1>7, <1>8, <1>9, <1>10 DEF IInv

LEMMA SelectorFailedInv == IInv /\ SelectorFailed => IInv'
<1> SUFFICES ASSUME IInv, SelectorFailed PROVE IInv'
  OBVIOUS
<1>1. /\ state = "table_selection" /\ state' = "terminal_error"
      /\ context' = [EmptySelection EXCEPT !.error = "selection_failed"]
      /\ outcome = "running" /\ outcome' = "running"
      /\ transition_count' = transition_count + 1
      /\ UNCHANGED <<run_file, reruns, clock, generated>>
  BY TurnOfTheLoop DEF SelectorFailed, Turn, In, Stage
<1>2. context \in Context /\ clock \in Nat /\ generated \in Nat
  BY DEF IInv, TypeOK
<1>3. context' \in Context
  <2>1. "selection_failed" \in Error
    BY <1>2 DEF Error
  <2>2. QED
    BY <1>1, <1>2, <2>1 DEF Context, EmptySelection
<1>4. TypeOK'
  BY <1>1, <1>2, <1>3 DEF IInv, TypeOK, PipelineState, Stage, Terminal
<1>5. Provenance'
  BY <1>1, <1>2 DEF IInv, Context, Provenance, Endings, Entry, Stage, NoPolicy,
     RuledOn, JudgedAs, QueryReady, SelectionReady, EmptySelection
<1>6. Endings'
  BY <1>1, <1>2 DEF IInv, Context, Provenance, Endings, Stage, NoPolicy,
     RuledOn, JudgedAs, QueryReady, SelectionReady, EmptySelection
<1>7. Entry'
  BY <1>1, <1>2 DEF IInv, Context, Entry, Feedback, Fallthrough, EmptySelection
<1>8. Counting'
  BY <1>1, <1>2, RetriesAssumption
  DEF IInv, TypeOK, Context, Entry, Counting, Feedback, Work, Fallthrough, EmptySelection
<1>9. Feedback' /\ AttemptsCountGenerations'
  BY <1>1, <1>2 DEF IInv, Context, Entry, Feedback, AttemptsCountGenerations,
     Fallthrough, EmptySelection
<1>10. (SavedRunIsCoherent /\ SavedRetries)'
  BY <1>1 DEF IInv, SavedRunIsCoherent, SavedRetries
<1>11. QED
  BY <1>4, <1>5, <1>6, <1>7, <1>8, <1>9, <1>10 DEF IInv

LEMMA SelectionExhaustedInv == IInv /\ SelectionExhausted => IInv'
<1> SUFFICES ASSUME IInv, SelectionExhausted PROVE IInv'
  OBVIOUS
<1>1. /\ state = "table_selection" /\ state' = "terminal_error"
      /\ context' = [EmptySelection EXCEPT !.error = "nothing_selected"]
      /\ outcome = "running" /\ outcome' = "running"
      /\ transition_count' = transition_count + 1
      /\ UNCHANGED <<run_file, reruns, clock, generated>>
  BY TurnOfTheLoop DEF SelectionExhausted, Turn, In, Stage
<1>2. context \in Context /\ clock \in Nat /\ generated \in Nat
  BY DEF IInv, TypeOK
<1>3. context' \in Context
  <2>1. "nothing_selected" \in Error
    BY <1>2 DEF Error
  <2>2. QED
    BY <1>1, <1>2, <2>1 DEF Context, EmptySelection
<1>4. TypeOK'
  BY <1>1, <1>2, <1>3 DEF IInv, TypeOK, PipelineState, Stage, Terminal
<1>5. Provenance'
  BY <1>1, <1>2 DEF IInv, Context, Provenance, Endings, Entry, Stage, NoPolicy,
     RuledOn, JudgedAs, QueryReady, SelectionReady, EmptySelection
<1>6. Endings'
  BY <1>1, <1>2 DEF IInv, Context, Provenance, Endings, Stage, NoPolicy,
     RuledOn, JudgedAs, QueryReady, SelectionReady, EmptySelection
<1>7. Entry'
  BY <1>1, <1>2 DEF IInv, Context, Entry, Feedback, Fallthrough, EmptySelection
<1>8. Counting'
  BY <1>1, <1>2, RetriesAssumption
  DEF IInv, TypeOK, Context, Entry, Counting, Feedback, Work, Fallthrough, EmptySelection
<1>9. Feedback' /\ AttemptsCountGenerations'
  BY <1>1, <1>2 DEF IInv, Context, Entry, Feedback, AttemptsCountGenerations,
     Fallthrough, EmptySelection
<1>10. (SavedRunIsCoherent /\ SavedRetries)'
  BY <1>1 DEF IInv, SavedRunIsCoherent, SavedRetries
<1>11. QED
  BY <1>4, <1>5, <1>6, <1>7, <1>8, <1>9, <1>10 DEF IInv

LEMMA SelectionRetryInv == IInv /\ SelectionRetry => IInv'
<1> SUFFICES ASSUME IInv, SelectionRetry PROVE IInv'
  OBVIOUS
<1>1. /\ state = "table_selection" /\ state' = "table_selection"
      /\ context' = [EmptySelection EXCEPT !.selector_retries = @ + 1,
                    !.s1_system_retry = "nothing_selected"]
      /\ outcome = "running" /\ outcome' = "running"
      /\ transition_count' = transition_count + 1
      /\ context.selector_retries < MaxRetries
      /\ UNCHANGED <<run_file, reruns, clock, generated>>
  BY TurnOfTheLoop DEF SelectionRetry, Turn, In, Stage
<1>2. context \in Context /\ clock \in Nat /\ generated \in Nat
  BY DEF IInv, TypeOK
<1>3. context' \in Context
  <2>1. context.selector_retries + 1 \in Nat
    BY <1>2 DEF Context
  <2>2. QED
    BY <1>1, <1>2, <2>1 DEF Context, EmptySelection
<1>4. TypeOK'
  BY <1>1, <1>2, <1>3 DEF IInv, TypeOK, PipelineState, Stage, Terminal
<1>5. Provenance'
  BY <1>1, <1>2 DEF IInv, Context, Provenance, Endings, Entry, Stage, NoPolicy,
     RuledOn, JudgedAs, QueryReady, SelectionReady, EmptySelection
<1>6. Endings'
  BY <1>1, <1>2 DEF IInv, Context, Provenance, Endings, Stage, NoPolicy,
     RuledOn, JudgedAs, QueryReady, SelectionReady, EmptySelection
<1>7. Entry'
  BY <1>1, <1>2 DEF IInv, Context, Entry, Feedback, Fallthrough, EmptySelection
<1>8. Counting'
  BY <1>1, <1>2, RetriesAssumption
  DEF IInv, TypeOK, Context, Entry, Counting, Feedback, Work, Fallthrough, EmptySelection
<1>9. Feedback' /\ AttemptsCountGenerations'
  BY <1>1, <1>2 DEF IInv, Context, Entry, Feedback, AttemptsCountGenerations,
     Fallthrough, EmptySelection
<1>10. (SavedRunIsCoherent /\ SavedRetries)'
  BY <1>1 DEF IInv, SavedRunIsCoherent, SavedRetries
<1>11. QED
  BY <1>4, <1>5, <1>6, <1>7, <1>8, <1>9, <1>10 DEF IInv

LEMMA QueryGeneratedInv == IInv /\ QueryGenerated => IInv'
<1> SUFFICES ASSUME IInv, QueryGenerated PROVE IInv'
  OBVIOUS
<1>1. /\ state = "query_generation" /\ state' = "query_validation"
      /\ context' = [context EXCEPT
           !.generated_query = [id |-> clock + 1,
                                schema |-> context.relevant_schema],
           !.attempts = context.validation_retries + 1]
      /\ outcome = "running" /\ outcome' = "running"
      /\ transition_count' = transition_count + 1
      /\ clock' = clock + 1
      /\ generated' = generated + 1
      /\ UNCHANGED <<run_file, reruns>>
  BY TurnOfTheLoop DEF QueryGenerated, In, Stage
<1>2. context \in Context /\ clock \in Nat /\ generated \in Nat
  BY DEF IInv, TypeOK
<1>3. context' \in Context
  <2>1. /\ [id |-> clock + 1, schema |-> context.relevant_schema] \in Query
        /\ context.validation_retries + 1 \in Nat
    BY <1>2 DEF Context, Query
  <2>2. QED
    BY <1>1, <1>2, <2>1 DEF Context
<1>4. TypeOK'
  BY <1>1, <1>2, <1>3 DEF IInv, TypeOK, PipelineState, Stage, Terminal
<1>5. Provenance'
  BY <1>1, <1>2 DEF IInv, Context, Provenance, Endings, Entry, Stage, NoPolicy,
     RuledOn, JudgedAs, QueryReady, SelectionReady
<1>6. Endings'
  BY <1>1, <1>2 DEF IInv, Context, Provenance, Endings, Stage, NoPolicy,
     RuledOn, JudgedAs, QueryReady, SelectionReady
<1>7. Entry'
  BY <1>1, <1>2 DEF IInv, Context, Entry, Feedback, Fallthrough
<1>8. Counting'
  BY <1>1, <1>2, RetriesAssumption
  DEF IInv, TypeOK, Context, Entry, Counting, Feedback, Work, Fallthrough
<1>9. Feedback' /\ AttemptsCountGenerations'
  BY <1>1, <1>2 DEF IInv, Context, Entry, Feedback, AttemptsCountGenerations,
     Fallthrough
<1>10. (SavedRunIsCoherent /\ SavedRetries)'
  BY <1>1 DEF IInv, SavedRunIsCoherent, SavedRetries
<1>11. QED
  BY <1>4, <1>5, <1>6, <1>7, <1>8, <1>9, <1>10 DEF IInv

LEMMA MissingInfoFrozenInv == IInv /\ MissingInfoFrozen => IInv'
<1> SUFFICES ASSUME IInv, MissingInfoFrozen PROVE IInv'
  OBVIOUS
<1>1. /\ state = "query_generation" /\ state' = "terminal_error"
      /\ context' = [context EXCEPT !.error = "missing_info_frozen"]
      /\ outcome = "running" /\ outcome' = "running"
      /\ transition_count' = transition_count + 1
      /\ UNCHANGED <<run_file, reruns, clock, generated>>
  BY TurnOfTheLoop DEF MissingInfoFrozen, Halt, Turn, In, Stage
<1>2. context \in Context /\ clock \in Nat /\ generated \in Nat
  BY DEF IInv, TypeOK
<1>3. context' \in Context
  <2>1. "missing_info_frozen" \in Error
    BY <1>2 DEF Error
  <2>2. QED
    BY <1>1, <1>2, <2>1 DEF Context
<1>4. TypeOK'
  BY <1>1, <1>2, <1>3 DEF IInv, TypeOK, PipelineState, Stage, Terminal
<1>5. Provenance'
  BY <1>1, <1>2 DEF IInv, Context, Provenance, Endings, Entry, Stage, NoPolicy,
     RuledOn, JudgedAs, QueryReady, SelectionReady
<1>6. Endings'
  BY <1>1, <1>2 DEF IInv, Context, Provenance, Endings, Stage, NoPolicy,
     RuledOn, JudgedAs, QueryReady, SelectionReady
<1>7. Entry'
  BY <1>1, <1>2 DEF IInv, Context, Entry, Feedback, Fallthrough
<1>8. Counting'
  BY <1>1, <1>2, RetriesAssumption
  DEF IInv, TypeOK, Context, Entry, Counting, Feedback, Work, Fallthrough
<1>9. Feedback' /\ AttemptsCountGenerations'
  BY <1>1, <1>2 DEF IInv, Context, Entry, Feedback, AttemptsCountGenerations,
     Fallthrough
<1>10. (SavedRunIsCoherent /\ SavedRetries)'
  BY <1>1 DEF IInv, SavedRunIsCoherent, SavedRetries
<1>11. QED
  BY <1>4, <1>5, <1>6, <1>7, <1>8, <1>9, <1>10 DEF IInv

LEMMA MissingInfoExhaustedInv == IInv /\ MissingInfoExhausted => IInv'
<1> SUFFICES ASSUME IInv, MissingInfoExhausted PROVE IInv'
  OBVIOUS
<1>1. /\ state = "query_generation" /\ state' = "terminal_error"
      /\ context' = [context EXCEPT !.error = "missing_info_exhausted"]
      /\ outcome = "running" /\ outcome' = "running"
      /\ transition_count' = transition_count + 1
      /\ UNCHANGED <<run_file, reruns, clock, generated>>
  BY TurnOfTheLoop DEF MissingInfoExhausted, Halt, Turn, In, Stage
<1>2. context \in Context /\ clock \in Nat /\ generated \in Nat
  BY DEF IInv, TypeOK
<1>3. context' \in Context
  <2>1. "missing_info_exhausted" \in Error
    BY <1>2 DEF Error
  <2>2. QED
    BY <1>1, <1>2, <2>1 DEF Context
<1>4. TypeOK'
  BY <1>1, <1>2, <1>3 DEF IInv, TypeOK, PipelineState, Stage, Terminal
<1>5. Provenance'
  BY <1>1, <1>2 DEF IInv, Context, Provenance, Endings, Entry, Stage, NoPolicy,
     RuledOn, JudgedAs, QueryReady, SelectionReady
<1>6. Endings'
  BY <1>1, <1>2 DEF IInv, Context, Provenance, Endings, Stage, NoPolicy,
     RuledOn, JudgedAs, QueryReady, SelectionReady
<1>7. Entry'
  BY <1>1, <1>2 DEF IInv, Context, Entry, Feedback, Fallthrough
<1>8. Counting'
  BY <1>1, <1>2, RetriesAssumption
  DEF IInv, TypeOK, Context, Entry, Counting, Feedback, Work, Fallthrough
<1>9. Feedback' /\ AttemptsCountGenerations'
  BY <1>1, <1>2 DEF IInv, Context, Entry, Feedback, AttemptsCountGenerations,
     Fallthrough
<1>10. (SavedRunIsCoherent /\ SavedRetries)'
  BY <1>1 DEF IInv, SavedRunIsCoherent, SavedRetries
<1>11. QED
  BY <1>4, <1>5, <1>6, <1>7, <1>8, <1>9, <1>10 DEF IInv

LEMMA MissingInfoBacktrackInv == IInv /\ MissingInfoBacktrack => IInv'
<1> SUFFICES ASSUME IInv, MissingInfoBacktrack PROVE IInv'
  OBVIOUS
<1>1. /\ state = "query_generation" /\ state' = "table_selection"
      /\ context' = [context EXCEPT !.selector_retries = @ + 1,
                                    !.s1_system_retry = "missing_info"]
      /\ outcome = "running" /\ outcome' = "running"
      /\ transition_count' = transition_count + 1
      /\ ~context.stage_1_frozen
      /\ context.selector_retries < MaxRetries
      /\ UNCHANGED <<run_file, reruns, clock, generated>>
  BY TurnOfTheLoop DEF MissingInfoBacktrack, Turn, In, Stage
<1>2. context \in Context /\ clock \in Nat /\ generated \in Nat
  BY DEF IInv, TypeOK
<1>3. context' \in Context
  <2>1. context.selector_retries + 1 \in Nat
    BY <1>2 DEF Context
  <2>2. QED
    BY <1>1, <1>2, <2>1 DEF Context
<1>4. TypeOK'
  BY <1>1, <1>2, <1>3 DEF IInv, TypeOK, PipelineState, Stage, Terminal
<1>5. Provenance'
  BY <1>1, <1>2 DEF IInv, Context, Provenance, Endings, Entry, Stage, NoPolicy,
     RuledOn, JudgedAs, QueryReady, SelectionReady
<1>6. Endings'
  BY <1>1, <1>2 DEF IInv, Context, Provenance, Endings, Stage, NoPolicy,
     RuledOn, JudgedAs, QueryReady, SelectionReady
<1>7. Entry'
  BY <1>1, <1>2 DEF IInv, Context, Entry, Feedback, Fallthrough
<1>8. Counting'
  BY <1>1, <1>2, RetriesAssumption
  DEF IInv, TypeOK, Context, Entry, Counting, Feedback, Work, Fallthrough
<1>9. Feedback' /\ AttemptsCountGenerations'
  BY <1>1, <1>2 DEF IInv, Context, Entry, Feedback, AttemptsCountGenerations,
     Fallthrough
<1>10. (SavedRunIsCoherent /\ SavedRetries)'
  BY <1>1 DEF IInv, SavedRunIsCoherent, SavedRetries
<1>11. QED
  BY <1>4, <1>5, <1>6, <1>7, <1>8, <1>9, <1>10 DEF IInv

LEMMA ValidationValidInv == IInv /\ ValidationValid => IInv'
<1> SUFFICES ASSUME IInv, ValidationValid PROVE IInv'
  OBVIOUS
<1>1. /\ state = "query_validation" /\ state' = "policy_check"
      /\ context' = [Judged("valid") EXCEPT
           !.s2_system_retry = 0, !.stage_3_fallthrough_allowed = FALSE]
      /\ outcome = "running" /\ outcome' = "running"
      /\ transition_count' = transition_count + 1
      /\ UNCHANGED <<run_file, reruns, clock, generated>>
  BY TurnOfTheLoop DEF ValidationValid, Turn, In, Stage
<1>2. context \in Context /\ clock \in Nat /\ generated \in Nat
  BY DEF IInv, TypeOK
<1>3. context' \in Context
  <2>1. [query |-> context.generated_query.id, verdict |-> "valid"] \in Validation
    BY <1>2 DEF Context, Query, Validation
  <2>2. QED
    BY <1>1, <1>2, <2>1 DEF Context, Judged
<1>4. TypeOK'
  BY <1>1, <1>2, <1>3 DEF IInv, TypeOK, PipelineState, Stage, Terminal
<1>5. Provenance'
  BY <1>1, <1>2 DEF IInv, Context, Provenance, Endings, Entry, Stage, NoPolicy,
     RuledOn, JudgedAs, QueryReady, SelectionReady, Judged
<1>6. Endings'
  BY <1>1, <1>2 DEF IInv, Context, Provenance, Endings, Stage, NoPolicy,
     RuledOn, JudgedAs, QueryReady, SelectionReady, Judged
<1>7. Entry'
  BY <1>1, <1>2 DEF IInv, Context, Entry, Feedback, Fallthrough, Judged
<1>8. Counting'
  BY <1>1, <1>2, RetriesAssumption
  DEF IInv, TypeOK, Context, Entry, Counting, Feedback, Work, Fallthrough, Judged
<1>9. Feedback' /\ AttemptsCountGenerations'
  BY <1>1, <1>2 DEF IInv, Context, Entry, Feedback, AttemptsCountGenerations,
     Fallthrough, Judged
<1>10. (SavedRunIsCoherent /\ SavedRetries)'
  BY <1>1 DEF IInv, SavedRunIsCoherent, SavedRetries
<1>11. QED
  BY <1>4, <1>5, <1>6, <1>7, <1>8, <1>9, <1>10 DEF IInv

LEMMA ValidationUnsafeInv == IInv /\ ValidationUnsafe => IInv'
<1> SUFFICES ASSUME IInv, ValidationUnsafe PROVE IInv'
  OBVIOUS
<1>1. /\ state = "query_validation" /\ state' = "terminal_error"
      /\ context' = [Judged("unsafe") EXCEPT !.error = "unsafe"]
      /\ outcome = "running" /\ outcome' = "running"
      /\ transition_count' = transition_count + 1
      /\ UNCHANGED <<run_file, reruns, clock, generated>>
  BY TurnOfTheLoop DEF ValidationUnsafe, Turn, In, Stage
<1>2. context \in Context /\ clock \in Nat /\ generated \in Nat
  BY DEF IInv, TypeOK
<1>3. context' \in Context
  <2>1. /\ [query |-> context.generated_query.id, verdict |-> "unsafe"] \in Validation
        /\ "unsafe" \in Error
    BY <1>2 DEF Context, Error, Query, Validation
  <2>2. QED
    BY <1>1, <1>2, <2>1 DEF Context, Judged
<1>4. TypeOK'
  BY <1>1, <1>2, <1>3 DEF IInv, TypeOK, PipelineState, Stage, Terminal
<1>5. Provenance'
  BY <1>1, <1>2 DEF IInv, Context, Provenance, Endings, Entry, Stage, NoPolicy,
     RuledOn, JudgedAs, QueryReady, SelectionReady, Judged
<1>6. Endings'
  BY <1>1, <1>2 DEF IInv, Context, Provenance, Endings, Stage, NoPolicy,
     RuledOn, JudgedAs, QueryReady, SelectionReady, Judged
<1>7. Entry'
  BY <1>1, <1>2 DEF IInv, Context, Entry, Feedback, Fallthrough, Judged
<1>8. Counting'
  BY <1>1, <1>2, RetriesAssumption
  DEF IInv, TypeOK, Context, Entry, Counting, Feedback, Work, Fallthrough, Judged
<1>9. Feedback' /\ AttemptsCountGenerations'
  BY <1>1, <1>2 DEF IInv, Context, Entry, Feedback, AttemptsCountGenerations,
     Fallthrough, Judged
<1>10. (SavedRunIsCoherent /\ SavedRetries)'
  BY <1>1 DEF IInv, SavedRunIsCoherent, SavedRetries
<1>11. QED
  BY <1>4, <1>5, <1>6, <1>7, <1>8, <1>9, <1>10 DEF IInv

LEMMA ValidationFallthroughInv == IInv /\ ValidationFallthrough => IInv'
<1> SUFFICES ASSUME IInv, ValidationFallthrough PROVE IInv'
  OBVIOUS
<1>1. /\ state = "query_validation" /\ state' = "query_generation"
      /\ context' = [Judged("invalid") EXCEPT
           !.stage_3_fallthrough_allowed = FALSE, !.initial_val_checked = TRUE,
           !.validation_retries = 0, !.attempts = 1]
      /\ outcome = "running" /\ outcome' = "running"
      /\ transition_count' = transition_count + 1
      /\ Fallthrough
      /\ UNCHANGED <<run_file, reruns, clock, generated>>
  BY TurnOfTheLoop DEF ValidationFallthrough, Turn, In, Stage
<1>2. context \in Context /\ clock \in Nat /\ generated \in Nat
  BY DEF IInv, TypeOK
<1>3. context' \in Context
  <2>1. [query |-> context.generated_query.id, verdict |-> "invalid"] \in Validation
    BY <1>2 DEF Context, Query, Validation
  <2>2. QED
    BY <1>1, <1>2, <2>1 DEF Context, Judged
<1>4. TypeOK'
  BY <1>1, <1>2, <1>3 DEF IInv, TypeOK, PipelineState, Stage, Terminal
<1>5. Provenance'
  BY <1>1, <1>2 DEF IInv, Context, Provenance, Endings, Entry, Stage, NoPolicy,
     RuledOn, JudgedAs, QueryReady, SelectionReady, Judged
<1>6. Endings'
  BY <1>1, <1>2 DEF IInv, Context, Provenance, Endings, Stage, NoPolicy,
     RuledOn, JudgedAs, QueryReady, SelectionReady, Judged
<1>7. Entry'
  BY <1>1, <1>2 DEF IInv, Context, Entry, Feedback, Fallthrough, Judged
<1>8. Counting'
  BY <1>1, <1>2, RetriesAssumption
  DEF IInv, TypeOK, Context, Entry, Counting, Feedback, Work, Fallthrough, Judged
<1>9. Feedback' /\ AttemptsCountGenerations'
  BY <1>1, <1>2 DEF IInv, Context, Entry, Feedback, AttemptsCountGenerations,
     Fallthrough, Judged
<1>10. (SavedRunIsCoherent /\ SavedRetries)'
  BY <1>1 DEF IInv, SavedRunIsCoherent, SavedRetries
<1>11. QED
  BY <1>4, <1>5, <1>6, <1>7, <1>8, <1>9, <1>10 DEF IInv

LEMMA ValidationExhaustedInv == IInv /\ ValidationExhausted => IInv'
<1> SUFFICES ASSUME IInv, ValidationExhausted PROVE IInv'
  OBVIOUS
<1>1. /\ state = "query_validation" /\ state' = "terminal_error"
      /\ context' = [Judged("invalid") EXCEPT !.error = "validation_exhausted"]
      /\ outcome = "running" /\ outcome' = "running"
      /\ transition_count' = transition_count + 1
      /\ ~Fallthrough
      /\ UNCHANGED <<run_file, reruns, clock, generated>>
  BY TurnOfTheLoop DEF ValidationExhausted, Turn, In, Stage
<1>2. context \in Context /\ clock \in Nat /\ generated \in Nat
  BY DEF IInv, TypeOK
<1>3. context' \in Context
  <2>1. /\ [query |-> context.generated_query.id, verdict |-> "invalid"] \in Validation
        /\ "validation_exhausted" \in Error
    BY <1>2 DEF Context, Error, Query, Validation
  <2>2. QED
    BY <1>1, <1>2, <2>1 DEF Context, Judged
<1>4. TypeOK'
  BY <1>1, <1>2, <1>3 DEF IInv, TypeOK, PipelineState, Stage, Terminal
<1>5. Provenance'
  BY <1>1, <1>2 DEF IInv, Context, Provenance, Endings, Entry, Stage, NoPolicy,
     RuledOn, JudgedAs, QueryReady, SelectionReady, Judged
<1>6. Endings'
  BY <1>1, <1>2 DEF IInv, Context, Provenance, Endings, Stage, NoPolicy,
     RuledOn, JudgedAs, QueryReady, SelectionReady, Judged
<1>7. Entry'
  BY <1>1, <1>2 DEF IInv, Context, Entry, Feedback, Fallthrough, Judged
<1>8. Counting'
  BY <1>1, <1>2, RetriesAssumption
  DEF IInv, TypeOK, Context, Entry, Counting, Feedback, Work, Fallthrough, Judged
<1>9. Feedback' /\ AttemptsCountGenerations'
  BY <1>1, <1>2 DEF IInv, Context, Entry, Feedback, AttemptsCountGenerations,
     Fallthrough, Judged
<1>10. (SavedRunIsCoherent /\ SavedRetries)'
  BY <1>1 DEF IInv, SavedRunIsCoherent, SavedRetries
<1>11. QED
  BY <1>4, <1>5, <1>6, <1>7, <1>8, <1>9, <1>10 DEF IInv

LEMMA ValidationRetryInv == IInv /\ ValidationRetry => IInv'
<1> SUFFICES ASSUME IInv, ValidationRetry PROVE IInv'
  OBVIOUS
<1>1. /\ state = "query_validation" /\ state' = "query_generation"
      /\ context' = [Judged("invalid") EXCEPT
           !.validation_retries = @ + 1,
           !.s2_system_retry = context.generated_query.id]
      /\ outcome = "running" /\ outcome' = "running"
      /\ transition_count' = transition_count + 1
      /\ ~Fallthrough
      /\ context.validation_retries < MaxRetries
      /\ UNCHANGED <<run_file, reruns, clock, generated>>
  BY TurnOfTheLoop DEF ValidationRetry, Turn, In, Stage
<1>2. context \in Context /\ clock \in Nat /\ generated \in Nat
  BY DEF IInv, TypeOK
<1>3. context' \in Context
  <2>1. /\ [query |-> context.generated_query.id, verdict |-> "invalid"] \in Validation
        /\ context.validation_retries + 1 \in Nat
        /\ context.generated_query.id \in Nat
    BY <1>2 DEF Context, Query, Validation
  <2>2. QED
    BY <1>1, <1>2, <2>1 DEF Context, Judged
<1>4. TypeOK'
  BY <1>1, <1>2, <1>3 DEF IInv, TypeOK, PipelineState, Stage, Terminal
<1>5. Provenance'
  BY <1>1, <1>2 DEF IInv, Context, Provenance, Endings, Entry, Stage, NoPolicy,
     RuledOn, JudgedAs, QueryReady, SelectionReady, Judged
<1>6. Endings'
  BY <1>1, <1>2 DEF IInv, Context, Provenance, Endings, Stage, NoPolicy,
     RuledOn, JudgedAs, QueryReady, SelectionReady, Judged
<1>7. Entry'
  BY <1>1, <1>2 DEF IInv, Context, Entry, Feedback, Fallthrough, Judged
<1>8. Counting'
  BY <1>1, <1>2, RetriesAssumption
  DEF IInv, TypeOK, Context, Entry, Counting, Feedback, Work, Fallthrough, Judged
<1>9. Feedback' /\ AttemptsCountGenerations'
  BY <1>1, <1>2 DEF IInv, Context, Entry, Feedback, AttemptsCountGenerations,
     Fallthrough, Judged
<1>10. (SavedRunIsCoherent /\ SavedRetries)'
  BY <1>1 DEF IInv, SavedRunIsCoherent, SavedRetries
<1>11. QED
  BY <1>4, <1>5, <1>6, <1>7, <1>8, <1>9, <1>10 DEF IInv

LEMMA PolicyAllowedInv == IInv /\ PolicyAllowed => IInv'
<1> SUFFICES ASSUME IInv, PolicyAllowed PROVE IInv'
  OBVIOUS
<1>1. /\ state = "policy_check" /\ state' = "query_execution"
      /\ context' = Ruled(TRUE)
      /\ outcome = "running" /\ outcome' = "running"
      /\ transition_count' = transition_count + 1
      /\ UNCHANGED <<run_file, reruns, clock, generated>>
  BY TurnOfTheLoop DEF PolicyAllowed, Turn, In, Stage
<1>2. context \in Context /\ clock \in Nat /\ generated \in Nat
  BY DEF IInv, TypeOK
<1>3. context' \in Context
  <2>1. [query |-> context.generated_query.id, schema |-> context.relevant_schema,
         allowed |-> TRUE] \in Policy
    BY <1>2 DEF Context, Policy, Query
  <2>2. QED
    BY <1>1, <1>2, <2>1 DEF Context, Ruled
<1>4. TypeOK'
  BY <1>1, <1>2, <1>3 DEF IInv, TypeOK, PipelineState, Stage, Terminal, Ruled
<1>5. Provenance'
  BY <1>1, <1>2 DEF IInv, Context, Provenance, Endings, Entry, Stage, NoPolicy,
     RuledOn, JudgedAs, QueryReady, SelectionReady, Ruled
<1>6. Endings'
  BY <1>1, <1>2 DEF IInv, Context, Provenance, Endings, Stage, NoPolicy,
     RuledOn, JudgedAs, QueryReady, SelectionReady, Ruled
<1>7. Entry'
  BY <1>1, <1>2 DEF IInv, Context, Entry, Feedback, Fallthrough, Ruled
<1>8. Counting'
  BY <1>1, <1>2, RetriesAssumption
  DEF IInv, TypeOK, Context, Entry, Counting, Feedback, Work, Fallthrough, Ruled
<1>9. Feedback' /\ AttemptsCountGenerations'
  BY <1>1, <1>2 DEF IInv, Context, Entry, Feedback, AttemptsCountGenerations,
     Fallthrough, Ruled
<1>10. (SavedRunIsCoherent /\ SavedRetries)'
  BY <1>1 DEF IInv, SavedRunIsCoherent, SavedRetries
<1>11. QED
  BY <1>4, <1>5, <1>6, <1>7, <1>8, <1>9, <1>10 DEF IInv

LEMMA PolicyRejectedInv == IInv /\ PolicyRejected => IInv'
<1> SUFFICES ASSUME IInv, PolicyRejected PROVE IInv'
  OBVIOUS
<1>1. /\ state = "policy_check" /\ state' = "terminal_error"
      /\ context' = [Ruled(FALSE) EXCEPT !.error = "policy_rejected"]
      /\ outcome = "running" /\ outcome' = "running"
      /\ transition_count' = transition_count + 1
      /\ UNCHANGED <<run_file, reruns, clock, generated>>
  BY TurnOfTheLoop DEF PolicyRejected, Turn, In, Stage
<1>2. context \in Context /\ clock \in Nat /\ generated \in Nat
  BY DEF IInv, TypeOK
<1>3. context' \in Context
  <2>1. /\ [query |-> context.generated_query.id, schema |-> context.relevant_schema,
         allowed |-> FALSE] \in Policy
        /\ "policy_rejected" \in Error
    BY <1>2 DEF Context, Error, Policy, Query
  <2>2. QED
    BY <1>1, <1>2, <2>1 DEF Context, Ruled
<1>4. TypeOK'
  BY <1>1, <1>2, <1>3 DEF IInv, TypeOK, PipelineState, Stage, Terminal
<1>5. Provenance'
  BY <1>1, <1>2 DEF IInv, Context, Provenance, Endings, Entry, Stage, NoPolicy,
     RuledOn, JudgedAs, QueryReady, SelectionReady, Ruled
<1>6. Endings'
  BY <1>1, <1>2 DEF IInv, Context, Provenance, Endings, Stage, NoPolicy,
     RuledOn, JudgedAs, QueryReady, SelectionReady, Ruled
<1>7. Entry'
  BY <1>1, <1>2 DEF IInv, Context, Entry, Feedback, Fallthrough, Ruled
<1>8. Counting'
  BY <1>1, <1>2, RetriesAssumption
  DEF IInv, TypeOK, Context, Entry, Counting, Feedback, Work, Fallthrough, Ruled
<1>9. Feedback' /\ AttemptsCountGenerations'
  BY <1>1, <1>2 DEF IInv, Context, Entry, Feedback, AttemptsCountGenerations,
     Fallthrough, Ruled
<1>10. (SavedRunIsCoherent /\ SavedRetries)'
  BY <1>1 DEF IInv, SavedRunIsCoherent, SavedRetries
<1>11. QED
  BY <1>4, <1>5, <1>6, <1>7, <1>8, <1>9, <1>10 DEF IInv

LEMMA ExecutionCompletedInv == IInv /\ ExecutionCompleted => IInv'
<1> SUFFICES ASSUME IInv, ExecutionCompleted PROVE IInv'
  OBVIOUS
<1>1. /\ state = "query_execution" /\ state' = "terminal_success"
      /\ context' = [context EXCEPT !.execution_result = context.generated_query.id]
      /\ outcome = "running" /\ outcome' = "running"
      /\ transition_count' = transition_count + 1
      /\ UNCHANGED <<run_file, reruns, clock, generated>>
  BY TurnOfTheLoop DEF ExecutionCompleted, Turn, In, Stage
<1>2. context \in Context /\ clock \in Nat /\ generated \in Nat
  BY DEF IInv, TypeOK
<1>3. context' \in Context
  <2>1. context.generated_query.id \in Nat
    BY <1>2 DEF Context, Query
  <2>2. QED
    BY <1>1, <1>2, <2>1 DEF Context
<1>4. TypeOK'
  BY <1>1, <1>2, <1>3 DEF IInv, TypeOK, PipelineState, Stage, Terminal
<1>5. Provenance'
  BY <1>1, <1>2 DEF IInv, Context, Provenance, Endings, Entry, Stage, NoPolicy,
     RuledOn, JudgedAs, QueryReady, SelectionReady
<1>6. Endings'
  BY <1>1, <1>2 DEF IInv, Context, Provenance, Endings, Stage, NoPolicy,
     RuledOn, JudgedAs, QueryReady, SelectionReady
<1>7. Entry'
  BY <1>1, <1>2 DEF IInv, Context, Entry, Feedback, Fallthrough
<1>8. Counting'
  BY <1>1, <1>2, RetriesAssumption
  DEF IInv, TypeOK, Context, Entry, Counting, Feedback, Work, Fallthrough
<1>9. Feedback' /\ AttemptsCountGenerations'
  BY <1>1, <1>2 DEF IInv, Context, Entry, Feedback, AttemptsCountGenerations,
     Fallthrough
<1>10. (SavedRunIsCoherent /\ SavedRetries)'
  BY <1>1 DEF IInv, SavedRunIsCoherent, SavedRetries
<1>11. QED
  BY <1>4, <1>5, <1>6, <1>7, <1>8, <1>9, <1>10 DEF IInv

\* Which stage the feedback guardrail jumps to depends on the entry stage.
LEMMA FeedbackAcceptedInv == IInv /\ FeedbackAccepted => IInv'
<1> SUFFICES ASSUME IInv, FeedbackAccepted PROVE IInv'
  OBVIOUS
<1>1. /\ state = "feedback_guardrail"
      /\ state' = CASE context.entry_stage = "query_generation" ->
                         "query_generation"
                    [] context.entry_stage = "validation" -> "query_validation"
                    [] OTHER -> "table_selection"
      /\ context' = context
      /\ outcome = "running" /\ outcome' = "running"
      /\ transition_count' = transition_count + 1
      /\ UNCHANGED <<run_file, reruns, clock, generated>>
  BY TurnOfTheLoop DEF FeedbackAccepted, Turn, In, Stage
<1>2. context \in Context /\ clock \in Nat /\ generated \in Nat
  BY DEF IInv, TypeOK
<1>3. \/ /\ context.entry_stage = "query_generation"
         /\ state' = "query_generation"
      \/ /\ context.entry_stage = "validation"
         /\ state' = "query_validation"
      \/ /\ context.entry_stage = "table_selection"
         /\ state' = "table_selection"
  BY <1>1, <1>2 DEF IInv, Entry, Context, EntryStage
<1>4. TypeOK'
  BY <1>1, <1>2, <1>3 DEF IInv, TypeOK, PipelineState, Stage, Terminal
<1>5. Provenance'
  BY <1>1, <1>2, <1>3 DEF IInv, Provenance, Entry, Stage, QueryReady,
     SelectionReady
<1>6. Endings'
  BY <1>1, <1>2, <1>3 DEF IInv, Endings, RuledOn, JudgedAs, QueryReady,
     SelectionReady
<1>7. Entry'
  BY <1>1, <1>2, <1>3 DEF IInv, Entry, Feedback, Fallthrough, Context
<1>8. Counting'
  BY <1>1, <1>2, <1>3 DEF IInv, TypeOK, Context, Entry, Counting, Feedback,
     Work, Fallthrough
<1>9. Feedback' /\ AttemptsCountGenerations'
  BY <1>1, <1>2, <1>3 DEF IInv, Context, Entry, Feedback,
     AttemptsCountGenerations, Fallthrough
<1>10. (SavedRunIsCoherent /\ SavedRetries)'
  BY <1>1 DEF IInv, SavedRunIsCoherent, SavedRetries
<1>11. QED
  BY <1>4, <1>5, <1>6, <1>7, <1>8, <1>9, <1>10 DEF IInv

\* A stage that raises ends the run and records nothing but the error.
LEMMA StageFailedInv ==
  ASSUME IInv, NEW s \in Stage, StageFailed(s) PROVE IInv'
<1>1. /\ state = s /\ state' = "terminal_error"
      /\ context' = [context EXCEPT !.error = FailedError[s]]
      /\ outcome = "running" /\ outcome' = "running"
      /\ transition_count' = transition_count + 1
      /\ UNCHANGED <<run_file, reruns, clock, generated>>
  BY TurnOfTheLoop DEF StageFailed, Halt, Turn
<1>2. context \in Context /\ clock \in Nat /\ generated \in Nat
  BY DEF IInv, TypeOK
<1>3. /\ FailedError[s] \in Error
      /\ FailedError[s] # "cap_exceeded"
      /\ FailedError[s] # "validation_exhausted"
  BY DEF FailedError, Stage, Error
<1>4. TypeOK'
  <2>1. context' \in Context
    BY <1>1, <1>2, <1>3 DEF Context
  <2>2. QED
    BY <1>1, <1>2, <2>1 DEF IInv, TypeOK, PipelineState, Terminal
<1>5. Provenance'
  BY <1>1, <1>2 DEF IInv, Context, Provenance, Stage
<1>6. Endings'
  <2>1. /\ context'.error = FailedError[s]
        /\ context'.policy_result = context.policy_result
        /\ context'.execution_result = context.execution_result
        /\ context'.generated_query = context.generated_query
        /\ context'.validation_result = context.validation_result
        /\ context'.selected_objects = context.selected_objects
        /\ context'.relevant_schema = context.relevant_schema
    BY <1>1, <1>2 DEF Context
  <2>2. RuledOn' <=> RuledOn
    BY <2>1 DEF RuledOn, JudgedAs, QueryReady, SelectionReady
  <2>3. context.execution_result = None /\ state \in Stage
    BY <1>1 DEF IInv, Provenance
  <2>4. context'.policy_result = NoPolicy \/ RuledOn'
    BY <2>1, <2>2 DEF IInv, Endings
  <2> QED
    BY <1>1, <1>3, <2>1, <2>3, <2>4 DEF Endings
<1>7. Entry'
  BY <1>1, <1>2 DEF IInv, Context, Entry, Feedback, Fallthrough
<1>8. Counting'
  BY <1>1, <1>2 DEF IInv, Context, Counting, Stage
<1>9. Feedback' /\ AttemptsCountGenerations'
  BY <1>1, <1>2 DEF IInv, Context, Feedback, AttemptsCountGenerations
<1>10. (SavedRunIsCoherent /\ SavedRetries)'
  BY <1>1 DEF IInv, SavedRunIsCoherent, SavedRetries
<1>11. QED
  BY <1>4, <1>5, <1>6, <1>7, <1>8, <1>9, <1>10 DEF IInv

\* What Finish saves is coherent: the save condition holds only for runs whose
\* query was validated and ruled on, or judged invalid for the last time.
LEMMA FinishInv == IInv /\ Finish => IInv'
<1> SUFFICES ASSUME IInv, Finish PROVE IInv'
  OBVIOUS
<1>1. /\ outcome = "running" /\ state \in Terminal
      /\ outcome' = IF Raises THEN "raised" ELSE "answered"
      /\ UNCHANGED <<state, transition_count, context, reruns, clock, generated>>
      /\ \/ ShouldSave /\ run_file' = SavedRun
         \/ UNCHANGED run_file
  BY DEF Finish
<1>2. context \in Context /\ clock \in Nat /\ generated \in Nat
  BY DEF IInv, TypeOK
<1>3. SavedRun \in RunFile
  BY <1>2 DEF Context, SavedRun, RunFile
<1>4. TypeOK'
  BY <1>1, <1>3 DEF IInv, TypeOK
<1>5. Provenance'
  BY <1>1 DEF IInv, Provenance, RuledOn, JudgedAs, QueryReady, SelectionReady
<1>6. Endings'
  BY <1>1 DEF IInv, Endings, Raises, RuledOn, JudgedAs, QueryReady,
     SelectionReady
<1>7. Entry' /\ Counting' /\ Feedback' /\ AttemptsCountGenerations'
  BY <1>1 DEF IInv, Entry, Counting, Feedback, AttemptsCountGenerations, Work,
     Fallthrough, QueryReady, SelectionReady
<1>8. ShouldSave => \/ RuledOn
                    \/ JudgedAs("invalid") /\ context.policy_result = NoPolicy
  BY DEF IInv, Endings, ShouldSave, NoPolicy
<1>9. (SavedRunIsCoherent /\ SavedRetries)'
  BY <1>1, <1>2, <1>8 DEF IInv, SavedRunIsCoherent, SavedRetries, SavedRun,
     Counting, RuledOn, JudgedAs, QueryReady, SelectionReady, Context, Query
<1>10. QED
  BY <1>4, <1>5, <1>6, <1>7, <1>9 DEF IInv

LEMMA CancelledInv == IInv /\ Cancelled => IInv'
<1> SUFFICES ASSUME IInv, Cancelled PROVE IInv'
  OBVIOUS
<1>1. TypeOK'
  BY DEF Cancelled, IInv, TypeOK
<1>2. Provenance' /\ Endings' /\ Entry'
  BY DEF Cancelled, IInv, Provenance, Endings, Entry, RuledOn, JudgedAs,
     QueryReady, SelectionReady, Fallthrough, Work
<1>3. Counting' /\ Feedback' /\ AttemptsCountGenerations'
  BY DEF Cancelled, IInv, Counting, Feedback, AttemptsCountGenerations, RuledOn,
     JudgedAs, QueryReady, SelectionReady, Fallthrough, Work
<1>4. SavedRunIsCoherent' /\ SavedRetries'
  BY DEF Cancelled, IInv, SavedRunIsCoherent, SavedRetries
<1>5. QED
  BY <1>1, <1>2, <1>3, <1>4 DEF IInv

LEMMA RunExpiresInv == IInv /\ RunExpires => IInv'
<1> SUFFICES ASSUME IInv, RunExpires PROVE IInv'
  OBVIOUS
<1>1. NoRunFile \in RunFile
  BY DEF NoRunFile, RunFile, NoQuery, Query, NoValidation, Validation,
     NoPolicy, Policy
<1>2. SavedRunIsCoherent' /\ SavedRetries'
  BY RetriesAssumption DEF RunExpires, SavedRunIsCoherent, SavedRetries,
     NoRunFile
<1>3. TypeOK'
  BY <1>1 DEF RunExpires, IInv, TypeOK
<1>4. Provenance' /\ Endings' /\ Entry'
  BY DEF RunExpires, IInv, Provenance, Endings, Entry, RuledOn, JudgedAs,
     QueryReady, SelectionReady, Fallthrough, Work
<1>5. Counting' /\ Feedback' /\ AttemptsCountGenerations'
  BY DEF RunExpires, IInv, Counting, Feedback, AttemptsCountGenerations, RuledOn,
     JudgedAs, QueryReady, SelectionReady, Fallthrough, Work
<1>6. QED
  BY <1>2, <1>3, <1>4, <1>5 DEF IInv

\* A rerun starts from a coherent run file, so what it loads is ready.
LEMMA RerunInv ==
  ASSUME IInv, NEW start \in EntryStage \ {"fresh"}, Rerun(start)
  PROVE  IInv'
<1>1. /\ state' = "feedback_guardrail" /\ transition_count' = 0
      /\ context' = Rehydrated(start) /\ outcome' = "running"
      /\ reruns' = reruns + 1 /\ generated' = 0
      /\ run_file.saved
      /\ UNCHANGED <<run_file, clock>>
  BY DEF Rerun
<1>2. /\ run_file \in RunFile
      /\ run_file.selected_objects # None
      /\ run_file.relevant_schema = run_file.selected_objects
      /\ run_file.generated_query.id # None
      /\ run_file.generated_query.schema = run_file.relevant_schema
      /\ run_file.selection_retries <= MaxRetries
  BY <1>1 DEF IInv, TypeOK, SavedRunIsCoherent, SavedRetries
<1> DEFINE frozen == start # "table_selection"
           loaded == start = "validation"
<1>3. context' =
        [FreshContext EXCEPT
           !.entry_stage      = start,
           !.stage_1_frozen   = frozen,
           !.stage_3_fallthrough_allowed = loaded,
           !.selector_retries =
              IF frozen THEN run_file.selection_retries ELSE 0,
           !.guardrail_result = "read_query",
           !.selected_objects =
              IF frozen THEN run_file.selected_objects ELSE None,
           !.relevant_schema  =
              IF frozen THEN run_file.relevant_schema ELSE None,
           !.generated_query  =
              IF loaded THEN run_file.generated_query ELSE NoQuery]
  BY <1>1, <1>2 DEF Rehydrated
<1>4. start \in {"table_selection", "query_generation", "validation"}
  BY DEF EntryStage
<1>5. TypeOK'
  <2>1. /\ run_file.selection_retries \in Nat /\ run_file.selected_objects \in Nat
        /\ run_file.relevant_schema \in Nat /\ run_file.generated_query \in Query
    BY <1>2 DEF RunFile
  <2>2. FreshContext \in Context
    BY DEF FreshContext, Context, EntryStage, Error, NoQuery, Query,
       NoValidation, Validation, NoPolicy, Policy
  <2>3. /\ start \in EntryStage /\ frozen \in BOOLEAN /\ loaded \in BOOLEAN
        /\ None \in Nat /\ NoQuery \in Query
        /\ "read_query" \in {"none", "reject", "basic", "read_query"}
    BY DEF NoQuery, Query
  <2> DEFINE retries == IF frozen THEN run_file.selection_retries ELSE 0
             objects == IF frozen THEN run_file.selected_objects ELSE None
             schema  == IF frozen THEN run_file.relevant_schema ELSE None
             query   == IF loaded THEN run_file.generated_query ELSE NoQuery
  <2>4. /\ retries \in Nat /\ objects \in Nat /\ schema \in Nat
        /\ query \in Query
    BY <2>1, <2>3
  <2>5. context' =
          [FreshContext EXCEPT
             !.entry_stage = start, !.stage_1_frozen = frozen,
             !.stage_3_fallthrough_allowed = loaded,
             !.selector_retries = retries, !.guardrail_result = "read_query",
             !.selected_objects = objects, !.relevant_schema = schema,
             !.generated_query = query]
    BY <1>3
  <2> HIDE DEF frozen, loaded, retries, objects, schema, query
  <2>6. context' \in Context
    BY ONLY <2>2, <2>3, <2>4, <2>5, ZenonT(60) DEF Context
  <2>7. QED
    BY <1>1, <2>6 DEF IInv, TypeOK, PipelineState, Stage
<1>6. /\ context'.policy_result = NoPolicy /\ context'.execution_result = None
      /\ context'.error = "none" /\ context'.guardrail_result = "read_query"
      /\ context'.entry_stage = start
      /\ context'.stage_1_frozen = frozen
      /\ context'.stage_3_fallthrough_allowed = loaded
      /\ frozen => /\ context'.selected_objects = run_file.selected_objects
                   /\ context'.relevant_schema = run_file.relevant_schema
      /\ loaded => context'.generated_query = run_file.generated_query
      /\ context'.initial_val_checked = FALSE
      /\ context'.validation_retries = 0 /\ context'.s2_system_retry = None
      /\ context'.s1_system_retry = "none" /\ context'.attempts = 1
      /\ context'.selector_retries =
           IF frozen THEN run_file.selection_retries ELSE 0
  BY <1>3 DEF FreshContext
<1>7. Provenance' /\ Endings'
  <2>1. Provenance'
    BY <1>1, <1>6 DEF Provenance, Stage
  <2>2. Endings'
    BY <1>1, <1>6 DEF Endings
  <2>3. QED
    BY <2>1, <2>2
<1>8. Entry'
  <2>1. frozen <=> start \in {"query_generation", "validation"}
    BY <1>4
  <2>2. frozen => SelectionReady'
    BY <1>2, <1>6 DEF SelectionReady
  <2>3. loaded => QueryReady' /\ Fallthrough'
    BY <1>2, <1>6, <2>2 DEF QueryReady, SelectionReady, Fallthrough
  <2>4. Fallthrough' => start = "validation"
    BY <1>6 DEF Fallthrough
  <2>5. QED
    BY <1>1, <1>4, <1>6, <2>1, <2>2, <2>3, <2>4 DEF Entry
<1>9. Counting' /\ Feedback' /\ AttemptsCountGenerations'
  <2>1. Counting'
    BY <1>1, <1>2, <1>6, RetriesAssumption DEF Counting
  <2>2. Feedback'
    BY <1>1, <1>6 DEF Feedback
  <2>3. AttemptsCountGenerations'
    BY <1>1, <1>6 DEF AttemptsCountGenerations
  <2>4. QED
    BY <2>1, <2>2, <2>3
<1>10. (SavedRunIsCoherent /\ SavedRetries)'
  BY <1>1 DEF IInv, SavedRunIsCoherent, SavedRetries
<1>11. QED
  BY <1>5, <1>7, <1>8, <1>9, <1>10 DEF IInv

-----------------------------------------------------------------------------
(* The invariant, and what follows from it                                 *)

LEMMA NextInv == IInv /\ [Next]_vars => IInv'
<1> SUFFICES ASSUME IInv, [Next]_vars PROVE IInv'
  OBVIOUS
<1>1. CASE UNCHANGED vars
  <2>1. TypeOK' /\ SavedRunIsCoherent' /\ SavedRetries'
    BY <1>1 DEF vars, IInv, TypeOK, SavedRunIsCoherent, SavedRetries
  <2>2. Provenance' /\ Endings' /\ Entry'
    BY <1>1 DEF vars, IInv, Provenance, Endings, Entry, RuledOn, JudgedAs,
       QueryReady, SelectionReady, Fallthrough, Work
  <2>3. Counting' /\ Feedback' /\ AttemptsCountGenerations'
    BY <1>1 DEF vars, IInv, Counting, Feedback, AttemptsCountGenerations, RuledOn,
       JudgedAs, QueryReady, SelectionReady, Fallthrough, Work
  <2>4. QED
    BY <2>1, <2>2, <2>3 DEF IInv
<1>2. CASE GuardrailStep
  BY <1>2, SpellingCompletedInv, GuardrailRejectInv, GuardrailBasicInv,
     GuardrailReadInv, FeedbackRejectedInv, FeedbackAcceptedInv
  DEF GuardrailStep
<1>3. CASE SelectionStep
  BY <1>3, TablesSelectedInv, SelectorFailedInv, SelectionExhaustedInv,
     SelectionRetryInv DEF SelectionStep
<1>4. CASE GenerationStep
  BY <1>4, QueryGeneratedInv, MissingInfoFrozenInv, MissingInfoExhaustedInv,
     MissingInfoBacktrackInv DEF GenerationStep
<1>5. CASE ValidationStep
  BY <1>5, ValidationValidInv, ValidationUnsafeInv, ValidationFallthroughInv,
     ValidationExhaustedInv, ValidationRetryInv DEF ValidationStep
<1>6. CASE ExecutionStep
  BY <1>6, PolicyAllowedInv, PolicyRejectedInv, ExecutionCompletedInv
  DEF ExecutionStep
<1>7. CASE \E s \in Stage : StageFailed(s)
  BY <1>7, StageFailedInv
<1>8. CASE Finish
  BY <1>8, FinishInv
<1>9. CASE Cancelled
  BY <1>9, CancelledInv
<1>10. CASE RunExpires
  BY <1>10, RunExpiresInv
<1>11. CASE \E start \in EntryStage \ {"fresh"} : Rerun(start)
  BY <1>11, RerunInv
<1>12. QED
  BY <1>1, <1>2, <1>3, <1>4, <1>5, <1>6, <1>7, <1>8, <1>9, <1>10, <1>11
  DEF Next, RunStep

LEMMA Invariance == Spec => []IInv
<1>1. Init => IInv
  BY InitInv
<1>2. IInv /\ [Next]_vars => IInv'
  BY NextInv
<1>3. QED
  BY <1>1, <1>2, PTL DEF Spec

\* Every variable of the pipeline keeps its type, in every run of a session.
THEOREM TypeCorrect == Spec => []TypeOK
<1>1. IInv => TypeOK
  BY DEF IInv
<1>2. QED
  BY <1>1, Invariance, PTL

\* No run, fresh or rerun, ever reaches the cap of 5 * max_retries + 8
\* transitions, whatever max_retries is.
THEOREM CapIsNeverHit == Spec => []CapNeverHit
<1>1. IInv => CapNeverHit
  BY DEF IInv, Endings, CapNeverHit
<1>2. QED
  BY <1>1, Invariance, PTL

\* Rows come only from a query that was validated, and allowed by the policy
\* against the schema it was generated from.
THEOREM ExecutedIsChecked == Spec => []ExecutedQueryIsChecked
<1>1. IInv => ExecutedQueryIsChecked
  <2> SUFFICES ASSUME IInv, context.execution_result # None
               PROVE  ExecutedQueryIsChecked
    BY DEF ExecutedQueryIsChecked
  <2>1. /\ RuledOn /\ context.policy_result.allowed
        /\ context.execution_result = context.generated_query.id
    BY DEF IInv, Endings
  <2>2. context.policy_result \in Policy /\ context.policy_result.allowed = TRUE
    BY <2>1 DEF IInv, TypeOK, Context, Policy
  <2>3. context.policy_result =
          [query   |-> context.execution_result,
           schema  |-> context.generated_query.schema,
           allowed |-> TRUE]
    BY <2>1, <2>2 DEF RuledOn, Policy
  <2>4. QED
    BY <2>1, <2>3 DEF ExecutedQueryIsChecked, RuledOn, JudgedAs, QueryReady,
       SelectionReady
<1>2. QED
  BY <1>1, Invariance, PTL

\* However many reruns rewrote it, a run file holds artifacts that belong
\* together.
THEOREM SavedIsCoherent == Spec => []SavedRunIsCoherent
<1>1. IInv => SavedRunIsCoherent
  BY DEF IInv
<1>2. QED
  BY <1>1, Invariance, PTL

\* Validator feedback handed to the generator is about the last query, judged
\* invalid.
THEOREM FeedbackIsCurrent == Spec => []FeedbackIsAboutLastRejectedQuery
<1>1. IInv => FeedbackIsAboutLastRejectedQuery
  BY DEF IInv, Feedback, FeedbackIsAboutLastRejectedQuery, In
<1>2. QED
  BY <1>1, Invariance, PTL

\* Stage 1 has retry feedback exactly on its retries, and it never outlives the
\* selection it asked for.
THEOREM RetryFeedbackIsInStep == Spec => []SelectorRetryHasFeedback
<1>1. IInv => SelectorRetryHasFeedback
  BY DEF IInv, Feedback, SelectorRetryHasFeedback
<1>2. QED
  BY <1>1, Invariance, PTL

\* The attempts a response reports count the queries the generator answered.
THEOREM AttemptsAreGenerations == Spec => []AttemptsCountGenerations
<1>1. IInv => AttemptsCountGenerations
  BY DEF IInv
<1>2. QED
  BY <1>1, Invariance, PTL

\* A run that executed a query is neither cancelled nor left unanswered.
THEOREM ExecutedIsNotLost == Spec => []NothingExecutedIsLost
<1>1. IInv => NothingExecutedIsLost
  BY DEF IInv, Endings, Provenance, Awaiting, Stage, NothingExecutedIsLost
<1>2. QED
  BY <1>1, Invariance, PTL

\* A rerun that froze its selection never replaces it, nor its schema: only
\* table selection does, and no step of a frozen run leads there.
THEOREM FrozenIsKept == Spec => FrozenSelectionKept
<1> DEFINE Kept == /\ context'.selected_objects = context.selected_objects
                   /\ context'.relevant_schema = context.relevant_schema
<1>1. IInv /\ [Next]_vars =>
        [context.stage_1_frozen /\ outcome = "running"
           => UNCHANGED <<context.selected_objects, context.relevant_schema>>]_vars
  <2> SUFFICES ASSUME IInv, Next, context.stage_1_frozen, outcome = "running"
               PROVE  Kept
    OBVIOUS
  <2>1. context \in Context
    BY DEF IInv, TypeOK
  <2>2. state # "table_selection"
    BY DEF IInv, Entry
  <2>3. CASE GuardrailStep
    <3>1. CASE SpellingCompleted
      BY <2>1, <3>1 DEF SpellingCompleted, Turn, Advance, Context
    <3>2. CASE GuardrailReject
      BY <2>1, <3>2 DEF GuardrailReject, Turn, Advance, Context
    <3>3. CASE GuardrailBasic
      BY <2>1, <3>3 DEF GuardrailBasic, Turn, Advance, Context
    <3>4. CASE GuardrailRead
      BY <2>1, <3>4 DEF GuardrailRead, Turn, Advance, Context
    <3>5. CASE FeedbackRejected
      BY <2>1, <3>5 DEF FeedbackRejected, Turn, Advance, Context, Halt
    <3>6. CASE FeedbackAccepted
      BY <2>1, <3>6 DEF FeedbackAccepted, Turn, Advance, Context
    <3>7. QED
      BY <2>3, <3>1, <3>2, <3>3, <3>4, <3>5, <3>6 DEF GuardrailStep
  <2>4. CASE SelectionStep
    BY <2>2, <2>4 DEF SelectionStep, TablesSelected, SelectorFailed,
       SelectionExhausted, SelectionRetry, In
  <2>5. CASE GenerationStep
    <3>1. CASE QueryGenerated
      BY <2>1, <3>1 DEF QueryGenerated, Turn, Advance, Context
    <3>2. CASE MissingInfoFrozen
      BY <2>1, <3>2 DEF MissingInfoFrozen, Turn, Advance, Context, Halt
    <3>3. CASE MissingInfoExhausted
      BY <2>1, <3>3 DEF MissingInfoExhausted, Turn, Advance, Context, Halt
    <3>4. CASE MissingInfoBacktrack
      BY <2>1, <3>4 DEF MissingInfoBacktrack, Turn, Advance, Context
    <3>5. QED
      BY <2>5, <3>1, <3>2, <3>3, <3>4 DEF GenerationStep
  <2>6. CASE ValidationStep
    <3>1. CASE ValidationValid
      BY <2>1, <3>1 DEF ValidationValid, Turn, Advance, Context, Judged
    <3>2. CASE ValidationUnsafe
      BY <2>1, <3>2 DEF ValidationUnsafe, Turn, Advance, Context, Judged
    <3>3. CASE ValidationFallthrough
      BY <2>1, <3>3 DEF ValidationFallthrough, Turn, Advance, Context, Judged
    <3>4. CASE ValidationExhausted
      BY <2>1, <3>4 DEF ValidationExhausted, Turn, Advance, Context, Judged
    <3>5. CASE ValidationRetry
      BY <2>1, <3>5 DEF ValidationRetry, Turn, Advance, Context, Judged
    <3>6. QED
      BY <2>6, <3>1, <3>2, <3>3, <3>4, <3>5 DEF ValidationStep
  <2>7. CASE ExecutionStep
    <3>1. CASE PolicyAllowed
      BY <2>1, <3>1 DEF PolicyAllowed, Turn, Advance, Context, Ruled
    <3>2. CASE PolicyRejected
      BY <2>1, <3>2 DEF PolicyRejected, Turn, Advance, Context, Ruled
    <3>3. CASE ExecutionCompleted
      BY <2>1, <3>3 DEF ExecutionCompleted, Turn, Advance, Context
    <3>4. QED
      BY <2>7, <3>1, <3>2, <3>3 DEF ExecutionStep
  <2>8. CASE \E s \in Stage : StageFailed(s)
    BY <2>1, <2>8, TurnOfTheLoop DEF StageFailed, Halt, Turn, Context
  <2>9. CASE Finish \/ Cancelled \/ RunExpires
    BY <2>9 DEF Finish, Cancelled, RunExpires
  <2>10. CASE \E start \in EntryStage \ {"fresh"} : Rerun(start)
    BY <2>10 DEF Rerun
  <2>11. QED
    BY <2>3, <2>4, <2>5, <2>6, <2>7, <2>8, <2>9, <2>10 DEF Next, RunStep
<1>2. QED
  BY <1>1, Invariance, PTL DEF Spec, FrozenSelectionKept


-----------------------------------------------------------------------------
(* The pipeline implements QueryService, for every max_retries and any     *)
(* number of reruns.  Most steps are invisible to the service; generating, *)
(* allowing, executing, finishing, cancelling, expiring and rerunning map  *)
(* to its seven actions, one each.                                         *)

-----------------------------------------------------------------------------
(* Stamps grow: a new query's is larger than any in use                    *)

Stamps ==
  /\ context.generated_query.id <= clock
  /\ run_file.generated_query.id <= clock

\* What a step may do to the queries and to the clock.
QueriesMove ==
  /\ \/ context'.generated_query = context.generated_query
     \/ context'.generated_query.id \in {0, clock', run_file.generated_query.id}
  /\ \/ run_file' = run_file
     \/ run_file'.generated_query.id \in {0, context.generated_query.id}
  /\ clock' \in {clock, clock + 1}

\* The stages' steps that the service does not see.
Unseen ==
  /\ outcome = "running" /\ outcome' = "running"
  /\ context'.generated_query = context.generated_query
  /\ context'.policy_result = context.policy_result
  /\ context'.execution_result = context.execution_result
  /\ run_file' = run_file
  /\ clock' \in {clock, clock + 1}

LEMMA GuardrailStepIsUnseen ==
  ASSUME IInv, GuardrailStep
  PROVE  Unseen
<1>1. context \in Context
  BY DEF IInv, TypeOK
<1>2. CASE SpellingCompleted
  BY <1>1, <1>2 DEF SpellingCompleted, In, Turn, Advance, Context, Unseen
<1>3. CASE GuardrailReject
  BY <1>1, <1>3, ZenonT(40)
  DEF GuardrailReject, In, Turn, Advance, Context, Unseen
<1>4. CASE GuardrailBasic
  BY <1>1, <1>4, ZenonT(40)
  DEF GuardrailBasic, In, Turn, Advance, Context, Unseen
<1>5. CASE GuardrailRead
  BY <1>1, <1>5, ZenonT(40)
  DEF GuardrailRead, In, Turn, Advance, Context, Unseen
<1>6. CASE FeedbackRejected
  BY <1>1, <1>6, ZenonT(40)
  DEF FeedbackRejected, In, Turn, Advance, Context, Unseen, Halt
<1>7. CASE FeedbackAccepted
  BY <1>1, <1>7 DEF FeedbackAccepted, In, Turn, Advance, Context, Unseen
<1>8. QED
  BY <1>2, <1>3, <1>4, <1>5, <1>6, <1>7 DEF GuardrailStep

LEMMA SelectionStepIsUnseen ==
  ASSUME IInv, SelectionStep
  PROVE  Unseen
<1>1. context \in Context
  BY DEF IInv, TypeOK
<1>2. CASE TablesSelected
  BY <1>1, <1>2, ZenonT(40)
  DEF TablesSelected, In, Turn, Advance, Context, Unseen
<1>3. CASE SelectorFailed
  BY <1>1, <1>3, ZenonT(40)
  DEF SelectorFailed, In, Turn, Advance, Context, Unseen,
     EmptySelection
<1>4. CASE SelectionExhausted
  BY <1>1, <1>4, ZenonT(40)
  DEF SelectionExhausted, In, Turn, Advance, Context, Unseen,
     EmptySelection
<1>5. CASE SelectionRetry
  BY <1>1, <1>5, ZenonT(40)
  DEF SelectionRetry, In, Turn, Advance, Context, Unseen,
     EmptySelection
<1>6. QED
  BY <1>2, <1>3, <1>4, <1>5 DEF SelectionStep

LEMMA GenerationStepIsUnseen ==
  ASSUME IInv, GenerationStep, ~QueryGenerated
  PROVE  Unseen
<1>1. context \in Context
  BY DEF IInv, TypeOK
<1>2. CASE MissingInfoFrozen
  BY <1>1, <1>2 DEF MissingInfoFrozen, In, Turn, Advance, Context, Unseen,
     Halt
<1>3. CASE MissingInfoExhausted
  BY <1>1, <1>3 DEF MissingInfoExhausted, In, Turn, Advance, Context, Unseen,
     Halt
<1>4. CASE MissingInfoBacktrack
  BY <1>1, <1>4, ZenonT(40)
  DEF MissingInfoBacktrack, In, Turn, Advance, Context, Unseen
<1>5. QED
  BY <1>2, <1>3, <1>4 DEF GenerationStep

LEMMA ValidationStepIsUnseen ==
  ASSUME IInv, ValidationStep
  PROVE  Unseen
<1>1. context \in Context
  BY DEF IInv, TypeOK
<1>2. CASE ValidationValid
  BY <1>1, <1>2, ZenonT(40)
  DEF ValidationValid, In, Turn, Advance, Context, Unseen,
     Judged
<1>3. CASE ValidationUnsafe
  BY <1>1, <1>3 DEF ValidationUnsafe, In, Turn, Advance, Context, Unseen,
     Judged
<1>4. CASE ValidationFallthrough
  <2> DEFINE next == [Judged("invalid") EXCEPT
                        !.stage_3_fallthrough_allowed = FALSE,
                        !.initial_val_checked = TRUE,
                        !.validation_retries = 0, !.attempts = 1]
  <2>1. /\ {"generated_query", "policy_result", "execution_result", "error"}
             \subseteq DOMAIN next
        /\ next.generated_query = context.generated_query
        /\ next.policy_result = context.policy_result
        /\ next.execution_result = context.execution_result
    BY <1>1 DEF Judged, Context
  <2>2. outcome = "running" /\ Turn("query_generation", next)
    BY <1>4 DEF ValidationFallthrough, In
  <2> HIDE DEF next
  <2>3. /\ context' = next \/ context' = [next EXCEPT !.error = "cap_exceeded"]
        /\ UNCHANGED <<outcome, run_file, clock>>
    BY <2>2 DEF Turn, Advance
  <2>4. /\ context'.generated_query = next.generated_query
        /\ context'.policy_result = next.policy_result
        /\ context'.execution_result = next.execution_result
    BY <2>1, <2>3
  <2> QED
    BY <2>1, <2>2, <2>3, <2>4 DEF Unseen
<1>5. CASE ValidationExhausted
  BY <1>1, <1>5, ZenonT(40)
  DEF ValidationExhausted, In, Turn, Advance, Context, Unseen,
     Judged
<1>6. CASE ValidationRetry
  BY <1>1, <1>6, ZenonT(40)
  DEF ValidationRetry, In, Turn, Advance, Context, Unseen,
     Judged
<1>7. QED
  BY <1>2, <1>3, <1>4, <1>5, <1>6 DEF ValidationStep

LEMMA FailureIsUnseen ==
  ASSUME IInv, NEW s \in Stage, StageFailed(s)
  PROVE  Unseen
<1>1. context \in Context
  BY DEF IInv, TypeOK
<1>2. QED
  BY <1>1 DEF StageFailed, Halt, In, Turn, Advance, Context, Unseen

-----------------------------------------------------------------------------
(* The steps it does see                                                   *)

LEMMA GeneratedProposes ==
  ASSUME IInv, Stamps, QueryGenerated
  PROVE  Service!Propose /\ QueriesMove
<1>1. /\ context' = [context EXCEPT
           !.generated_query = [id     |-> clock + 1,
                                schema |-> context.relevant_schema],
           !.attempts = context.validation_retries + 1]
      /\ state = "query_generation"
      /\ outcome = "running" /\ outcome' = "running"
      /\ clock' = clock + 1 /\ run_file' = run_file
  BY TurnOfTheLoop DEF QueryGenerated, In, Stage
<1>2. /\ context \in Context /\ clock \in Nat /\ run_file \in RunFile
      /\ context.generated_query.id \in Nat
      /\ run_file.generated_query.id \in Nat
  BY DEF IInv, TypeOK, Context, RunFile, Query
<1>3. context.policy_result = NoPolicy /\ ~context.policy_result.allowed
  BY <1>1 DEF IInv, Provenance, Stage, NoPolicy
<1>4. /\ context'.generated_query.id = clock + 1
      /\ context'.policy_result = context.policy_result
      /\ context'.execution_result = context.execution_result
  BY <1>1, <1>2 DEF Context
<1>5. Service!Propose
  <2>1. /\ clock + 1 \in Nat /\ clock + 1 > context.generated_query.id
        /\ clock + 1 > run_file.generated_query.id
    BY <1>2 DEF Stamps
  <2>2. QED
    BY <1>1, <1>3, <1>4, <2>1 DEF Service!Propose
<1>6. QueriesMove
  BY <1>1, <1>4 DEF QueriesMove
<1>7. QED
  BY <1>5, <1>6

LEMMA AllowedApproves ==
  ASSUME IInv, PolicyAllowed
  PROVE  Service!Approve /\ QueriesMove
<1>1. /\ context' = Ruled(TRUE) /\ state = "policy_check"
      /\ outcome = "running" /\ outcome' = "running"
      /\ clock' = clock /\ run_file' = run_file
  BY TurnOfTheLoop DEF PolicyAllowed, Turn, In, Stage
<1>2. context \in Context
  BY DEF IInv, TypeOK
<1>3. /\ context'.generated_query = context.generated_query
      /\ context'.policy_result.allowed = TRUE
      /\ context'.execution_result = context.execution_result
  BY <1>1, <1>2 DEF Ruled, Context
<1>4. ~context.policy_result.allowed /\ context.generated_query.id # 0
  BY <1>1 DEF IInv, Provenance, Stage, QueryReady, NoPolicy
<1>5. QED
  BY <1>1, <1>3, <1>4 DEF Service!Approve, QueriesMove

LEMMA RejectedIsUnseen ==
  ASSUME IInv, PolicyRejected
  PROVE  UNCHANGED Service!vars /\ QueriesMove
<1>1. /\ context' = [Ruled(FALSE) EXCEPT !.error = "policy_rejected"]
      /\ state = "policy_check"
      /\ outcome = "running" /\ outcome' = "running"
      /\ clock' = clock /\ run_file' = run_file
  BY TurnOfTheLoop DEF PolicyRejected, Turn, In, Stage
<1>2. context \in Context
  BY DEF IInv, TypeOK
<1>3. /\ context'.generated_query = context.generated_query
      /\ context'.policy_result.allowed = FALSE
      /\ context'.execution_result = context.execution_result
  BY <1>1, <1>2 DEF Ruled, Context
<1>4. context.policy_result.allowed = FALSE
  BY <1>1 DEF IInv, Provenance, Stage, NoPolicy
<1>5. QED
  BY <1>1, <1>3, <1>4 DEF Service!vars, QueriesMove

LEMMA CompletionExecutes ==
  ASSUME IInv, ExecutionCompleted
  PROVE  Service!Execute /\ QueriesMove
<1>1. /\ context' = [context EXCEPT
                       !.execution_result = context.generated_query.id]
      /\ state = "query_execution"
      /\ outcome = "running" /\ outcome' = "running"
      /\ clock' = clock /\ run_file' = run_file
  BY TurnOfTheLoop DEF ExecutionCompleted, Turn, In, Stage
<1>2. context \in Context /\ context.policy_result.allowed \in BOOLEAN
  BY DEF IInv, TypeOK, Context, Policy
<1>3. /\ context'.generated_query = context.generated_query
      /\ context'.policy_result = context.policy_result
      /\ context'.execution_result = context.generated_query.id
  BY <1>1, <1>2 DEF Context
<1>4. /\ context.policy_result.allowed /\ context.execution_result = None
      /\ context.generated_query.id # None
  BY <1>1 DEF IInv, Provenance, Stage, QueryReady
<1>5. QED
  BY <1>1, <1>2, <1>3, <1>4 DEF Service!Execute, QueriesMove

LEMMA FinishEnds ==
  ASSUME IInv, Finish
  PROVE  (Service!Answer \/ Service!GiveUp) /\ QueriesMove
<1>1. /\ outcome = "running" /\ context' = context /\ clock' = clock
      /\ \/ ~Raises /\ run_file' = SavedRun
         \/ run_file' = run_file
      /\ outcome' = IF Raises THEN "raised" ELSE "answered"
  BY DEF Finish
<1>2. run_file' = SavedRun =>
        run_file'.generated_query.id = context.generated_query.id
  BY DEF SavedRun
<1>3. Raises => context.execution_result = None
  BY DEF IInv, Endings, Raises
<1>4. QED
  BY <1>1, <1>2, <1>3 DEF Service!Answer, Service!GiveUp, QueriesMove

LEMMA CancelGivesUp ==
  ASSUME IInv, Cancelled
  PROVE  Service!GiveUp /\ QueriesMove
<1>1. context.execution_result = None
  BY DEF IInv, Provenance, Cancelled, Awaiting, Stage
<1>2. QED
  BY <1>1 DEF Cancelled, Service!GiveUp, QueriesMove

LEMMA ExpiryExpires ==
  ASSUME IInv, RunExpires
  PROVE  Service!Expire /\ QueriesMove
BY DEF RunExpires, NoRunFile, NoQuery, Service!Expire, QueriesMove

LEMMA RerunRestarts ==
  ASSUME IInv, NEW start \in EntryStage \ {"fresh"}, Rerun(start)
  PROVE  Service!Restart /\ QueriesMove
<1>1. /\ outcome # "running" /\ outcome' = "running"
      /\ run_file' = run_file /\ clock' = clock
      /\ context' = Rehydrated(start) /\ run_file.generated_query.id # 0
  BY DEF Rerun, IInv, SavedRunIsCoherent
<1>2. /\ context'.generated_query =
           IF start = "validation" THEN run_file.generated_query ELSE NoQuery
      /\ context'.policy_result = NoPolicy
      /\ context'.execution_result = None
  BY <1>1 DEF Rehydrated, FreshContext
<1>3. QED
  BY <1>1, <1>2 DEF Service!Restart, QueriesMove, NoPolicy, NoQuery

-----------------------------------------------------------------------------
(* The refinement                                                          *)

LEMMA StepRefines ==
  ASSUME IInv, Stamps, [Next]_vars
  PROVE  [Service!Next]_(Service!vars) /\ QueriesMove
<1>1. Unseen => UNCHANGED Service!vars /\ QueriesMove
  BY DEF Unseen, Service!vars, QueriesMove
<1>2. CASE UNCHANGED vars
  BY <1>2 DEF vars, Service!vars, QueriesMove
<1>3. CASE GuardrailStep \/ SelectionStep \/ ValidationStep
  BY <1>1, <1>3, GuardrailStepIsUnseen, SelectionStepIsUnseen,
     ValidationStepIsUnseen
<1>4. CASE GenerationStep
  <2>1. CASE QueryGenerated
    BY <2>1, GeneratedProposes DEF Service!Next
  <2>2. CASE ~QueryGenerated
    BY <1>1, <1>4, <2>2, GenerationStepIsUnseen
  <2>3. QED
    BY <2>1, <2>2
<1>5. CASE ExecutionStep
  BY <1>5, AllowedApproves, RejectedIsUnseen, CompletionExecutes
  DEF ExecutionStep, Service!Next
<1>6. CASE \E s \in Stage : StageFailed(s)
  BY <1>1, <1>6, FailureIsUnseen
<1>7. CASE Finish
  BY <1>7, FinishEnds DEF Service!Next
<1>8. CASE Cancelled
  BY <1>8, CancelGivesUp DEF Service!Next
<1>9. CASE RunExpires
  BY <1>9, ExpiryExpires DEF Service!Next
<1>10. CASE \E start \in EntryStage \ {"fresh"} : Rerun(start)
  BY <1>10, RerunRestarts DEF Service!Next
<1>11. QED
  BY <1>2, <1>3, <1>4, <1>5, <1>6, <1>7, <1>8, <1>9, <1>10 DEF Next, RunStep

LEMMA StampsInv ==
  ASSUME IInv, Stamps, QueriesMove, TypeOK'
  PROVE  Stamps'
<1>1. /\ context.generated_query.id \in Nat /\ clock \in Nat /\ clock' \in Nat
      /\ run_file.generated_query.id \in Nat
  BY DEF IInv, TypeOK, Context, RunFile, Query
<1>2. QED
  BY <1>1 DEF QueriesMove, Stamps

\* The pipeline, its orchestrator and its reruns implement QueryService: at
\* most one query per run is executed, after this run approved it, and a run
\* that does not answer stores nothing.
THEOREM PipelineImplementsService == Spec => ImplementsService
<1>1. Init => IInv /\ Stamps /\ Service!Init
  <2>1. Init => IInv
    BY InitInv
  <2>2. Init => Stamps /\ Service!Init
    BY DEF Init, FreshContext, NoRunFile, NoQuery, NoPolicy, Stamps,
       Service!Init
  <2>3. QED
    BY <2>1, <2>2
<1>2. IInv /\ Stamps /\ [Next]_vars =>
        IInv' /\ Stamps' /\ [Service!Next]_(Service!vars)
  <2>1. IInv /\ [Next]_vars => IInv'
    BY NextInv
  <2>2. IInv' => TypeOK'
    BY DEF IInv
  <2>3. QED
    BY <2>1, <2>2, StepRefines, StampsInv
<1>3. QED
  BY <1>1, <1>2, PTL DEF Spec, ImplementsService, Service!Spec

-----------------------------------------------------------------------------
(* Numbers                                                                 *)

\* A set of numbers has a least one, as the sets 0 .. n shrink only so often.
LEMMA LeastNumber ==
  ASSUME NEW T \in SUBSET Nat, T # {}
  PROVE  \E n \in T : \A m \in T : n <= m
<1> DEFINE D == {0 .. n : n \in T}
           R == StrictSubsetOrdering(Nat)
           F == FiniteSubsetsOf(Nat)
<1>1. IsWellFoundedOn(R, F)
  BY FS_StrictSubsetOrderingWellFounded
<1>2. \A n \in T : 0 .. n \in F
  <2>1. TAKE n \in T
  <2>2. n \in Int /\ 0 \in Int
    OBVIOUS
  <2>3. IsFiniteSet(0 .. n)
    BY <2>2, FS_Interval
  <2>4. QED
    BY <2>3 DEF FiniteSubsetsOf
<1>3. D \subseteq F /\ D # {}
  BY <1>2
<1>4. \E x \in D : \A y \in D : ~ (<<y, x>> \in R)
  <2> HIDE DEF D, R, F
  <2> QED
    BY <1>1, <1>3, WFMin
<1>5. PICK n \in T : \A m \in T : ~ (<<0 .. m, 0 .. n>> \in R)
  BY <1>4
<1>6. ASSUME NEW m \in T, m < n PROVE FALSE
  <2>1. 0 .. m \in SUBSET Nat /\ 0 .. n \in SUBSET Nat /\ 0 .. m \subseteq 0 .. n
    BY <1>6
  <2>2. n \in 0 .. n /\ n \notin 0 .. m
    BY <1>6
  <2>3. QED
    BY <1>5, <2>1, <2>2 DEF StrictSubsetOrdering
<1>7. QED
  BY <1>6

\* Induction, for a set of numbers.
LEMMA Induction ==
  ASSUME NEW T \in SUBSET Nat, 0 \in T, \A n \in T : n + 1 \in T
  PROVE  T = Nat
<1>1. SUFFICES ASSUME Nat \ T # {} PROVE FALSE
  OBVIOUS
<1>2. PICK n \in Nat \ T : \A m \in Nat \ T : n <= m
  BY <1>1, LeastNumber
<1>3. n # 0 /\ n - 1 \in Nat /\ n - 1 \notin Nat \ T
  BY <1>2
<1>4. QED
  BY <1>2, <1>3

-----------------------------------------------------------------------------
(* Sums over finite sets                                                   *)

Member(u) == CHOOSE x \in u : TRUE

IsSum(S, g, F) ==
  F = [u \in SUBSET S |-> IF u = {} THEN 0 ELSE g[Member(u)] + F[u \ {Member(u)}]]

LEMMA Members ==
  ASSUME NEW S, NEW u \in SUBSET S, u # {}
  PROVE  Member(u) \in u /\ Member(u) \in S /\ u \ {Member(u)} \in SUBSET S
BY DEF Member

\* What is defined for a set from its value for the set without a member exists.
LEMMA SumExists ==
  ASSUME NEW S, IsFiniteSet(S), NEW g \in [S -> Nat]
  PROVE  \E F \in [SUBSET S -> Nat] : IsSum(S, g, F)
<1> DEFINE Upto(n) == {u \in SUBSET S : Cardinality(u) <= n}
           Good(n, F) == \A u \in Upto(n) :
             F[u] = IF u = {} THEN 0 ELSE g[Member(u)] + F[u \ {Member(u)}]
           T == {n \in Nat : \E F \in [Upto(n) -> Nat] : Good(n, F)}
<1>0. \A u \in SUBSET S : IsFiniteSet(u) /\ Cardinality(u) \in Nat /\ Cardinality(u) <= Cardinality(S)
  BY FS_Subset, FS_CardinalityType
<1>1. \A u \in SUBSET S : u # {} =>
        /\ Member(u) \in S /\ u \ {Member(u)} \in SUBSET S
        /\ Cardinality(u \ {Member(u)}) = Cardinality(u) - 1
  BY <1>0, Members, FS_RemoveElement
<1>2. 0 \in T
  <2>1. \A u \in Upto(0) : u = {}
    BY <1>0, FS_EmptySet
  <2>2. [u \in Upto(0) |-> 0] \in [Upto(0) -> Nat]
    OBVIOUS
  <2>3. Good(0, [u \in Upto(0) |-> 0])
    BY <2>1
  <2>4. QED
    BY <2>2, <2>3
<1>3. ASSUME NEW n \in T PROVE n + 1 \in T
  <2>1. PICK F \in [Upto(n) -> Nat] : Good(n, F)
    OBVIOUS
  <2>2. n \in Nat
    OBVIOUS
  <2> DEFINE G == [u \in Upto(n + 1) |->
                     IF u = {} THEN 0 ELSE g[Member(u)] + F[u \ {Member(u)}]]
  <2>3. \A u \in Upto(n + 1) : u # {} => u \ {Member(u)} \in Upto(n)
    BY <1>0, <1>1, <2>2
  <2>4. G \in [Upto(n + 1) -> Nat]
    <3>1. ASSUME NEW u \in Upto(n + 1), u # {} PROVE g[Member(u)] + F[u \ {Member(u)}] \in Nat
      <4>1. F[u \ {Member(u)}] \in Nat
        BY <2>1, <2>3, <3>1
      <4>2. g[Member(u)] \in Nat
        BY <1>1, <3>1
      <4>3. QED
        BY <4>1, <4>2
    <3>2. QED
      BY <3>1
  <2>5. \A u \in Upto(n) : u \in Upto(n + 1) /\ G[u] = F[u]
    <3>1. \A u \in Upto(n) : u \in Upto(n + 1)
      BY <1>0, <2>2
    <3>2. \A u \in Upto(n) : G[u] = IF u = {} THEN 0 ELSE g[Member(u)] + F[u \ {Member(u)}]
      BY <3>1
    <3>3. QED
      BY <2>1, <3>1, <3>2
  <2>6. Good(n + 1, G)
    BY <2>3, <2>5
  <2>7. QED
    <3> HIDE DEF Good, Upto, G
    <3> QED
      BY <2>2, <2>4, <2>6
<1>4. T = Nat
  <2>1. T \in SUBSET Nat
    OBVIOUS
  <2> HIDE DEF T
  <2>2. QED
    BY <1>2, <1>3, <2>1, Induction
<1>5. Cardinality(S) \in T
  <2>1. Cardinality(S) \in Nat
    BY FS_CardinalityType
  <2> HIDE DEF T
  <2> QED
    BY <1>4, <2>1
<1>6. Upto(Cardinality(S)) = SUBSET S
  BY <1>0
<1>7. PICK F \in [SUBSET S -> Nat] : Good(Cardinality(S), F)
  BY <1>5, <1>6
<1>8. \A u \in SUBSET S : F[u] = IF u = {} THEN 0 ELSE g[Member(u)] + F[u \ {Member(u)}]
  BY <1>6, <1>7
<1>9. QED
  <2> HIDE DEF Upto, Good
  <2> QED
    BY <1>7, <1>8 DEF IsSum

\* A set that holds the empty set, and every set for which it holds that
\* without its chosen member, holds every subset.
LEMMA Subsets ==
  ASSUME NEW S, IsFiniteSet(S), NEW T, {} \in T,
         \A u \in SUBSET S : u # {} /\ u \ {Member(u)} \in T => u \in T
  PROVE  \A u \in SUBSET S : u \in T
<1> DEFINE N == {n \in Nat : \A u \in SUBSET S : Cardinality(u) = n => u \in T}
<1>0. \A u \in SUBSET S : IsFiniteSet(u) /\ Cardinality(u) \in Nat
  BY FS_Subset, FS_CardinalityType
<1>1. 0 \in N
  BY <1>0, FS_EmptySet
<1>2. ASSUME NEW n \in N PROVE n + 1 \in N
  <2>1. SUFFICES ASSUME NEW u \in SUBSET S, Cardinality(u) = n + 1 PROVE u \in T
    OBVIOUS
  <2>2. u # {} /\ n \in Nat
    <3>1. n \in Nat /\ n + 1 # 0
      OBVIOUS
    <3>2. Cardinality({}) = 0
      BY FS_EmptySet
    <3>3. QED
      BY <2>1, <3>1, <3>2
  <2>3. Member(u) \in u /\ u \ {Member(u)} \in SUBSET S
    BY <2>2, Members
  <2>4. Cardinality(u \ {Member(u)}) = n
    BY <1>0, <2>1, <2>2, <2>3, FS_RemoveElement
  <2>5. QED
    BY <2>2, <2>3, <2>4
<1>3. N = Nat
  <2>1. N \in SUBSET Nat
    OBVIOUS
  <2> HIDE DEF N
  <2>2. QED
    BY <1>1, <1>2, <2>1, Induction
<1>4. \A u \in SUBSET S : Cardinality(u) \in N
  <2> HIDE DEF N
  <2> QED
    BY <1>0, <1>3
<1>5. QED
  BY <1>4

LEMMA SumIsOne ==
  ASSUME NEW S, IsFiniteSet(S), NEW g, NEW F, IsSum(S, g, F), NEW G, IsSum(S, g, G)
  PROVE  F[S] = G[S]
<1> DEFINE T == {u \in SUBSET S : F[u] = G[u]}
<1>1. {} \in T
  BY DEF IsSum
<1>2. ASSUME NEW u \in SUBSET S, u # {}, u \ {Member(u)} \in T PROVE u \in T
  <2>1. F[u] = g[Member(u)] + F[u \ {Member(u)}]
    BY <1>2 DEF IsSum
  <2>2. G[u] = g[Member(u)] + G[u \ {Member(u)}]
    BY <1>2 DEF IsSum
  <2>3. QED
    BY <1>2, <2>1, <2>2
<1>3. \A u \in SUBSET S : u \in T
  <2> HIDE DEF T
  <2> QED
    BY <1>1, <1>2, Subsets
<1>4. QED
  BY <1>3

Sums(S, g) == CHOOSE F : F \in [SUBSET S -> Nat] /\ IsSum(S, g, F)
Sum(S, g) == Sums(S, g)[S]

LEMMA SumRecurs ==
  ASSUME NEW S, IsFiniteSet(S), NEW g \in [S -> Nat]
  PROVE  Sums(S, g) \in [SUBSET S -> Nat] /\ IsSum(S, g, Sums(S, g))
<1>1. \E F : F \in [SUBSET S -> Nat] /\ IsSum(S, g, F)
  BY SumExists
<1>2. QED
  BY <1>1 DEF Sums

\* Sums of functions that differ at one place.
LEMMA SumChanges ==
  ASSUME NEW S, IsFiniteSet(S), NEW f \in [S -> Nat], NEW g \in [S -> Nat], NEW x \in S,
         \A y \in S : y # x => f[y] = g[y]
  PROVE  Sum(S, f) \in Nat /\ Sum(S, g) \in Nat /\ Sum(S, g) + f[x] = Sum(S, f) + g[x]
<1>1. PICK F \in [SUBSET S -> Nat] : F = Sums(S, f) /\ IsSum(S, f, F)
  BY SumRecurs
<1>2. PICK G \in [SUBSET S -> Nat] : G = Sums(S, g) /\ IsSum(S, g, G)
  BY SumRecurs
<1> DEFINE T == {u \in SUBSET S : IF x \in u THEN G[u] + f[x] = F[u] + g[x] ELSE G[u] = F[u]}
<1>3. {} \in T
  BY <1>1, <1>2 DEF IsSum
<1>4. ASSUME NEW u \in SUBSET S, u # {}, u \ {Member(u)} \in T PROVE u \in T
  <2>1. PICK m \in S : m = Member(u) /\ m \in u
    BY <1>4, Members
  <2>2. F[u] = f[m] + F[u \ {m}] /\ G[u] = g[m] + G[u \ {m}]
    BY <1>1, <1>2, <1>4, <2>1 DEF IsSum
  <2>3. /\ F[u \ {m}] \in Nat /\ G[u \ {m}] \in Nat /\ f[m] \in Nat /\ g[m] \in Nat
        /\ f[x] \in Nat /\ g[x] \in Nat /\ u \ {m} \in T
    BY <1>4, <2>1
  <2>4. CASE m = x
    <3>1. G[u \ {m}] = F[u \ {m}]
      BY <2>3, <2>4
    <3>2. QED
      BY <2>1, <2>2, <2>3, <2>4, <3>1
  <2>5. CASE m # x
    <3>1. f[m] = g[m]
      BY <2>1, <2>5
    <3>2. x \in u <=> x \in u \ {m}
      BY <2>5
    <3>3. CASE x \in u
      BY <2>2, <2>3, <3>1, <3>2, <3>3
    <3>4. CASE x \notin u
      BY <2>2, <2>3, <3>1, <3>2, <3>4
    <3>5. QED
      BY <3>3, <3>4
  <2>6. QED
    BY <2>4, <2>5
<1>5. \A u \in SUBSET S : u \in T
  <2> HIDE DEF T
  <2> QED
    BY <1>3, <1>4, Subsets
<1>6. S \in T
  BY <1>5
<1>7. QED
  BY <1>1, <1>2, <1>6 DEF Sum

LEMMA SumOfZeros ==
  ASSUME NEW S, IsFiniteSet(S), NEW g \in [S -> Nat], \A x \in S : g[x] = 0
  PROVE  Sum(S, g) = 0
<1>1. PICK G \in [SUBSET S -> Nat] : G = Sums(S, g) /\ IsSum(S, g, G)
  BY SumRecurs
<1> DEFINE T == {u \in SUBSET S : G[u] = 0}
<1>3. {} \in T
  BY <1>1 DEF IsSum
<1>4. ASSUME NEW u \in SUBSET S, u # {}, u \ {Member(u)} \in T PROVE u \in T
  <2>1. Member(u) \in S
    BY <1>4, Members
  <2>2. G[u] = g[Member(u)] + G[u \ {Member(u)}]
    BY <1>1, <1>4 DEF IsSum
  <2>3. QED
    BY <1>4, <2>1, <2>2
<1>5. \A u \in SUBSET S : u \in T
  <2> HIDE DEF T
  <2> QED
    BY <1>3, <1>4, Subsets
<1>6. QED
  BY <1>1, <1>5 DEF Sum

-----------------------------------------------------------------------------
(* Counts of tokens: totals are sums                                       *)

Counters(s) == {c \in Counts!Counter : c[2] = s}

Leftover(s) ==
  Counts!MapThenSumSet(LAMBDA c : last_prompt_tokens[c], {c \in Counts!Counter : c[2] = s})

\* What a stage's counts, recorded or sent, are for the runs.
PerRun(count, s) == [r \in Run |-> count[r][s]]
\* What the stage's counters hold.
On(counter, s) == [c \in Counters(s) |-> counter[c]]

LEMMA TotalIsSum ==
  ASSUME IsFiniteSet(Run), NEW s, NEW count, \A r \in Run : count[r][s] \in Nat
  PROVE  Counts!Total(count, s) = Sum(Run, PerRun(count, s))
<1> DEFINE g == PerRun(count, s)
           P(G) == G = [u \in SUBSET Run |->
                         IF u = {} THEN 0
                         ELSE count[CHOOSE x \in u : TRUE][s] + G[u \ {CHOOSE x \in u : TRUE}]]
<1>1. g \in [Run -> Nat] /\ \A r \in Run : g[r] = count[r][s]
  BY DEF PerRun
<1> HIDE DEF g
<1>2. PICK H \in [SUBSET Run -> Nat] : H = Sums(Run, g) /\ IsSum(Run, g, H)
  BY <1>1, SumRecurs
<1>3. \A u \in SUBSET Run : u # {} => g[Member(u)] = count[CHOOSE x \in u : TRUE][s]
  BY <1>1, Members DEF Member
<1>4. ASSUME NEW G PROVE P(G) <=> IsSum(Run, g, G)
  BY <1>3 DEF IsSum, Member
<1>5. PICK F : Counts!Total(count, s) = F[Run] /\ F = CHOOSE G : P(G)
  BY DEF Counts!Total, Counts!MapThenSumSet, Counts!MapThenFoldSet
<1>6. P(H)
  BY <1>2, <1>4
<1>7. P(F)
  <2> HIDE DEF P
  <2> QED
    BY <1>5, <1>6
<1>8. IsSum(Run, g, F)
  BY <1>4, <1>7
<1>9. F[Run] = H[Run]
  BY <1>2, <1>8, SumIsOne
<1>10. QED
  BY <1>2, <1>5, <1>9 DEF Sum, g

LEMMA LeftoverIsSum ==
  ASSUME NEW s, IsFiniteSet(Counters(s)), \A c \in Counters(s) : last_prompt_tokens[c] \in Nat
  PROVE  Leftover(s) = Sum(Counters(s), On(last_prompt_tokens, s))
<1> DEFINE g == On(last_prompt_tokens, s)
           P(G) == G = [u \in SUBSET Counters(s) |->
                         IF u = {} THEN 0
                         ELSE last_prompt_tokens[CHOOSE x \in u : TRUE] + G[u \ {CHOOSE x \in u : TRUE}]]
<1>1. g \in [Counters(s) -> Nat] /\ \A c \in Counters(s) : g[c] = last_prompt_tokens[c]
  BY DEF On
<1> HIDE DEF g
<1>2. PICK H \in [SUBSET Counters(s) -> Nat] : H = Sums(Counters(s), g) /\ IsSum(Counters(s), g, H)
  BY <1>1, SumRecurs
<1>3. \A u \in SUBSET Counters(s) : u # {} => g[Member(u)] = last_prompt_tokens[CHOOSE x \in u : TRUE]
  BY <1>1, Members DEF Member
<1>4. ASSUME NEW G PROVE P(G) <=> IsSum(Counters(s), g, G)
  BY <1>3 DEF IsSum, Member
<1>5. PICK F : Leftover(s) = F[Counters(s)] /\ F = CHOOSE G : P(G)
  BY DEF Leftover, Counters, Counts!MapThenSumSet, Counts!MapThenFoldSet
<1>6. P(H)
  BY <1>2, <1>4
<1>7. P(F)
  <2> HIDE DEF P
  <2> QED
    BY <1>5, <1>6
<1>8. IsSum(Counters(s), g, F)
  BY <1>4, <1>7
<1>9. F[Counters(s)] = H[Counters(s)]
  BY <1>2, <1>8, SumIsOne
<1>10. QED
  BY <1>2, <1>5, <1>9 DEF Sum, g

LEMMA CountersAreFinite ==
  ASSUME IsFiniteSet(Run), NEW s \in Counts!Stage
  PROVE  IsFiniteSet(Counters(s))
<1> DEFINE D == (Run \cup {Shared}) \X Counts!Engine
           f == [d \in D |-> <<d[1], s, d[2]>>]
<1>1. IsFiniteSet(Run \cup {Shared}) /\ IsFiniteSet(Counts!Engine)
  <2>1. IsFiniteSet({Shared}) /\ IsFiniteSet({"postgres"}) /\ IsFiniteSet({"mongo"})
    BY FS_Singleton
  <2>2. Counts!Engine = {"postgres"} \cup {"mongo"}
    BY DEF Counts!Engine
  <2>3. QED
    BY <2>1, <2>2, FS_Union
<1>2. IsFiniteSet(D)
  BY <1>1, FS_Product
<1>3. f \in [D -> Counters(s)]
  BY DEF Counters, Counts!Counter
<1>4. \A c \in Counters(s) : \E d \in D : f[d] = c
  <2>1. TAKE c \in Counters(s)
  <2>2. PICK o \in Run \cup {Shared}, e \in Counts!Engine : c = <<o, s, e>>
    BY DEF Counters, Counts!Counter
  <2>3. <<o, e>> \in D /\ f[<<o, e>>] = c
    BY <2>2
  <2>4. QED
    BY <2>3
<1>5. f \in Surjection(D, Counters(s))
  <2> HIDE DEF f, D
  <2> QED
    BY <1>3, <1>4 DEF Surjection
<1>6. QED
  <2> HIDE DEF f, D
  <2> QED
    BY <1>2, <1>5, FS_Surjection

-----------------------------------------------------------------------------
(* Counts of tokens: what an adapter reads, it resets                      *)

IsCounter(counter) == counter \in [Counts!Counter -> Nat]

CountedTypes ==
  /\ Counts!TypeOK
  /\ \A r \in Run : pc[r] \in {"ready", "awaiting"} => calls[r] < MaxCalls
  /\ \A r \in Run : pc[r] = "idle" => calls[r] = 0

LEMMA CountsConstants ==
  /\ IsFiniteSet(Run) /\ Shared \notin Run /\ MaxCalls \in Nat \ {0}
  /\ \A r \in Run : Tokens[r] \in Nat /\ Tokens[r] > 0
<1>1. Counts!Parameters
  BY StagesAssumption
<1>2. IsFiniteSet(Run) /\ Shared \notin Run /\ MaxCalls \in Nat \ {0} /\ Tokens \in [Run -> Nat \ {0}]
  BY <1>1, Zenon DEF Counts!Parameters, Counts!IsFiniteSet, IsFiniteSet
<1>3. \A r \in Run : Tokens[r] \in Nat \ {0}
  BY <1>2
<1>4. \A n \in Nat \ {0} : n \in Nat /\ n > 0
  OBVIOUS
<1>5. \A r \in Run : Tokens[r] \in Nat /\ Tokens[r] > 0
  BY <1>3, <1>4
<1>6. QED
  BY <1>2, <1>5

LEMMA CountsFacts ==
  ASSUME Counts!TypeOK
  PROVE  /\ IsCounter(last_prompt_tokens)
         /\ \A r \in Run :
              /\ calling[r] \in Counts!Stage /\ engines[r] \in Counts!Engine
              /\ Counts!Owner(r) \in Run \cup {Shared}
              /\ Counts!At(r) \in Counts!Counter
              /\ Counts!At(r)[1] = Counts!Owner(r) /\ Counts!At(r)[2] = calling[r]
              /\ stage_tokens[r] \in [Counts!Stage -> Nat] /\ sent[r] \in [Counts!Stage -> Nat]
<1>1. last_prompt_tokens \in [Counts!Counter -> Nat]
  <2>1. {0} \cup {Tokens[r] : r \in Run} \subseteq Nat
    BY CountsConstants
  <2>2. last_prompt_tokens \in [Counts!Counter -> {0} \cup {Tokens[r] : r \in Run}]
    BY DEF Counts!TypeOK
  <2>3. QED
    BY <2>1, <2>2
<1>2. ASSUME NEW r \in Run
      PROVE  /\ calling[r] \in Counts!Stage /\ engines[r] \in Counts!Engine
             /\ Counts!Owner(r) \in Run \cup {Shared}
             /\ Counts!At(r) \in Counts!Counter
             /\ Counts!At(r)[1] = Counts!Owner(r) /\ Counts!At(r)[2] = calling[r]
             /\ stage_tokens[r] \in [Counts!Stage -> Nat] /\ sent[r] \in [Counts!Stage -> Nat]
  <2>1. /\ calling[r] \in Counts!Stage /\ engines[r] \in Counts!Engine
        /\ stage_tokens[r] \in [Counts!Stage -> Nat] /\ sent[r] \in [Counts!Stage -> Nat]
    BY DEF Counts!TypeOK
  <2>2. Counts!Owner(r) \in Run \cup {Shared}
    BY DEF Counts!Owner
  <2>3. QED
    BY <2>1, <2>2 DEF Counts!At, Counts!Counter, Counts!Engine
<1>3. QED
  BY <1>1, <1>2 DEF IsCounter

\* The two counters of a run's validation.
Pair(r, e) == <<Counts!Owner(r), "query_validation", e>>

LEMMA ReadsLarger ==
  ASSUME Counts!TypeOK, NEW r \in Run, NEW counter, IsCounter(counter)
  PROVE  /\ Counts!Read(r, counter) \in Nat
         /\ calling[r] # "query_validation" => Counts!Read(r, counter) = counter[Counts!At(r)]
         /\ calling[r] = "query_validation" =>
              /\ Pair(r, "postgres") \in Counts!Counter /\ Pair(r, "mongo") \in Counts!Counter
              /\ Pair(r, "postgres") # Pair(r, "mongo")
              /\ Counts!At(r) \in {Pair(r, "postgres"), Pair(r, "mongo")}
              /\ Counts!Read(r, counter) \in {counter[Pair(r, "postgres")], counter[Pair(r, "mongo")]}
              /\ Counts!Read(r, counter) >= counter[Pair(r, "postgres")]
              /\ Counts!Read(r, counter) >= counter[Pair(r, "mongo")]
<1>1. CASE calling[r] # "query_validation"
  <2>1. Counts!Read(r, counter) = counter[Counts!At(r)]
    BY <1>1 DEF Counts!Read
  <2>2. QED
    BY <1>1, <2>1, CountsFacts DEF IsCounter
<1>2. CASE calling[r] = "query_validation"
  <2>1. Counts!Owner(r) \in Run \cup {Shared}
    BY CountsFacts
  <2>2. /\ Pair(r, "postgres") \in Counts!Counter /\ Pair(r, "mongo") \in Counts!Counter
        /\ Pair(r, "postgres") # Pair(r, "mongo")
    BY <1>2, <2>1 DEF Pair, Counts!Counter, Counts!Engine, Counts!Stage
  <2>3. Counts!At(r) \in {Pair(r, "postgres"), Pair(r, "mongo")}
    <3>1. engines[r] \in {"postgres", "mongo"}
      BY CountsFacts DEF Counts!Engine
    <3>2. QED
      BY <1>2, <3>1 DEF Pair, Counts!At
  <2> DEFINE a == counter[Pair(r, "postgres")]
             b == counter[Pair(r, "mongo")]
  <2>4. a \in Nat /\ b \in Nat
    BY <2>2 DEF IsCounter
  <2>5. {counter[<<Counts!Owner(r), calling[r], e>>] : e \in Counts!Engine} = {a, b}
    BY <1>2 DEF Counts!Engine, Pair
  <2>6. Counts!Read(r, counter) = Counts!Max({a, b})
    BY <1>2, <2>5 DEF Counts!Read
  <2> HIDE DEF a, b
  <2>7. \E x \in {a, b} : \A y \in {a, b} : x >= y
    BY <2>4
  <2>8. Counts!Max({a, b}) \in {a, b} /\ \A y \in {a, b} : Counts!Max({a, b}) >= y
    BY <2>7 DEF Counts!Max
  <2>9. QED
    BY <1>2, <2>2, <2>3, <2>4, <2>6, <2>8 DEF a, b
<1>3. QED
  BY <1>1, <1>2

\* What a reset does to each counter.
LEMMA Resets ==
  ASSUME Counts!TypeOK, NEW r \in Run, NEW counter, IsCounter(counter)
  PROVE  /\ IsCounter(Counts!Reset(r, counter))
         /\ \A c \in Counts!Counter : Counts!Reset(r, counter)[c] =
              IF \/ calling[r] = "query_validation" /\ c \in {Pair(r, "postgres"), Pair(r, "mongo")}
                 \/ calling[r] \notin {"query_validation", "feedback_guardrail"} /\ c = Counts!At(r)
              THEN 0 ELSE counter[c]
<1>1. CASE calling[r] = "query_validation"
  <2>1. Counts!Reset(r, counter) =
          [c \in Counts!Counter |-> IF c[1] = Counts!Owner(r) /\ c[2] = calling[r] THEN 0 ELSE counter[c]]
    BY <1>1 DEF Counts!Reset
  <2>2. ASSUME NEW c \in Counts!Counter
        PROVE  c[1] = Counts!Owner(r) /\ c[2] = calling[r]
               <=> c \in {Pair(r, "postgres"), Pair(r, "mongo")}
    <3>1. PICK o \in Run \cup {Shared}, s \in Counts!Stage, e \in {"postgres", "mongo"} : c = <<o, s, e>>
      BY DEF Counts!Counter, Counts!Engine
    <3>2. QED
      BY <1>1, <3>1 DEF Pair
  <2>3. QED
    BY <1>1, <2>1, <2>2 DEF IsCounter
<1>2. CASE calling[r] = "feedback_guardrail"
  BY <1>2 DEF Counts!Reset, IsCounter
<1>3. CASE calling[r] \notin {"query_validation", "feedback_guardrail"}
  <2>1. Counts!Reset(r, counter) = [counter EXCEPT ![Counts!At(r)] = 0]
    BY <1>3 DEF Counts!Reset
  <2>2. Counts!At(r) \in Counts!Counter
    BY CountsFacts
  <2>3. QED
    BY <1>3, <2>1, <2>2 DEF IsCounter
<1>4. QED
  BY <1>1, <1>2, <1>3

\* One counter of a stage is set.
LEMMA SumSet ==
  ASSUME NEW counter, IsCounter(counter), NEW other, IsCounter(other), NEW s \in Counts!Stage,
         NEW c \in Counters(s), \A d \in Counters(s) : d # c => other[d] = counter[d]
  PROVE  /\ Sum(Counters(s), On(counter, s)) \in Nat /\ Sum(Counters(s), On(other, s)) \in Nat
         /\ counter[c] \in Nat /\ other[c] \in Nat
         /\ Sum(Counters(s), On(other, s)) + counter[c] = Sum(Counters(s), On(counter, s)) + other[c]
<1>1. IsFiniteSet(Counters(s))
  BY CountsConstants, CountersAreFinite
<1>2. /\ On(counter, s) \in [Counters(s) -> Nat] /\ On(other, s) \in [Counters(s) -> Nat]
      /\ \A d \in Counters(s) : On(counter, s)[d] = counter[d] /\ On(other, s)[d] = other[d]
      /\ counter[c] \in Nat /\ other[c] \in Nat
  BY DEF On, IsCounter, Counters
<1>3. \A d \in Counters(s) : d # c => On(counter, s)[d] = On(other, s)[d]
  BY <1>2
<1>4. /\ Sum(Counters(s), On(counter, s)) \in Nat /\ Sum(Counters(s), On(other, s)) \in Nat
      /\ Sum(Counters(s), On(other, s)) + On(counter, s)[c] = Sum(Counters(s), On(counter, s)) + On(other, s)[c]
  BY <1>1, <1>2, <1>3, SumChanges
<1>5. QED
  BY <1>2, <1>4

\* What is read is lost by the counters.
LEMMA ReadIsReset ==
  ASSUME Counts!TypeOK, NEW r \in Run, NEW counter, IsCounter(counter),
         calling[r] # "feedback_guardrail"
  PROVE  LET s == calling[r] IN
         /\ Sum(Counters(s), On(Counts!Reset(r, counter), s)) \in Nat
         /\ Sum(Counters(s), On(counter, s)) \in Nat
         /\ Sum(Counters(s), On(Counts!Reset(r, counter), s)) + Counts!Read(r, counter)
              <= Sum(Counters(s), On(counter, s))
<1> DEFINE reset == Counts!Reset(r, counter)
<1>0. PICK s \in Counts!Stage : s = calling[r]
  BY CountsFacts
<1>1. IsCounter(reset)
  BY Resets
<1>2. CASE s # "query_validation"
  <2>1. Counts!At(r) \in Counters(s)
    BY <1>0, CountsFacts DEF Counters
  <2>2. \A c \in Counters(s) : reset[c] = IF c = Counts!At(r) THEN 0 ELSE counter[c]
    BY <1>0, <1>2, Resets DEF Counters
  <2>3. Counts!Read(r, counter) = counter[Counts!At(r)]
    BY <1>0, <1>2, ReadsLarger
  <2> HIDE DEF reset
  <2>4. /\ Sum(Counters(s), On(counter, s)) \in Nat /\ Sum(Counters(s), On(reset, s)) \in Nat
        /\ counter[Counts!At(r)] \in Nat
        /\ Sum(Counters(s), On(reset, s)) + counter[Counts!At(r)] = Sum(Counters(s), On(counter, s)) + 0
    BY <1>1, <2>1, <2>2, SumSet
  <2>5. QED
    BY <1>0, <2>3, <2>4 DEF reset
<1>3. CASE s = "query_validation"
  <2> DEFINE p == Pair(r, "postgres")
             m == Pair(r, "mongo")
             mid == [counter EXCEPT ![p] = 0]
  <2>1. p \in Counters(s) /\ m \in Counters(s) /\ p # m
    BY <1>0, <1>3, ReadsLarger DEF Counters, Pair
  <2>2. \A c \in Counters(s) : reset[c] = IF c \in {p, m} THEN 0 ELSE counter[c]
    <3>1. calling[r] = "query_validation" /\ \A c \in Counters(s) : c \in Counts!Counter
      BY <1>0, <1>3 DEF Counters
    <3>2. \A c \in Counts!Counter : reset[c] = IF c \in {p, m} THEN 0 ELSE counter[c]
      <4>1. \A c \in Counts!Counter : c \in {p, m} => reset[c] = 0
        BY <3>1, Resets
      <4>2. \A c \in Counts!Counter : c \notin {p, m} => reset[c] = counter[c]
        BY <3>1, Resets
      <4>3. QED
        BY <4>1, <4>2
    <3>3. QED
      BY <3>1, <3>2
  <2>3. \A c \in Counters(s) : mid[c] = IF c = p THEN 0 ELSE counter[c]
    BY <2>1 DEF IsCounter, Counters
  <2>4. IsCounter(mid)
    BY DEF IsCounter
  <2>5. Counts!Read(r, counter) \in {counter[p], counter[m]}
    BY <1>0, <1>3, ReadsLarger
  <2> HIDE DEF reset, p, m, mid
  <2>6. /\ Sum(Counters(s), On(counter, s)) \in Nat /\ Sum(Counters(s), On(mid, s)) \in Nat
        /\ counter[p] \in Nat
        /\ Sum(Counters(s), On(mid, s)) + counter[p] = Sum(Counters(s), On(counter, s)) + 0
    BY <2>1, <2>3, <2>4, SumSet
  <2>7. mid[m] = counter[m] /\ reset[m] = 0 /\ \A c \in Counters(s) : c # m => reset[c] = mid[c]
    BY <2>1, <2>2, <2>3
  <2>8. /\ Sum(Counters(s), On(reset, s)) \in Nat /\ counter[m] \in Nat
        /\ Sum(Counters(s), On(reset, s)) + counter[m] = Sum(Counters(s), On(mid, s)) + 0
    BY <1>1, <2>1, <2>4, <2>7, SumSet
  <2>9. QED
    BY <1>0, <2>5, <2>6, <2>8 DEF reset
<1>4. QED
  BY <1>2, <1>3

-----------------------------------------------------------------------------
(* Counts of tokens: the steps of a run                                    *)

Move(r) ==
  Counts!Arrive(r) \/ Counts!AnswerAtOnce(r) \/ Counts!Ask(r) \/ Counts!Answer(r) \/ Counts!CutOff(r)

\* What a call's end does, on counters from which it reads.
LEMMA Recording ==
  ASSUME CountedTypes, NEW r \in Run, pc[r] \in {"ready", "awaiting"},
         NEW counter \in [Counts!Counter -> {0} \cup {Tokens[o] : o \in Run}],
         Counts!Record(r, counter)
  PROVE  /\ pc' \in [Run -> {"idle", "ready", "awaiting", "over"}]
         /\ pc'[r] \in {"ready", "over"} /\ \A o \in Run : o # r => pc'[o] = pc[o]
         /\ calling' \in [Run -> Counts!Stage] /\ \A o \in Run : o # r => calling'[o] = calling[o]
         /\ calls' \in [Run -> 0 .. MaxCalls] /\ \A o \in Run : o # r => calls'[o] = calls[o]
         /\ pc'[r] = "ready" => calls'[r] < MaxCalls
         /\ last_prompt_tokens' = Counts!Reset(r, counter)
         /\ last_prompt_tokens' \in [Counts!Counter -> {0} \cup {Tokens[o] : o \in Run}]
         /\ stage_tokens' \in [Run -> [Counts!Stage -> Nat]]
         /\ \A o \in Run, s \in Counts!Stage : stage_tokens'[o][s] =
              stage_tokens[o][s] + IF o = r /\ s = calling[r] THEN Counts!Read(r, counter) ELSE 0
<1>0. /\ Counts!TypeOK /\ calls[r] < MaxCalls /\ MaxCalls \in Nat
  BY CountsConstants DEF CountedTypes
<1>1. IsCounter(counter)
  <2>1. {0} \cup {Tokens[o] : o \in Run} \subseteq Nat
    BY CountsConstants
  <2>2. QED
    BY <2>1 DEF IsCounter
<1>2. calls' \in [Run -> 0 .. MaxCalls] /\ calls'[r] = calls[r] + 1 /\ \A o \in Run : o # r => calls'[o] = calls[o]
  <2>1. calls \in [Run -> 0 .. MaxCalls] /\ calls' = [calls EXCEPT ![r] = @ + 1]
    BY <1>0 DEF Counts!TypeOK, Counts!Record, Counts!GoOn
  <2>2. calls[r] + 1 \in 0 .. MaxCalls
    BY <1>0, <2>1
  <2>3. QED
    BY <2>1, <2>2
<1>3. /\ pc' \in [Run -> {"idle", "ready", "awaiting", "over"}]
      /\ pc'[r] \in {"ready", "over"} /\ \A o \in Run : o # r => pc'[o] = pc[o]
      /\ calling' \in [Run -> Counts!Stage] /\ \A o \in Run : o # r => calling'[o] = calling[o]
      /\ pc'[r] = "ready" => calls'[r] < MaxCalls
  <2>1. /\ pc \in [Run -> {"idle", "ready", "awaiting", "over"}] /\ calling \in [Run -> Counts!Stage]
    BY <1>0 DEF Counts!TypeOK
  <2>2. \/ /\ calls[r] + 1 < MaxCalls
           /\ \E s \in Counts!After[calling[r]] : calling' = [calling EXCEPT ![r] = s]
           /\ pc' = [pc EXCEPT ![r] = "ready"]
        \/ pc' = [pc EXCEPT ![r] = "over"] /\ calling' = calling
    BY DEF Counts!Record, Counts!GoOn
  <2>3. \A s \in Counts!After[calling[r]] : s \in Counts!Stage
    <3>1. calling[r] \in Counts!Stage
      BY <2>1
    <3>2. QED
      BY <3>1 DEF Counts!After, Counts!Stage
  <2>4. CASE /\ calls[r] + 1 < MaxCalls
             /\ \E s \in Counts!After[calling[r]] : calling' = [calling EXCEPT ![r] = s]
             /\ pc' = [pc EXCEPT ![r] = "ready"]
    BY <1>2, <2>1, <2>3, <2>4
  <2>5. CASE pc' = [pc EXCEPT ![r] = "over"] /\ calling' = calling
    BY <2>1, <2>5
  <2>6. QED
    BY <2>2, <2>4, <2>5
<1>4. last_prompt_tokens' = Counts!Reset(r, counter)
  BY DEF Counts!Record
<1>5. last_prompt_tokens' \in [Counts!Counter -> {0} \cup {Tokens[o] : o \in Run}]
  <2>1. IsCounter(Counts!Reset(r, counter)) /\ \A c \in Counts!Counter : Counts!Reset(r, counter)[c] \in {0, counter[c]}
    BY <1>0, <1>1, Resets
  <2>2. QED
    BY <1>4, <2>1 DEF IsCounter
<1>6. /\ stage_tokens' \in [Run -> [Counts!Stage -> Nat]]
      /\ \A o \in Run, s \in Counts!Stage : stage_tokens'[o][s] =
              stage_tokens[o][s] + IF o = r /\ s = calling[r] THEN Counts!Read(r, counter) ELSE 0
  <2>1. PICK read \in Nat : read = Counts!Read(r, counter)
    BY <1>0, <1>1, ReadsLarger
  <2>2. stage_tokens \in [Run -> [Counts!Stage -> Nat]] /\ calling[r] \in Counts!Stage
    BY <1>0 DEF Counts!TypeOK
  <2>3. stage_tokens' = [stage_tokens EXCEPT ![r][calling[r]] = @ + read]
    BY <2>1 DEF Counts!Record
  <2>4. QED
    BY <2>1, <2>2, <2>3
<1>7. QED
  BY <1>2, <1>3, <1>4, <1>5, <1>6

LEMMA Clearing ==
  ASSUME Counts!TypeOK, NEW r \in Run
  PROVE  /\ Counts!Cleared(r) \in [Counts!Counter -> {0} \cup {Tokens[o] : o \in Run}]
         /\ \A c \in Counts!Counter :
              Counts!Cleared(r)[c] = IF c = Counts!At(r) THEN 0 ELSE last_prompt_tokens[c]
<1>1. last_prompt_tokens \in [Counts!Counter -> {0} \cup {Tokens[o] : o \in Run}]
  BY DEF Counts!TypeOK
<1>2. QED
  BY <1>1, CountsFacts DEF Counts!Cleared

\* The end of a call reads from counters of which it has cleared one, or none.
LEMMA Ends ==
  ASSUME CountedTypes, NEW r \in Run, Counts!AnswerAtOnce(r) \/ Counts!Answer(r)
  PROVE  \E counter \in [Counts!Counter -> {0} \cup {Tokens[o] : o \in Run}] :
           /\ pc[r] \in {"ready", "awaiting"} /\ Counts!Record(r, counter)
           /\ UNCHANGED <<engines, own, sent, alone, cut>>
           /\ pc[r] = "ready" => counter = Counts!Cleared(r)
           /\ pc[r] = "awaiting" => counter = last_prompt_tokens
<1>1. Counts!TypeOK
  BY DEF CountedTypes
<1>2. CASE Counts!AnswerAtOnce(r)
  BY <1>1, <1>2, Clearing DEF Counts!AnswerAtOnce, Counts!plan
<1>3. CASE Counts!Answer(r)
  BY <1>1, <1>3 DEF Counts!Answer, Counts!plan, Counts!TypeOK
<1>4. QED
  BY <1>2, <1>3

LEMMA CountedInit == Counts!Init => CountedTypes
<1> SUFFICES ASSUME Counts!Init PROVE CountedTypes
  OBVIOUS
<1>1. last_prompt_tokens \in [Counts!Counter -> {0} \cup {Tokens[r] : r \in Run}]
  BY DEF Counts!Init
<1>2. calls \in [Run -> 0 .. MaxCalls] /\ \A r \in Run : calls[r] = 0
  BY CountsConstants DEF Counts!Init
<1>3. stage_tokens \in [Run -> [Counts!Stage -> Nat]] /\ sent \in [Run -> [Counts!Stage -> Nat]]
  BY DEF Counts!Init
<1>4. pc \in [Run -> {"idle", "ready", "awaiting", "over"}] /\ calling \in [Run -> Counts!Stage]
      /\ \A r \in Run : pc[r] = "idle"
  BY DEF Counts!Init, Counts!Stage
<1>5. QED
  BY <1>1, <1>2, <1>3, <1>4 DEF Counts!Init, CountedTypes, Counts!TypeOK

LEMMA CountedStep ==
  ASSUME CountedTypes, NEW r \in Run, Move(r)
  PROVE  /\ CountedTypes'
         /\ UNCHANGED <<engines, own>>
         /\ \A o \in Run : o # r => /\ pc'[o] = pc[o] /\ calling'[o] = calling[o]
                                    /\ Counts!Owner(o)' = Counts!Owner(o) /\ Counts!At(o)' = Counts!At(o)
<1>0. Counts!TypeOK
  BY DEF CountedTypes
<1>1. SUFFICES /\ pc' \in [Run -> {"idle", "ready", "awaiting", "over"}]
               /\ calling' \in [Run -> Counts!Stage] /\ calls' \in [Run -> 0 .. MaxCalls]
               /\ last_prompt_tokens' \in [Counts!Counter -> {0} \cup {Tokens[o] : o \in Run}]
               /\ stage_tokens' \in [Run -> [Counts!Stage -> Nat]] /\ sent' \in [Run -> [Counts!Stage -> Nat]]
               /\ alone' \subseteq Run /\ cut' \subseteq Run
               /\ UNCHANGED <<engines, own>>
               /\ \A o \in Run : o # r => pc'[o] = pc[o] /\ calling'[o] = calling[o] /\ calls'[o] = calls[o]
               /\ pc'[r] \in {"ready", "awaiting"} => calls'[r] < MaxCalls
               /\ pc'[r] # "idle"
  <2>1. engines' = engines /\ own' = own /\ engines \in [Run -> Counts!Engine] /\ own \in [Run -> BOOLEAN]
    BY <1>0, <1>1 DEF Counts!TypeOK
  <2>2. Counts!TypeOK'
    BY <1>1, <2>1 DEF Counts!TypeOK
  <2>3. CountedTypes'
    BY <1>1, <2>2 DEF CountedTypes
  <2>4. ASSUME NEW o \in Run, o # r
        PROVE  /\ pc'[o] = pc[o] /\ calling'[o] = calling[o]
               /\ Counts!Owner(o)' = Counts!Owner(o) /\ Counts!At(o)' = Counts!At(o)
    <3>1. calling'[o] = calling[o] /\ own'[o] = own[o] /\ engines'[o] = engines[o]
      BY <1>1, <2>1, <2>4
    <3>2. Counts!Owner(o)' = Counts!Owner(o)
      BY <3>1 DEF Counts!Owner
    <3>3. QED
      BY <1>1, <2>4, <3>1, <3>2 DEF Counts!At
  <2>5. QED
    BY <1>1, <2>3, <2>4
<1>2. /\ pc \in [Run -> {"idle", "ready", "awaiting", "over"}]
      /\ calling \in [Run -> Counts!Stage] /\ calls \in [Run -> 0 .. MaxCalls]
      /\ last_prompt_tokens \in [Counts!Counter -> {0} \cup {Tokens[o] : o \in Run}]
      /\ stage_tokens \in [Run -> [Counts!Stage -> Nat]] /\ sent \in [Run -> [Counts!Stage -> Nat]]
      /\ alone \subseteq Run /\ cut \subseteq Run
      /\ MaxCalls \in Nat \ {0} /\ Tokens[r] \in Nat
      /\ pc[r] \in {"ready", "awaiting"} => calls[r] < MaxCalls
      /\ pc[r] = "idle" => calls[r] = 0
  BY <1>0, CountsConstants DEF CountedTypes, Counts!TypeOK
<1>3. CASE Counts!Arrive(r)
  <2>1. PICK s \in {"feedback_guardrail", "question_guardrail"} : calling' = [calling EXCEPT ![r] = s]
    BY <1>3 DEF Counts!Arrive
  <2>2. s \in Counts!Stage
    BY DEF Counts!Stage
  <2>3. alone' \subseteq Run
    BY <1>2, <1>3 DEF Counts!Arrive
  <2>4. QED
    BY <1>2, <1>3, <2>1, <2>2, <2>3 DEF Counts!Arrive, Counts!plan
<1>4. CASE Counts!AnswerAtOnce(r) \/ Counts!Answer(r)
  <2>1. PICK counter \in [Counts!Counter -> {0} \cup {Tokens[o] : o \in Run}] :
           /\ pc[r] \in {"ready", "awaiting"} /\ Counts!Record(r, counter)
           /\ UNCHANGED <<engines, own, sent, alone, cut>>
    BY <1>4, Ends
  <2>2. QED
    BY <1>2, <2>1, Recording
<1>5. CASE Counts!Ask(r)
  <2>1. Counts!At(r) \in Counts!Counter /\ calling[r] \in Counts!Stage
    BY <1>0, CountsFacts
  <2>2. last_prompt_tokens' = [last_prompt_tokens EXCEPT ![Counts!At(r)] = Tokens[r]]
    BY <1>5 DEF Counts!Ask
  <2>3. sent' = [sent EXCEPT ![r][calling[r]] = @ + Tokens[r]]
    BY <1>5 DEF Counts!Ask
  <2>4. sent' \in [Run -> [Counts!Stage -> Nat]]
    BY <1>2, <2>1, <2>3
  <2>5. QED
    BY <1>2, <1>5, <2>1, <2>2, <2>4 DEF Counts!Ask, Counts!plan
<1>6. CASE Counts!CutOff(r)
  BY <1>2, <1>6 DEF Counts!CutOff, Counts!plan
<1>7. QED
  BY <1>3, <1>4, <1>5, <1>6 DEF Move

-----------------------------------------------------------------------------
(* Counts of tokens: no prompt is counted twice                            *)

Checked == Counts!Stage \ {"feedback_guardrail"}

NoneTwice ==
  \A s \in Checked :
    Sum(Run, PerRun(stage_tokens, s)) + Sum(Counters(s), On(last_prompt_tokens, s))
      <= Sum(Run, PerRun(sent, s))

\* Totals of counts that differ for one run.
LEMMA TotalChanges ==
  ASSUME NEW s, NEW r \in Run, NEW before, NEW after,
         \A o \in Run : before[o][s] \in Nat /\ after[o][s] \in Nat,
         \A o \in Run : o # r => after[o][s] = before[o][s]
  PROVE  /\ Sum(Run, PerRun(before, s)) \in Nat /\ Sum(Run, PerRun(after, s)) \in Nat
         /\ Sum(Run, PerRun(after, s)) + before[r][s] = Sum(Run, PerRun(before, s)) + after[r][s]
<1>1. PerRun(before, s) \in [Run -> Nat] /\ PerRun(after, s) \in [Run -> Nat]
  BY DEF PerRun
<1>2. \A o \in Run : PerRun(before, s)[o] = before[o][s] /\ PerRun(after, s)[o] = after[o][s]
  BY DEF PerRun
<1>3. IsFiniteSet(Run)
  BY CountsConstants
<1>4. \A o \in Run : o # r => PerRun(before, s)[o] = PerRun(after, s)[o]
  BY <1>2
<1>5. /\ Sum(Run, PerRun(before, s)) \in Nat /\ Sum(Run, PerRun(after, s)) \in Nat
      /\ Sum(Run, PerRun(after, s)) + PerRun(before, s)[r] = Sum(Run, PerRun(before, s)) + PerRun(after, s)[r]
  BY <1>1, <1>3, <1>4, SumChanges
<1>6. QED
  BY <1>2, <1>5

\* Counters of a stage that are as they were have the same sum.
LEMMA SameCounters ==
  ASSUME NEW s, NEW counter, NEW other, \A c \in Counters(s) : other[c] = counter[c]
  PROVE  On(other, s) = On(counter, s)
BY DEF On

LEMMA CountersTotal ==
  ASSUME NEW s \in Counts!Stage, NEW counter, IsCounter(counter)
  PROVE  Sum(Counters(s), On(counter, s)) \in Nat
<1>1. PICK c \in Counters(s) : TRUE
  <2>1. <<Shared, s, "mongo">> \in Counters(s)
    BY DEF Counters, Counts!Counter, Counts!Engine
  <2>2. QED
    BY <2>1
<1>2. QED
  BY <1>1, SumSet

LEMMA NoneTwiceInit == Counts!Init => NoneTwice
<1> SUFFICES ASSUME Counts!Init, NEW s \in Checked
             PROVE  Sum(Run, PerRun(stage_tokens, s)) + Sum(Counters(s), On(last_prompt_tokens, s))
                      <= Sum(Run, PerRun(sent, s))
  BY DEF NoneTwice
<1>1. s \in Counts!Stage
  BY DEF Checked
<1>2. On(last_prompt_tokens, s) \in [Counters(s) -> Nat] /\ \A c \in Counters(s) : On(last_prompt_tokens, s)[c] = 0
  BY DEF Counts!Init, On, Counters
<1>3. Sum(Counters(s), On(last_prompt_tokens, s)) = 0
  BY <1>1, <1>2, CountsConstants, CountersAreFinite, SumOfZeros
<1>4. PerRun(sent, s) = PerRun(stage_tokens, s)
  BY DEF Counts!Init
<1>5. PerRun(sent, s) \in [Run -> Nat] /\ \A r \in Run : PerRun(sent, s)[r] = 0
  BY <1>1 DEF Counts!Init, PerRun
<1>6. Sum(Run, PerRun(sent, s)) = 0
  BY <1>5, CountsConstants, SumOfZeros
<1>7. QED
  BY <1>3, <1>4, <1>6

LEMMA NoneTwiceStep ==
  ASSUME CountedTypes, NoneTwice, NEW r \in Run, Move(r)
  PROVE  NoneTwice'
<1> DEFINE total(count, s) == Sum(Run, PerRun(count, s))
           left(counter, s) == Sum(Counters(s), On(counter, s))
<1>0. CountedTypes' /\ Counts!TypeOK /\ Counts!TypeOK' /\ IsCounter(last_prompt_tokens) /\ IsCounter(last_prompt_tokens')
  <2>1. CountedTypes' /\ Counts!TypeOK /\ Counts!TypeOK'
    BY CountedStep DEF CountedTypes
  <2>2. {0} \cup {Tokens[o] : o \in Run} \subseteq Nat
    BY CountsConstants
  <2>3. \A counter \in [Counts!Counter -> {0} \cup {Tokens[o] : o \in Run}] : IsCounter(counter)
    BY <2>2 DEF IsCounter
  <2>4. QED
    BY <2>1, <2>3 DEF Counts!TypeOK
<1>1. SUFFICES ASSUME NEW s \in Checked
               PROVE  total(stage_tokens', s) + left(last_prompt_tokens', s) <= total(sent', s)
  BY DEF NoneTwice
<1>2. s \in Counts!Stage /\ s # "feedback_guardrail"
  BY DEF Checked
<1>3. /\ stage_tokens \in [Run -> [Counts!Stage -> Nat]] /\ sent \in [Run -> [Counts!Stage -> Nat]]
      /\ stage_tokens' \in [Run -> [Counts!Stage -> Nat]] /\ sent' \in [Run -> [Counts!Stage -> Nat]]
  BY <1>0 DEF Counts!TypeOK
<1>4. total(stage_tokens, s) + left(last_prompt_tokens, s) <= total(sent, s)
  BY DEF NoneTwice
<1>5. left(last_prompt_tokens, s) \in Nat /\ left(last_prompt_tokens', s) \in Nat
  BY <1>0, <1>2, CountersTotal
<1>6. total(stage_tokens, s) \in Nat /\ total(sent, s) \in Nat
  <2>1. \A o \in Run : stage_tokens[o][s] \in Nat /\ sent[o][s] \in Nat
    BY <1>2, <1>3
  <2>2. QED
    BY <2>1, TotalChanges
<1>7. CASE Counts!Arrive(r) \/ Counts!CutOff(r)
  <2>1. stage_tokens' = stage_tokens /\ last_prompt_tokens' = last_prompt_tokens /\ sent' = sent
    BY <1>7 DEF Counts!Arrive, Counts!CutOff
  <2> HIDE DEF total, left
  <2>2. QED
    BY <1>4, <2>1
<1>8. CASE Counts!Ask(r)
  <2>1. stage_tokens' = stage_tokens /\ calling[r] \in Counts!Stage /\ Tokens[r] \in Nat
    BY <1>0, <1>8, CountsFacts, CountsConstants DEF Counts!Ask
  <2>2. sent' = [sent EXCEPT ![r][calling[r]] = @ + Tokens[r]]
    BY <1>8 DEF Counts!Ask
  <2>3. last_prompt_tokens' = [last_prompt_tokens EXCEPT ![Counts!At(r)] = Tokens[r]]
    BY <1>8 DEF Counts!Ask
  <2>4. /\ Counts!At(r) \in Counts!Counter /\ Counts!At(r)[2] = calling[r]
    BY <1>0, CountsFacts
  <2>5. CASE s = calling[r]
    <3>1. \A o \in Run : sent'[o][s] = sent[o][s] + IF o = r THEN Tokens[r] ELSE 0
      BY <1>2, <1>3, <2>2, <2>5
    <3>2. total(sent', s) = total(sent, s) + Tokens[r]
      <4>1. \A o \in Run : sent[o][s] \in Nat /\ sent'[o][s] \in Nat
        BY <1>2, <1>3
      <4>2. \A o \in Run : o # r => sent'[o][s] = sent[o][s]
        BY <3>1, <4>1
      <4>3. total(sent', s) \in Nat /\ total(sent', s) + sent[r][s] = total(sent, s) + sent'[r][s]
        BY <4>1, <4>2, TotalChanges
      <4>4. sent'[r][s] = sent[r][s] + Tokens[r]
        BY <3>1
      <4> HIDE DEF total
      <4>5. QED
        BY <1>6, <2>1, <4>1, <4>3, <4>4
    <3>3. /\ Counts!At(r) \in Counters(s) /\ last_prompt_tokens'[Counts!At(r)] = Tokens[r]
          /\ \A c \in Counters(s) : c # Counts!At(r) => last_prompt_tokens'[c] = last_prompt_tokens[c]
      BY <1>0, <2>3, <2>4, <2>5 DEF Counters, IsCounter
    <3>4. /\ last_prompt_tokens[Counts!At(r)] \in Nat
          /\ left(last_prompt_tokens', s) + last_prompt_tokens[Counts!At(r)] = left(last_prompt_tokens, s) + Tokens[r]
      BY <1>0, <1>2, <3>3, SumSet
    <3> HIDE DEF total, left
    <3>5. QED
      BY <1>4, <1>5, <1>6, <2>1, <3>2, <3>4
  <2>6. CASE s # calling[r]
    <3>1. \A o \in Run : sent'[o][s] = sent[o][s]
      BY <1>2, <1>3, <2>1, <2>2, <2>6
    <3>2. PerRun(sent', s) = PerRun(sent, s)
      BY <3>1 DEF PerRun
    <3>3. \A c \in Counters(s) : last_prompt_tokens'[c] = last_prompt_tokens[c]
      BY <1>0, <2>3, <2>4, <2>6 DEF Counters, IsCounter
    <3>4. On(last_prompt_tokens', s) = On(last_prompt_tokens, s)
      BY <3>3, SameCounters
    <3>5. QED
      BY <1>4, <2>1, <3>2, <3>4
  <2>7. QED
    BY <2>5, <2>6
<1>9. CASE Counts!AnswerAtOnce(r) \/ Counts!Answer(r)
  <2>1. PICK counter \in [Counts!Counter -> {0} \cup {Tokens[o] : o \in Run}] :
           /\ pc[r] \in {"ready", "awaiting"} /\ Counts!Record(r, counter)
           /\ UNCHANGED <<engines, own, sent, alone, cut>>
           /\ pc[r] = "ready" => counter = Counts!Cleared(r)
           /\ pc[r] = "awaiting" => counter = last_prompt_tokens
    BY <1>9, Ends
  <2>2. /\ last_prompt_tokens' = Counts!Reset(r, counter) /\ sent' = sent
        /\ \A o \in Run, u \in Counts!Stage : stage_tokens'[o][u] =
              stage_tokens[o][u] + IF o = r /\ u = calling[r] THEN Counts!Read(r, counter) ELSE 0
    BY <2>1, Recording
  <2>3. IsCounter(counter)
    <3>1. {0} \cup {Tokens[o] : o \in Run} \subseteq Nat
      BY CountsConstants
    <3>2. QED
      BY <3>1 DEF IsCounter
  <2>4. Counts!Read(r, counter) \in Nat
    BY <1>0, <2>3, ReadsLarger
  \* Nothing is added to the counters by clearing one.
  <2>5. left(counter, s) \in Nat /\ left(counter, s) <= left(last_prompt_tokens, s)
    <3>1. CASE pc[r] = "awaiting"
      BY <1>5, <2>1, <3>1
    <3>2. CASE pc[r] = "ready" /\ s = calling[r]
      <4>1. Counts!At(r) \in Counters(s)
        BY <1>0, <3>2, CountsFacts DEF Counters
      <4>2. \A c \in Counters(s) : counter[c] = IF c = Counts!At(r) THEN 0 ELSE last_prompt_tokens[c]
        BY <1>0, <2>1, <3>2, Clearing DEF Counters
      <4>3. /\ last_prompt_tokens[Counts!At(r)] \in Nat
            /\ left(counter, s) + last_prompt_tokens[Counts!At(r)] = left(last_prompt_tokens, s) + 0
            /\ left(counter, s) \in Nat
        BY <1>0, <1>2, <2>3, <4>1, <4>2, SumSet
      <4> HIDE DEF left
      <4>4. QED
        BY <1>5, <4>3
    <3>3. CASE pc[r] = "ready" /\ s # calling[r]
      <4>1. Counts!At(r) \notin Counters(s)
        BY <1>0, <3>3, CountsFacts DEF Counters
      <4>2. \A c \in Counters(s) : counter[c] = last_prompt_tokens[c]
        BY <1>0, <2>1, <3>3, <4>1, Clearing DEF Counters
      <4>3. On(counter, s) = On(last_prompt_tokens, s)
        BY <4>2, SameCounters
      <4>4. QED
        BY <1>5, <4>3
    <3>4. QED
      BY <2>1, <3>1, <3>2, <3>3
  <2>6. CASE s = calling[r]
    <3>1. \A o \in Run : stage_tokens'[o][s] = stage_tokens[o][s] + IF o = r THEN Counts!Read(r, counter) ELSE 0
      BY <1>2, <2>2, <2>6
    <3>2. total(stage_tokens', s) = total(stage_tokens, s) + Counts!Read(r, counter)
      <4>1. \A o \in Run : stage_tokens[o][s] \in Nat /\ stage_tokens'[o][s] \in Nat
        BY <1>2, <1>3
      <4>2. \A o \in Run : o # r => stage_tokens'[o][s] = stage_tokens[o][s]
        BY <3>1, <4>1
      <4>3. /\ total(stage_tokens', s) \in Nat
            /\ total(stage_tokens', s) + stage_tokens[r][s] = total(stage_tokens, s) + stage_tokens'[r][s]
        BY <4>1, <4>2, TotalChanges
      <4>4. stage_tokens'[r][s] = stage_tokens[r][s] + Counts!Read(r, counter)
        BY <3>1
      <4> HIDE DEF total
      <4>5. QED
        BY <1>6, <2>4, <4>1, <4>3, <4>4
    <3>3. left(last_prompt_tokens', s) + Counts!Read(r, counter) <= left(counter, s)
      BY <1>0, <1>2, <2>2, <2>3, <2>6, ReadIsReset
    <3> HIDE DEF total, left
    <3>4. QED
      BY <1>4, <1>5, <1>6, <2>2, <2>4, <2>5, <3>2, <3>3
  <2>7. CASE s # calling[r]
    <3>1. \A o \in Run : stage_tokens'[o][s] = stage_tokens[o][s]
      BY <1>2, <1>3, <2>2, <2>7
    <3>2. PerRun(stage_tokens', s) = PerRun(stage_tokens, s)
      BY <3>1 DEF PerRun
    <3>3. \A c \in Counters(s) : last_prompt_tokens'[c] = counter[c]
      <4>1. \A c \in Counters(s) : c \in Counts!Counter /\ c[2] = s
        BY DEF Counters
      <4>2. Counts!At(r)[2] = calling[r] /\ \A e \in {"postgres", "mongo"} : Pair(r, e)[2] = "query_validation"
        BY <1>0, CountsFacts DEF Pair
      <4>3. QED
        BY <1>0, <2>2, <2>3, <2>7, <4>1, <4>2, Resets
    <3>4. On(last_prompt_tokens', s) = On(counter, s)
      BY <3>3, SameCounters
    <3>5. total(stage_tokens', s) = total(stage_tokens, s) /\ left(last_prompt_tokens', s) = left(counter, s)
      BY <3>2, <3>4
    <3> HIDE DEF total, left
    <3>6. QED
      BY <1>4, <1>5, <1>6, <2>2, <2>5, <3>5
  <2>8. QED
    BY <2>6, <2>7
<1>10. QED
  BY <1>7, <1>8, <1>9 DEF Move

-----------------------------------------------------------------------------
(* Counts of tokens: what is exact                                         *)

Busy(r) == pc[r] \in {"ready", "awaiting"}

Balanced(r, s) ==
  sent[r][s] = stage_tokens[r][s] + IF pc[r] = "awaiting" /\ calling[r] = s THEN Tokens[r] ELSE 0

\* A run's own counters hold what it waits for and nothing else.
OwnExact ==
  /\ \A r \in cut : pc[r] = "over"
  /\ \A r \in Run : pc[r] = "idle" =>
       r \notin alone /\ \A s \in Counts!Stage : stage_tokens[r][s] = 0 /\ sent[r][s] = 0
  /\ \A r \in Run \ cut : \A c \in Counts!Counter : c[1] = r =>
       last_prompt_tokens[c] = IF pc[r] = "awaiting" /\ c = Counts!At(r) THEN Tokens[r] ELSE 0
  /\ \A r \in Run \ cut : own[r] => \A s \in Checked : Balanced(r, s)

\* Nothing is left behind in a counter by a call that was not cut off.
AloneExact ==
  /\ \A r \in alone : Busy(r) => \A o \in Run : Busy(o) => o = r
  /\ cut = {} =>
       /\ \A c \in Counts!Counter : c[2] # "feedback_guardrail" /\ last_prompt_tokens[c] # 0 =>
            \E r \in Run : pc[r] = "awaiting" /\ Counts!At(r) = c
       /\ \A r \in alone : /\ \A s \in Counts!Stage : Balanced(r, s)
                           /\ pc[r] = "awaiting" => last_prompt_tokens[Counts!At(r)] = Tokens[r]

LEMMA ReadsOwn ==
  ASSUME Counts!TypeOK, NEW r \in Run, NEW counter, IsCounter(counter),
         calling[r] = "query_validation" =>
           \A c \in {Pair(r, "postgres"), Pair(r, "mongo")} : c # Counts!At(r) => counter[c] = 0
  PROVE  Counts!Read(r, counter) = counter[Counts!At(r)]
<1>1. CASE calling[r] # "query_validation"
  BY <1>1, ReadsLarger
<1>2. CASE calling[r] = "query_validation"
  <2> DEFINE p == Pair(r, "postgres")
             m == Pair(r, "mongo")
             a == Counts!At(r)
             n == Counts!Read(r, counter)
  <2>1. /\ p \in Counts!Counter /\ m \in Counts!Counter /\ p # m /\ a \in {p, m}
        /\ n \in {counter[p], counter[m]} /\ n >= counter[p] /\ n >= counter[m]
    BY <1>2, ReadsLarger
  <2>2. counter[p] \in Nat /\ counter[m] \in Nat
    BY <2>1 DEF IsCounter
  <2>3. \A c \in {p, m} : c # a => counter[c] = 0
    BY <1>2
  <2> HIDE DEF p, m, a, n
  <2>4. n = counter[a]
    BY <2>1, <2>2, <2>3
  <2>5. QED
    BY <2>4 DEF a, n
<1>3. QED
  BY <1>1, <1>2

LEMMA EndOfCall ==
  ASSUME CountedTypes, NEW r \in Run, Counts!AnswerAtOnce(r) \/ Counts!Answer(r)
  PROVE  /\ Busy(r) /\ pc'[r] \in {"ready", "over"}
         /\ UNCHANGED <<sent, alone, cut>>
         /\ \A c \in Counts!Counter :
              /\ last_prompt_tokens'[c] \in {0, last_prompt_tokens[c]}
              /\ c[1] # Counts!Owner(r) => last_prompt_tokens'[c] = last_prompt_tokens[c]
         /\ calling[r] # "feedback_guardrail" => last_prompt_tokens'[Counts!At(r)] = 0
         /\ \E read \in Nat :
              /\ \A o \in Run, s \in Counts!Stage : stage_tokens'[o][s] =
                   stage_tokens[o][s] + IF o = r /\ s = calling[r] THEN read ELSE 0
              /\ (calling[r] = "query_validation" =>
                    \A c \in {Pair(r, "postgres"), Pair(r, "mongo")} :
                      c # Counts!At(r) => last_prompt_tokens[c] = 0)
                 => read = IF pc[r] = "ready" THEN 0 ELSE last_prompt_tokens[Counts!At(r)]
<1>0. Counts!TypeOK /\ Counts!At(r) \in Counts!Counter /\ Counts!At(r)[1] = Counts!Owner(r)
  BY CountsFacts DEF CountedTypes
<1>1. PICK counter \in [Counts!Counter -> {0} \cup {Tokens[o] : o \in Run}] :
           /\ pc[r] \in {"ready", "awaiting"} /\ Counts!Record(r, counter)
           /\ UNCHANGED <<engines, own, sent, alone, cut>>
           /\ pc[r] = "ready" => counter = Counts!Cleared(r)
           /\ pc[r] = "awaiting" => counter = last_prompt_tokens
  BY Ends
<1>2. /\ last_prompt_tokens' = Counts!Reset(r, counter) /\ pc'[r] \in {"ready", "over"}
      /\ \A o \in Run, s \in Counts!Stage : stage_tokens'[o][s] =
              stage_tokens[o][s] + IF o = r /\ s = calling[r] THEN Counts!Read(r, counter) ELSE 0
  BY <1>1, Recording
<1>3. IsCounter(counter)
  <2>1. {0} \cup {Tokens[o] : o \in Run} \subseteq Nat
    BY CountsConstants
  <2>2. QED
    BY <2>1 DEF IsCounter
<1>4. \A c \in Counts!Counter :
        /\ counter[c] \in {0, last_prompt_tokens[c]}
        /\ c # Counts!At(r) => counter[c] = last_prompt_tokens[c]
        /\ c = Counts!At(r) => counter[c] = IF pc[r] = "ready" THEN 0 ELSE last_prompt_tokens[c]
  <2>1. CASE pc[r] = "ready"
    BY <1>0, <1>1, <2>1, Clearing
  <2>2. CASE pc[r] = "awaiting"
    BY <1>1, <2>2
  <2>3. QED
    BY <1>1, <2>1, <2>2
<1>5. ASSUME NEW c \in Counts!Counter
      PROVE  /\ last_prompt_tokens'[c] \in {0, counter[c]}
             /\ c[1] # Counts!Owner(r) => last_prompt_tokens'[c] = counter[c]
             /\ calling[r] # "feedback_guardrail" /\ c = Counts!At(r) => last_prompt_tokens'[c] = 0
  <2>1. Pair(r, "postgres")[1] = Counts!Owner(r) /\ Pair(r, "mongo")[1] = Counts!Owner(r)
    BY DEF Pair
  <2>2. last_prompt_tokens'[c] =
              IF \/ calling[r] = "query_validation" /\ c \in {Pair(r, "postgres"), Pair(r, "mongo")}
                 \/ calling[r] \notin {"query_validation", "feedback_guardrail"} /\ c = Counts!At(r)
              THEN 0 ELSE counter[c]
    BY <1>0, <1>2, <1>3, Resets
  <2>3. calling[r] = "query_validation" => Counts!At(r) \in {Pair(r, "postgres"), Pair(r, "mongo")}
    BY <1>0, <1>3, ReadsLarger
  <2>4. QED
    BY <1>0, <2>1, <2>2, <2>3
<1>6. ASSUME NEW c \in Counts!Counter
      PROVE  /\ last_prompt_tokens'[c] \in {0, last_prompt_tokens[c]}
             /\ c[1] # Counts!Owner(r) => last_prompt_tokens'[c] = last_prompt_tokens[c]
  BY <1>0, <1>4, <1>5
<1>7. calling[r] # "feedback_guardrail" => last_prompt_tokens'[Counts!At(r)] = 0
  BY <1>0, <1>5
<1>8. ASSUME calling[r] = "query_validation" =>
               \A c \in {Pair(r, "postgres"), Pair(r, "mongo")} :
                 c # Counts!At(r) => last_prompt_tokens[c] = 0
      PROVE  Counts!Read(r, counter) = IF pc[r] = "ready" THEN 0 ELSE last_prompt_tokens[Counts!At(r)]
  <2>1. calling[r] = "query_validation" =>
          Pair(r, "postgres") \in Counts!Counter /\ Pair(r, "mongo") \in Counts!Counter
    BY <1>0, <1>3, ReadsLarger
  <2>2. calling[r] = "query_validation" =>
          \A c \in {Pair(r, "postgres"), Pair(r, "mongo")} : c # Counts!At(r) => counter[c] = 0
    BY <1>4, <1>8, <2>1
  <2>3. Counts!Read(r, counter) = counter[Counts!At(r)]
    BY <1>0, <1>3, <2>2, ReadsOwn
  <2>4. QED
    BY <1>0, <1>4, <2>3
<1>9. Counts!Read(r, counter) \in Nat
  BY <1>0, <1>3, ReadsLarger
<1>10. Busy(r)
  BY <1>1 DEF Busy
<1>11. \E read \in Nat :
         /\ \A o \in Run, s \in Counts!Stage : stage_tokens'[o][s] =
              stage_tokens[o][s] + IF o = r /\ s = calling[r] THEN read ELSE 0
         /\ (calling[r] = "query_validation" =>
               \A c \in {Pair(r, "postgres"), Pair(r, "mongo")} :
                 c # Counts!At(r) => last_prompt_tokens[c] = 0)
            => read = IF pc[r] = "ready" THEN 0 ELSE last_prompt_tokens[Counts!At(r)]
  BY <1>2, <1>8, <1>9
<1>12. QED
  BY <1>1, <1>2, <1>6, <1>7, <1>10, <1>11

LEMMA ExactInit == Counts!Init => OwnExact /\ AloneExact
<1> SUFFICES ASSUME Counts!Init PROVE OwnExact /\ AloneExact
  OBVIOUS
<1>1. /\ \A r \in Run : pc[r] = "idle" /\ \A s \in Counts!Stage : stage_tokens[r][s] = 0 /\ sent[r][s] = 0
      /\ \A c \in Counts!Counter : last_prompt_tokens[c] = 0
      /\ alone = {} /\ cut = {}
  BY DEF Counts!Init
<1>2. \A r \in Run, s \in Checked : Balanced(r, s)
  BY <1>1 DEF Balanced, Checked
<1>3. QED
  BY <1>1, <1>2 DEF OwnExact, AloneExact

\* What does not change for a run keeps its balance.
LEMMA StillBalanced ==
  ASSUME NEW o \in Run, NEW s, Balanced(o, s), pc'[o] = pc[o], calling'[o] = calling[o],
         sent'[o][s] = sent[o][s], stage_tokens'[o][s] = stage_tokens[o][s]
  PROVE  Balanced(o, s)'
BY DEF Balanced

LEMMA OthersKept ==
  ASSUME CountedTypes, NEW r \in Run, Move(r), NEW o \in Run, o # r, NEW s \in Counts!Stage
  PROVE  /\ sent'[o][s] = sent[o][s] /\ stage_tokens'[o][s] = stage_tokens[o][s]
         /\ pc'[o] = pc[o] /\ calling'[o] = calling[o] /\ Counts!At(o)' = Counts!At(o)
<1>1. pc'[o] = pc[o] /\ calling'[o] = calling[o] /\ Counts!At(o)' = Counts!At(o)
  BY CountedStep
<1>2. stage_tokens[o][s] \in Nat /\ sent \in [Run -> [Counts!Stage -> Nat]]
  BY DEF CountedTypes, Counts!TypeOK
<1>3. CASE Counts!Arrive(r) \/ Counts!CutOff(r)
  BY <1>1, <1>3 DEF Counts!Arrive, Counts!CutOff
<1>4. CASE Counts!Ask(r)
  BY <1>1, <1>2, <1>4 DEF Counts!Ask
<1>5. CASE Counts!AnswerAtOnce(r) \/ Counts!Answer(r)
  <2>1. PICK read \in Nat : \A u \in Run, v \in Counts!Stage : stage_tokens'[u][v] =
                   stage_tokens[u][v] + IF u = r /\ v = calling[r] THEN read ELSE 0
    BY <1>5, EndOfCall
  <2>2. sent' = sent
    BY <1>5, EndOfCall
  <2>3. stage_tokens'[o][s] = stage_tokens[o][s] + 0
    BY <2>1
  <2>4. QED
    BY <1>1, <1>2, <2>2, <2>3
<1>6. QED
  BY <1>3, <1>4, <1>5 DEF Move

LEMMA OwnStep ==
  ASSUME CountedTypes, OwnExact, NEW r \in Run, Move(r)
  PROVE  OwnExact'
<1>0. Counts!TypeOK /\ CountedTypes' /\ own' = own /\ engines' = engines
  BY CountedStep DEF CountedTypes
<1>1. \A o \in Run \ {r}, s \in Counts!Stage :
        /\ sent'[o][s] = sent[o][s] /\ stage_tokens'[o][s] = stage_tokens[o][s]
        /\ pc'[o] = pc[o] /\ calling'[o] = calling[o] /\ Counts!At(o)' = Counts!At(o)
  BY OthersKept
<1>2. \A o \in Run \ {r} : pc'[o] = pc[o] /\ calling'[o] = calling[o] /\ Counts!At(o)' = Counts!At(o)
  BY CountedStep
<1>3. /\ Counts!At(r) \in Counts!Counter /\ Counts!At(r)[1] = Counts!Owner(r) /\ Counts!At(r)[2] = calling[r]
      /\ Counts!Owner(r) \in {r, Shared} /\ Shared \notin Run /\ calling[r] \in Counts!Stage
  BY <1>0, CountsFacts, CountsConstants DEF Counts!Owner
<1>4. /\ pc'[r] # "idle" /\ pc[r] # "over" /\ r \notin cut
      /\ cut' \subseteq cut \cup {r} /\ (r \in cut' => pc'[r] = "over")
      /\ alone' \subseteq alone \cup {r}
  <2>1. CASE Counts!AnswerAtOnce(r) \/ Counts!Answer(r)
    BY <2>1, EndOfCall DEF OwnExact, Busy
  <2>2. CASE Counts!Arrive(r)
    BY <1>0, <2>2 DEF Counts!Arrive, Counts!TypeOK, OwnExact
  <2>3. CASE Counts!Ask(r) \/ Counts!CutOff(r)
    BY <1>0, <2>3 DEF Counts!Ask, Counts!CutOff, Counts!TypeOK, OwnExact
  <2>4. QED
    BY <2>1, <2>2, <2>3 DEF Move
<1>5. \A c \in Counts!Counter : c[1] # Counts!Owner(r) => last_prompt_tokens'[c] = last_prompt_tokens[c]
  <2>1. CASE Counts!AnswerAtOnce(r) \/ Counts!Answer(r)
    BY <2>1, EndOfCall
  <2>2. CASE Counts!Arrive(r) \/ Counts!CutOff(r)
    BY <2>2 DEF Counts!Arrive, Counts!CutOff
  <2>3. CASE Counts!Ask(r)
    BY <1>0, <1>3, <2>3 DEF Counts!Ask, Counts!TypeOK
  <2>4. QED
    BY <2>1, <2>2, <2>3 DEF Move
<1>6. \A o \in cut' : pc'[o] = "over"
  BY <1>0, <1>2, <1>4 DEF OwnExact, Counts!TypeOK
<1>7. \A o \in Run : pc'[o] = "idle" =>
        o \notin alone' /\ \A s \in Counts!Stage : stage_tokens'[o][s] = 0 /\ sent'[o][s] = 0
  BY <1>1, <1>2, <1>4 DEF OwnExact
<1>8. ASSUME NEW o \in Run \ cut', NEW c \in Counts!Counter, c[1] = o, o # r
      PROVE  last_prompt_tokens'[c] = IF pc'[o] = "awaiting" /\ c = Counts!At(o)' THEN Tokens[o] ELSE 0
  <2>1. o \notin cut /\ pc'[o] = pc[o] /\ Counts!At(o)' = Counts!At(o)
    <3>1. cut \subseteq cut'
      <4>1. CASE Counts!AnswerAtOnce(r) \/ Counts!Answer(r)
        BY <4>1, EndOfCall
      <4>2. CASE Counts!Arrive(r) \/ Counts!Ask(r) \/ Counts!CutOff(r)
        BY <4>2 DEF Counts!Arrive, Counts!Ask, Counts!CutOff
      <4>3. QED
        BY <4>1, <4>2 DEF Move
    <3>2. QED
      BY <1>2, <1>8, <3>1
  <2>2. last_prompt_tokens'[c] = last_prompt_tokens[c]
    BY <1>3, <1>5, <1>8
  <2>3. QED
    BY <1>8, <2>1, <2>2 DEF OwnExact
<1>9. ASSUME NEW o \in Run \ cut', own'[o], NEW s \in Checked, o # r PROVE Balanced(o, s)'
  <2>1. o \notin cut
    <3>1. CASE Counts!AnswerAtOnce(r) \/ Counts!Answer(r)
      BY <1>9, <3>1, EndOfCall
    <3>2. CASE Counts!Arrive(r) \/ Counts!Ask(r) \/ Counts!CutOff(r)
      BY <1>9, <3>2 DEF Counts!Arrive, Counts!Ask, Counts!CutOff
    <3>3. QED
      BY <3>1, <3>2 DEF Move
  <2>2. Balanced(o, s) /\ s \in Counts!Stage
    BY <1>0, <1>9, <2>1 DEF OwnExact, Checked
  <2>3. QED
    BY <1>1, <1>9, <2>2, StillBalanced
\* The run itself.
<1>10. \A c \in Counts!Counter : c[1] = r =>
         last_prompt_tokens[c] = IF pc[r] = "awaiting" /\ c = Counts!At(r) THEN Tokens[r] ELSE 0
  BY <1>4 DEF OwnExact
<1>11. own[r] => \A s \in Checked : Balanced(r, s)
  BY <1>4 DEF OwnExact
<1>12. stage_tokens[r] \in [Counts!Stage -> Nat] /\ sent[r] \in [Counts!Stage -> Nat]
       /\ Checked \subseteq Counts!Stage
  BY <1>0, CountsFacts DEF Checked
<1>13. ASSUME r \notin cut'
       PROVE  /\ \A c \in Counts!Counter : c[1] = r =>
                   last_prompt_tokens'[c] = IF pc'[r] = "awaiting" /\ c = Counts!At(r)' THEN Tokens[r] ELSE 0
              /\ own'[r] => \A s \in Checked : Balanced(r, s)'
  <2>1. CASE Counts!Arrive(r)
    <3>1. /\ pc[r] = "idle" /\ pc'[r] = "ready" /\ last_prompt_tokens' = last_prompt_tokens
          /\ stage_tokens' = stage_tokens /\ sent' = sent
      BY <1>0, <2>1 DEF Counts!Arrive, Counts!TypeOK
    <3>2. \A s \in Checked : Balanced(r, s)'
      BY <1>12, <3>1 DEF OwnExact, Balanced
    <3>3. QED
      BY <1>10, <3>1, <3>2
  <2>2. CASE Counts!Ask(r)
    <3>1. /\ pc[r] = "ready" /\ pc'[r] = "awaiting" /\ stage_tokens' = stage_tokens /\ calling' = calling
          /\ sent' = [sent EXCEPT ![r][calling[r]] = @ + Tokens[r]]
          /\ last_prompt_tokens' = [last_prompt_tokens EXCEPT ![Counts!At(r)] = Tokens[r]]
          /\ last_prompt_tokens \in [Counts!Counter -> {0} \cup {Tokens[o] : o \in Run}]
      BY <1>0, <2>2 DEF Counts!Ask, Counts!TypeOK
    <3>2. Counts!At(r)' = Counts!At(r)
      BY <1>0, <3>1 DEF Counts!At, Counts!Owner
    <3>3. \A s \in Counts!Stage : sent'[r][s] = sent[r][s] + IF s = calling[r] THEN Tokens[r] ELSE 0
      <4>1. sent \in [Run -> [Counts!Stage -> Nat]] /\ Tokens[r] \in Nat
        BY <1>0, CountsConstants DEF Counts!TypeOK
      <4>2. QED
        BY <3>1, <4>1
    <3>4. \A c \in Counts!Counter : c[1] = r =>
            last_prompt_tokens'[c] = IF c = Counts!At(r) THEN Tokens[r] ELSE 0
      BY <1>3, <1>10, <3>1
    <3>5. own[r] => \A s \in Checked : Balanced(r, s)'
      BY <1>11, <1>12, <3>1, <3>3 DEF Balanced
    <3>6. QED
      BY <1>0, <3>1, <3>2, <3>4, <3>5
  <2>3. CASE Counts!AnswerAtOnce(r) \/ Counts!Answer(r)
    <3>1. /\ pc[r] \in {"ready", "awaiting"} /\ pc'[r] \in {"ready", "over"}
          /\ \A c \in Counts!Counter : last_prompt_tokens'[c] \in {0, last_prompt_tokens[c]}
          /\ calling[r] # "feedback_guardrail" => last_prompt_tokens'[Counts!At(r)] = 0
          /\ sent' = sent
      BY <2>3, EndOfCall DEF Busy
    <3>2. \A c \in Counts!Counter : c[1] = r => last_prompt_tokens'[c] = 0
      <4>1. calling[r] = "feedback_guardrail" => Counts!At(r)[1] # r
        BY <1>3 DEF Counts!Owner
      <4>2. QED
        BY <1>3, <1>10, <3>1, <4>1
    <3>3. PICK read \in Nat :
              /\ \A o \in Run, s \in Counts!Stage : stage_tokens'[o][s] =
                   stage_tokens[o][s] + IF o = r /\ s = calling[r] THEN read ELSE 0
              /\ (calling[r] = "query_validation" =>
                    \A c \in {Pair(r, "postgres"), Pair(r, "mongo")} :
                      c # Counts!At(r) => last_prompt_tokens[c] = 0)
                 => read = IF pc[r] = "ready" THEN 0 ELSE last_prompt_tokens[Counts!At(r)]
      BY <2>3, EndOfCall
    <3>4. ASSUME own[r], NEW s \in Checked PROVE Balanced(r, s)'
      <4>1. Balanced(r, s) /\ s \in Counts!Stage /\ s # "feedback_guardrail"
        BY <1>11, <1>12, <3>4 DEF Checked
      <4>2. CASE s = calling[r]
        <5>1. Counts!Owner(r) = r
          BY <3>4, <4>1, <4>2 DEF Counts!Owner
        <5>2. calling[r] = "query_validation" =>
                /\ \A c \in {Pair(r, "postgres"), Pair(r, "mongo")} : c \in Counts!Counter /\ c[1] = r
          BY <5>1, <1>3 DEF Pair, Counts!Counter, Counts!Engine
        <5>3. read = IF pc[r] = "ready" THEN 0 ELSE last_prompt_tokens[Counts!At(r)]
          BY <1>10, <3>3, <5>2
        <5>4. read = IF pc[r] = "awaiting" THEN Tokens[r] ELSE 0
          BY <1>3, <1>10, <3>1, <5>1, <5>3
        <5>5. stage_tokens'[r][s] = stage_tokens[r][s] + read
          BY <3>3, <4>1, <4>2
        <5>6. sent'[r][s] = stage_tokens'[r][s]
          BY <3>1, <4>1, <4>2, <5>4, <5>5 DEF Balanced
        <5>7. stage_tokens'[r][s] \in Nat
          BY <1>12, <4>1, <5>5
        <5>8. QED
          BY <3>1, <5>6, <5>7 DEF Balanced
      <4>3. CASE s # calling[r]
        <5>1. stage_tokens'[r][s] = stage_tokens[r][s] + 0 /\ sent'[r][s] = sent[r][s]
          BY <3>1, <3>3, <4>1, <4>3
        <5>2. stage_tokens[r][s] \in Nat /\ sent[r][s] = stage_tokens[r][s]
          BY <1>12, <4>1, <4>3 DEF Balanced
        <5>3. QED
          BY <3>1, <5>1, <5>2 DEF Balanced
      <4>4. QED
        BY <4>2, <4>3
    <3>5. QED
      BY <1>0, <3>1, <3>2, <3>4
  <2>4. CASE Counts!CutOff(r)
    BY <1>13, <2>4 DEF Counts!CutOff
  <2>5. QED
    BY <2>1, <2>2, <2>3, <2>4 DEF Move
<1>14. \A o \in Run \ cut' : \A c \in Counts!Counter : c[1] = o =>
         last_prompt_tokens'[c] = IF pc'[o] = "awaiting" /\ c = Counts!At(o)' THEN Tokens[o] ELSE 0
  BY <1>8, <1>13
<1>15. \A o \in Run \ cut' : own'[o] => \A s \in Checked : Balanced(o, s)'
  BY <1>9, <1>13
<1>16. QED
  BY <1>6, <1>7, <1>14, <1>15 DEF OwnExact, Checked

LEMMA AloneStep ==
  ASSUME CountedTypes, OwnExact, AloneExact, NEW r \in Run, Move(r)
  PROVE  AloneExact'
<1>0. Counts!TypeOK /\ CountedTypes' /\ own' = own /\ engines' = engines /\ alone \subseteq Run
  BY CountedStep DEF CountedTypes, Counts!TypeOK
<1>1. \A o \in Run \ {r} : pc'[o] = pc[o] /\ calling'[o] = calling[o] /\ Counts!At(o)' = Counts!At(o)
  BY CountedStep
<1>2. /\ Counts!At(r) \in Counts!Counter /\ Counts!At(r)[1] = Counts!Owner(r) /\ Counts!At(r)[2] = calling[r]
      /\ calling[r] \in Counts!Stage
      /\ stage_tokens[r] \in [Counts!Stage -> Nat] /\ sent[r] \in [Counts!Stage -> Nat]
  BY <1>0, CountsFacts
\* Another run of which nothing changes keeps its balance.
<1>3. ASSUME NEW o \in Run, o # r, \A s \in Counts!Stage : Balanced(o, s), NEW s \in Counts!Stage
      PROVE  Balanced(o, s)'
  BY <1>3, OthersKept, StillBalanced
<1>4. CASE Counts!Arrive(r)
  <2>1. /\ pc[r] = "idle" /\ pc'[r] = "ready" /\ last_prompt_tokens' = last_prompt_tokens
        /\ stage_tokens' = stage_tokens /\ sent' = sent /\ cut' = cut
        /\ alone' = IF Counts!UnderWay = {} THEN alone \cup {r} ELSE alone \ Counts!UnderWay
    BY <1>0, <1>4 DEF Counts!Arrive, Counts!TypeOK
  <2>2. Counts!UnderWay = {o \in Run : Busy(o)} /\ \A o \in Run : Busy(o)' <=> o = r \/ Busy(o)
    BY <1>1, <2>1 DEF Counts!UnderWay, Busy
  <2>3. r \notin alone
    BY <2>1 DEF OwnExact
  <2>4. ASSUME NEW a \in alone', Busy(a)', NEW o \in Run, Busy(o)' PROVE o = a
    <3>1. CASE Counts!UnderWay = {}
      BY <1>0, <2>1, <2>2, <2>4, <3>1
    <3>2. CASE Counts!UnderWay # {}
      <4>1. a \in alone /\ a \in Run /\ ~Busy(a) /\ a # r
        BY <1>0, <2>1, <2>2, <2>3, <2>4, <3>2
      <4>2. QED
        BY <2>2, <2>4, <4>1
    <3>3. QED
      BY <3>1, <3>2
  <2>5. ASSUME cut' = {}, NEW c \in Counts!Counter, c[2] # "feedback_guardrail", last_prompt_tokens'[c] # 0
        PROVE  \E o \in Run : pc'[o] = "awaiting" /\ Counts!At(o)' = c
    <3>1. PICK o \in Run : pc[o] = "awaiting" /\ Counts!At(o) = c
      BY <2>1, <2>5 DEF AloneExact
    <3>2. o # r
      BY <2>1, <3>1
    <3>3. QED
      BY <1>1, <3>1, <3>2
  <2>6. ASSUME cut' = {}, NEW a \in alone'
        PROVE  /\ \A s \in Counts!Stage : Balanced(a, s)'
               /\ pc'[a] = "awaiting" => last_prompt_tokens'[Counts!At(a)'] = Tokens[a]
    <3>1. CASE a = r
      <4>1. \A s \in Counts!Stage : stage_tokens[r][s] = 0 /\ sent[r][s] = 0
        BY <2>1 DEF OwnExact
      <4>2. QED
        BY <2>1, <3>1, <4>1 DEF Balanced
    <3>2. CASE a # r
      <4>1. a \in alone /\ a \in Run
        BY <1>0, <2>1, <3>2
      <4>2. (\A s \in Counts!Stage : Balanced(a, s)) /\ (pc[a] = "awaiting" => last_prompt_tokens[Counts!At(a)] = Tokens[a])
        BY <2>1, <2>6, <4>1 DEF AloneExact
      <4>3. QED
        BY <1>1, <1>3, <2>1, <3>2, <4>1, <4>2
    <3>3. QED
      BY <3>1, <3>2
  <2>7. QED
    BY <2>4, <2>5, <2>6 DEF AloneExact
<1>5. ASSUME ~Counts!Arrive(r) PROVE Busy(r) /\ alone' = alone
  <2>1. CASE Counts!AnswerAtOnce(r) \/ Counts!Answer(r)
    BY <2>1, EndOfCall
  <2>2. CASE Counts!Ask(r) \/ Counts!CutOff(r)
    BY <2>2 DEF Counts!Ask, Counts!CutOff, Busy
  <2>3. QED
    BY <1>5, <2>1, <2>2 DEF Move
<1>6. ASSUME ~Counts!Arrive(r), NEW a \in alone', Busy(a)', NEW o \in Run, Busy(o)' PROVE o = a
  <2>1. Busy(r) /\ a \in alone /\ a \in Run
    BY <1>0, <1>5, <1>6
  <2>2. Busy(a) /\ Busy(o)
    BY <1>1, <1>6, <2>1 DEF Busy
  <2>3. QED
    BY <2>1, <2>2 DEF AloneExact
\* A run that is alone now is the one that moves, or is over.
<1>7. ASSUME ~Counts!Arrive(r), NEW a \in alone, a # r
      PROVE  pc[a] # "awaiting" /\ pc'[a] # "awaiting"
  <2>1. a \in Run /\ Busy(r)
    BY <1>0, <1>5, <1>7
  <2>2. ~Busy(a)
    BY <1>7, <2>1 DEF AloneExact
  <2>3. QED
    BY <1>1, <1>7, <2>1, <2>2 DEF Busy
<1>8. CASE Counts!Ask(r)
  <2>1. /\ pc[r] = "ready" /\ pc'[r] = "awaiting" /\ stage_tokens' = stage_tokens /\ calling' = calling
        /\ sent' = [sent EXCEPT ![r][calling[r]] = @ + Tokens[r]]
        /\ last_prompt_tokens' = [last_prompt_tokens EXCEPT ![Counts!At(r)] = Tokens[r]]
        /\ last_prompt_tokens \in [Counts!Counter -> {0} \cup {Tokens[o] : o \in Run}]
        /\ alone' = alone /\ cut' = cut
    BY <1>0, <1>8 DEF Counts!Ask, Counts!TypeOK
  <2>2. Counts!At(r)' = Counts!At(r)
    BY <1>0, <2>1 DEF Counts!At, Counts!Owner
  <2>3. ASSUME cut' = {}, NEW c \in Counts!Counter, c[2] # "feedback_guardrail", last_prompt_tokens'[c] # 0
        PROVE  \E o \in Run : pc'[o] = "awaiting" /\ Counts!At(o)' = c
    <3>1. CASE c = Counts!At(r)
      BY <2>1, <2>2, <3>1
    <3>2. CASE c # Counts!At(r)
      <4>1. last_prompt_tokens[c] # 0
        BY <2>1, <2>3, <3>2
      <4>2. PICK o \in Run : pc[o] = "awaiting" /\ Counts!At(o) = c
        BY <2>1, <2>3, <4>1 DEF AloneExact
      <4>3. QED
        BY <1>1, <2>1, <4>2
    <3>3. QED
      BY <3>1, <3>2
  <2>4. ASSUME cut' = {}, NEW a \in alone'
        PROVE  /\ \A s \in Counts!Stage : Balanced(a, s)'
               /\ pc'[a] = "awaiting" => last_prompt_tokens'[Counts!At(a)'] = Tokens[a]
    <3>1. a \in alone /\ a \in Run /\ ~Counts!Arrive(r)
      BY <1>0, <1>8, <2>1, <2>4 DEF Counts!Arrive, Counts!Ask
    <3>2. \A s \in Counts!Stage : Balanced(a, s)
      BY <2>1, <2>4, <3>1 DEF AloneExact
    <3>3. CASE a = r
      <4>1. \A s \in Counts!Stage : sent'[r][s] = sent[r][s] + IF s = calling[r] THEN Tokens[r] ELSE 0
        <5>1. sent \in [Run -> [Counts!Stage -> Nat]] /\ Tokens[r] \in Nat
          BY <1>0, CountsConstants DEF Counts!TypeOK
        <5>2. QED
          BY <2>1, <5>1
      <4>2. \A s \in Counts!Stage : Balanced(a, s)'
        BY <1>2, <2>1, <3>2, <3>3, <4>1 DEF Balanced
      <4>3. last_prompt_tokens'[Counts!At(r)'] = Tokens[r]
        BY <1>2, <2>1, <2>2
      <4>4. QED
        BY <3>3, <4>2, <4>3
    <3>4. CASE a # r
      BY <1>3, <1>7, <3>1, <3>2, <3>4
    <3>5. QED
      BY <3>3, <3>4
  <2>5. ~Counts!Arrive(r)
    BY <2>1 DEF Counts!Arrive
  <2>6. QED
    BY <1>6, <2>3, <2>4, <2>5 DEF AloneExact
<1>9. CASE Counts!AnswerAtOnce(r) \/ Counts!Answer(r)
  <2>1. /\ pc[r] \in {"ready", "awaiting"} /\ pc'[r] \in {"ready", "over"}
        /\ \A c \in Counts!Counter : last_prompt_tokens'[c] \in {0, last_prompt_tokens[c]}
        /\ calling[r] # "feedback_guardrail" => last_prompt_tokens'[Counts!At(r)] = 0
        /\ sent' = sent /\ alone' = alone /\ cut' = cut
    BY <1>9, EndOfCall DEF Busy
  <2>2. ~Counts!Arrive(r)
    BY <2>1 DEF Counts!Arrive
  <2>3. ASSUME cut' = {}, NEW c \in Counts!Counter, c[2] # "feedback_guardrail", last_prompt_tokens'[c] # 0
        PROVE  \E o \in Run : pc'[o] = "awaiting" /\ Counts!At(o)' = c
    <3>1. last_prompt_tokens[c] # 0
      BY <2>1, <2>3
    <3>2. PICK o \in Run : pc[o] = "awaiting" /\ Counts!At(o) = c
      BY <2>1, <2>3, <3>1 DEF AloneExact
    <3>3. o # r
      BY <1>2, <2>1, <2>3, <3>2
    <3>4. QED
      BY <1>1, <3>2, <3>3
  <2>4. ASSUME cut' = {}, NEW a \in alone'
        PROVE  /\ \A s \in Counts!Stage : Balanced(a, s)'
               /\ pc'[a] = "awaiting" => last_prompt_tokens'[Counts!At(a)'] = Tokens[a]
    <3>1. a \in alone /\ a \in Run
      BY <1>0, <2>1, <2>4
    <3>2. /\ \A s \in Counts!Stage : Balanced(a, s)
          /\ pc[a] = "awaiting" => last_prompt_tokens[Counts!At(a)] = Tokens[a]
      BY <2>1, <2>4, <3>1 DEF AloneExact
    <3>3. CASE a = r
      <4>1. PICK read \in Nat :
              /\ \A o \in Run, s \in Counts!Stage : stage_tokens'[o][s] =
                   stage_tokens[o][s] + IF o = r /\ s = calling[r] THEN read ELSE 0
              /\ (calling[r] = "query_validation" =>
                    \A c \in {Pair(r, "postgres"), Pair(r, "mongo")} :
                      c # Counts!At(r) => last_prompt_tokens[c] = 0)
                 => read = IF pc[r] = "ready" THEN 0 ELSE last_prompt_tokens[Counts!At(r)]
        BY <1>9, EndOfCall
      <4>2. ASSUME calling[r] = "query_validation",
                   NEW c \in {Pair(r, "postgres"), Pair(r, "mongo")}, c # Counts!At(r)
            PROVE  last_prompt_tokens[c] = 0
        <5>1. c \in Counts!Counter /\ c[2] # "feedback_guardrail"
          BY <1>0, <4>2, CountsFacts DEF Pair, Counts!Counter, Counts!Engine
        <5>2. SUFFICES ASSUME last_prompt_tokens[c] # 0 PROVE FALSE
          OBVIOUS
        <5>3. PICK o \in Run : pc[o] = "awaiting" /\ Counts!At(o) = c
          BY <2>1, <2>4, <5>1, <5>2 DEF AloneExact
        <5>4. o = r
          BY <2>1, <3>1, <3>3, <5>3 DEF AloneExact, Busy
        <5>5. QED
          BY <4>2, <5>3, <5>4
      <4>3. read = IF pc[r] = "ready" THEN 0 ELSE last_prompt_tokens[Counts!At(r)]
        BY <4>1, <4>2
      <4>4. read = IF pc[r] = "awaiting" THEN Tokens[r] ELSE 0
        BY <2>1, <3>2, <3>3, <4>3
      <4>5. ASSUME NEW s \in Counts!Stage PROVE Balanced(r, s)'
        <5>1. stage_tokens'[r][s] = stage_tokens[r][s] + IF s = calling[r] THEN read ELSE 0
          BY <4>1
        <5>2. stage_tokens[r][s] \in Nat /\ Balanced(r, s)
          BY <1>2, <3>2, <3>3
        <5>3. sent'[r][s] = stage_tokens'[r][s] /\ stage_tokens'[r][s] \in Nat
          BY <2>1, <4>4, <5>1, <5>2 DEF Balanced
        <5>4. QED
          BY <2>1, <5>3 DEF Balanced
      <4>6. QED
        BY <2>1, <3>3, <4>5
    <3>4. CASE a # r
      BY <1>3, <1>7, <2>2, <3>1, <3>2, <3>4
    <3>5. QED
      BY <3>3, <3>4
  <2>5. QED
    BY <1>6, <2>2, <2>3, <2>4 DEF AloneExact
<1>10. CASE Counts!CutOff(r)
  <2>1. r \in cut' /\ ~Counts!Arrive(r)
    BY <1>10 DEF Counts!CutOff, Counts!Arrive
  <2>2. QED
    BY <1>6, <2>1 DEF AloneExact
<1>11. QED
  BY <1>4, <1>8, <1>9, <1>10 DEF Move

-----------------------------------------------------------------------------
(* Counts of tokens: the invariant                                         *)

CountsInv == CountedTypes /\ NoneTwice /\ OwnExact /\ AloneExact

LEMMA CountsInit == Counts!Init => CountsInv
BY CountedInit, NoneTwiceInit, ExactInit DEF CountsInv

LEMMA CountsStutter == CountsInv /\ UNCHANGED counts => CountsInv'
<1> SUFFICES ASSUME CountsInv, UNCHANGED counts PROVE CountsInv'
  OBVIOUS
<1>1. UNCHANGED <<pc, calling, engines, own, calls, last_prompt_tokens, stage_tokens, sent, alone, cut>>
  BY DEF counts
<1>2. CountedTypes'
  BY <1>1 DEF CountsInv, CountedTypes, Counts!TypeOK
<1>3. NoneTwice'
  BY <1>1 DEF CountsInv, NoneTwice
<1>4. \A r \in Run : Counts!At(r)' = Counts!At(r)
  BY <1>1 DEF Counts!At, Counts!Owner
<1>5. \A r \in Run, s \in Counts!Stage : Balanced(r, s)' <=> Balanced(r, s)
  BY <1>1 DEF Balanced
<1>6. \A r \in Run : Busy(r)' <=> Busy(r)
  BY <1>1 DEF Busy
<1>7. OwnExact'
  BY <1>1, <1>4, <1>5 DEF CountsInv, OwnExact, Checked
<1>8. alone \subseteq Run
  BY DEF CountsInv, CountedTypes, Counts!TypeOK
<1>9. AloneExact'
  BY <1>1, <1>4, <1>5, <1>6, <1>8 DEF CountsInv, AloneExact
<1>10. QED
  BY <1>2, <1>3, <1>7, <1>9 DEF CountsInv

LEMMA CountsStep == CountsInv /\ Counts!Next => CountsInv'
<1> SUFFICES ASSUME CountsInv, Counts!Next PROVE CountsInv'
  OBVIOUS
<1>1. CASE Counts!Over
  <2>1. UNCHANGED counts
    BY <1>1 DEF Counts!Over, Counts!vars, Counts!plan, counts
  <2>2. QED
    BY <2>1, CountsStutter
<1>2. CASE \E r \in Run : Move(r)
  BY <1>2, CountedStep, NoneTwiceStep, OwnStep, AloneStep DEF CountsInv
<1>3. QED
  BY <1>1, <1>2 DEF Counts!Next, Move

LEMMA CountsSound ==
  CountsInv => /\ Counts!TypeOK
               /\ Counts!NothingIsCountedTwice /\ Counts!AloneIsExact /\ Counts!OwnIsExact
<1> SUFFICES ASSUME CountsInv
             PROVE  /\ Counts!TypeOK
                    /\ Counts!NothingIsCountedTwice /\ Counts!AloneIsExact /\ Counts!OwnIsExact
  OBVIOUS
<1>1. Counts!TypeOK /\ alone \subseteq Run
  BY DEF CountsInv, CountedTypes, Counts!TypeOK
<1>2. /\ stage_tokens \in [Run -> [Counts!Stage -> Nat]] /\ sent \in [Run -> [Counts!Stage -> Nat]]
      /\ IsCounter(last_prompt_tokens)
  BY <1>1, CountsFacts DEF Counts!TypeOK
<1>3. Counts!NothingIsCountedTwice
  <2>1. SUFFICES ASSUME NEW s \in Checked
                 PROVE  Counts!Total(stage_tokens, s) + Leftover(s) <= Counts!Total(sent, s)
    BY DEF Counts!NothingIsCountedTwice, Checked, Leftover
  <2>2. s \in Counts!Stage /\ IsFiniteSet(Run)
    BY CountsConstants DEF Checked
  <2>3. IsFiniteSet(Counters(s)) /\ \A c \in Counters(s) : last_prompt_tokens[c] \in Nat
    BY <1>2, <2>2, CountersAreFinite DEF IsCounter, Counters
  <2>4. \A r \in Run : stage_tokens[r][s] \in Nat /\ sent[r][s] \in Nat
    BY <1>2, <2>2
  <2>5. /\ Counts!Total(stage_tokens, s) = Sum(Run, PerRun(stage_tokens, s))
        /\ Counts!Total(sent, s) = Sum(Run, PerRun(sent, s))
    BY <2>2, <2>4, TotalIsSum
  <2>6. Leftover(s) = Sum(Counters(s), On(last_prompt_tokens, s))
    BY <2>3, LeftoverIsSum
  <2>7. QED
    BY <2>5, <2>6 DEF CountsInv, NoneTwice
<1>4. Counts!AloneIsExact
  <2>1. SUFFICES ASSUME cut = {}, NEW r \in alone, Counts!Finished(r) PROVE stage_tokens[r] = sent[r]
    BY DEF Counts!AloneIsExact
  <2>2. r \in Run /\ pc[r] = "over"
    BY <1>1, <2>1 DEF Counts!Finished
  <2>3. \A s \in Counts!Stage : Balanced(r, s)
    BY <2>1 DEF CountsInv, AloneExact
  <2>4. stage_tokens[r] \in [Counts!Stage -> Nat] /\ sent[r] \in [Counts!Stage -> Nat]
    BY <1>2, <2>2
  <2>5. \A s \in Counts!Stage : stage_tokens[r][s] = sent[r][s]
    BY <2>2, <2>3, <2>4 DEF Balanced
  <2>6. QED
    BY <2>4, <2>5
<1>5. Counts!OwnIsExact
  <2>1. SUFFICES ASSUME NEW r \in Run, Counts!Finished(r), own[r], NEW s \in Checked
                 PROVE  stage_tokens[r][s] = sent[r][s]
    BY DEF Counts!OwnIsExact, Checked
  <2>2. pc[r] = "over" /\ r \notin cut
    BY <2>1 DEF Counts!Finished
  <2>3. Balanced(r, s)
    BY <2>1, <2>2 DEF CountsInv, OwnExact
  <2>4. stage_tokens[r][s] \in Nat
    BY <1>2 DEF Checked
  <2>5. QED
    BY <2>2, <2>3, <2>4 DEF Balanced
<1>6. QED
  BY <1>1, <1>3, <1>4, <1>5

CountsHold == part = "counts" => CountsInv

LEMMA CountsAlways == StagesSpec => []CountsHold
<1>1. StagesInit => CountsHold
  BY CountsInit DEF StagesInit, CountsHold
<1>2. CountsHold /\ [StagesNext]_all => CountsHold'
  <2> SUFFICES ASSUME CountsHold, [StagesNext]_all, part' = "counts" PROVE CountsInv'
    BY DEF CountsHold
  <2>1. part = "counts"
    BY DEF StagesNext, all
  <2>2. CountsInv
    BY <2>1 DEF CountsHold
  <2>3. Counts!Next \/ UNCHANGED counts
    BY <2>1 DEF StagesNext, all
  <2>4. QED
    BY <2>2, <2>3, CountsStep, CountsStutter
<1>3. QED
  BY <1>1, <1>2, PTL DEF StagesSpec

\* However the calls of any number of runs overlap and whichever are cut off,
\* no prompt is counted twice, and runs that keep out of each other's way are
\* counted exactly (last_prompt_tokens).
THEOREM ExactCounts == StagesSpec => []CountsAreSound
<1>1. CountsHold => CountsAreSound
  BY CountsSound DEF CountsHold, CountsAreSound
<1>2. QED
  BY <1>1, CountsAlways, PTL

=============================================================================
