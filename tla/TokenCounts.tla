----------------------------- MODULE TokenCounts -----------------------------
(***************************************************************************)
(* How the tokens of a run's prompts are counted.  A stage leaves the size *)
(* of its prompt in an attribute, last_prompt_tokens, waits for the model, *)
(* and the adapter reads the attribute when the stage returns and sets it  *)
(* to zero (fsm/adapters.py).  The stages are shared by all runs of the    *)
(* process, unless a run brings providers of its own.                      *)
(*                                                                         *)
(* Everything runs on one event loop: an action lasts from one await to    *)
(* the next.  The order of the stages is that of Pipeline, loosely.        *)
(***************************************************************************)
EXTENDS Integers, FiniteSets, FiniteSetsExt

CONSTANTS
  Run,
  Shared,     \* the owner of the stages that all runs share
  Tokens,     \* the size of each run's prompts
  MaxCalls    \* bounds the calls of a run

\* What holds of the constants.
Parameters ==
  /\ IsFiniteSet(Run) /\ Shared \notin Run
  /\ Tokens \in [Run -> Nat \ {0}] /\ MaxCalls \in Nat \ {0}

Engine == {"postgres", "mongo"}
Stage == {"feedback_guardrail", "question_guardrail", "table_selection",
           "query_generation", "query_validation"}
Counter == (Run \cup {Shared}) \X Stage \X Engine

\* The stages that may follow one, retries included.
After == [feedback_guardrail |-> Stage \ {"question_guardrail"},
          question_guardrail |-> {"table_selection"},
          table_selection    |-> {"table_selection", "query_generation"},
          query_generation   |-> {"table_selection", "query_validation"},
          query_validation   |-> {"query_generation"}]

VARIABLES
  pc,      \* "idle", "ready" to call its stage, "awaiting" a model, or "over"
  stage,
  engine,  \* of the run's database
  own,     \* the run brings its own providers
  calls,   \* the calls of the run so far
  last_prompt_tokens,
  stage_tokens,  \* what is recorded for each run and stage
  sent,    \* history: the tokens that each run really sent at each stage
  alone,   \* history: the runs during which no other was under way
  cut      \* history: the runs with a call that failed or was cancelled

plan == <<engine, own>>
vars == <<pc, stage, plan, calls, last_prompt_tokens, stage_tokens, sent, alone, cut>>

-----------------------------------------------------------------------------
\* _get_stages_for_providers: but for one stage a run may have its own.
Owner(r) == IF own[r] /\ stage[r] # "feedback_guardrail" THEN r ELSE Shared

\* Generators and validators have a counter for each kind of database.
At(r) == <<Owner(r), stage[r],
           IF stage[r] \in {"query_generation", "query_validation"} THEN engine[r] ELSE "postgres">>

\* What an adapter reads; QueryValidator answers for both of its validators.
Read(r, counter) ==
  IF stage[r] = "query_validation"
  THEN Max({counter[<<Owner(r), stage[r], e>>] : e \in Engine})
  ELSE counter[At(r)]

\* A mutant: nothing is reset.
ResetNone(r, counter) == counter

\* What it resets then; the feedback guardrail keeps its counter.
Reset(r, counter) ==
  CASE stage[r] = "query_validation" ->
         [c \in Counter |-> IF c[1] = Owner(r) /\ c[2] = stage[r] THEN 0 ELSE counter[c]]
    [] stage[r] = "feedback_guardrail" -> counter
    [] OTHER -> [counter EXCEPT ![At(r)] = 0]

GoOn(r) ==
  /\ calls' = [calls EXCEPT ![r] = @ + 1]
  /\ \/ /\ calls[r] + 1 < MaxCalls
        /\ \E s \in After[stage[r]] : stage' = [stage EXCEPT ![r] = s]
        /\ pc' = [pc EXCEPT ![r] = "ready"]
     \/ /\ pc' = [pc EXCEPT ![r] = "over"]
        /\ UNCHANGED stage

\* The end of a call: the adapter reads and resets, the runner records.
Record(r, counter) ==
  /\ stage_tokens' = [stage_tokens EXCEPT ![r][stage[r]] = @ + Read(r, counter)]
  /\ last_prompt_tokens' = Reset(r, counter)
  /\ GoOn(r)

-----------------------------------------------------------------------------
UnderWay == {r \in Run : pc[r] \in {"ready", "awaiting"}}

\* A query begins with the question, a rerun with the feedback on it.
Arrive(r) ==
  /\ pc[r] = "idle"
  /\ pc' = [pc EXCEPT ![r] = "ready"]
  /\ \E s \in {"feedback_guardrail", "question_guardrail"} : stage' = [stage EXCEPT ![r] = s]
  /\ alone' = IF UnderWay = {} THEN alone \cup {r} ELSE alone \ UnderWay
  /\ UNCHANGED <<plan, calls, last_prompt_tokens, stage_tokens, sent, cut>>

Cleared(r) == [last_prompt_tokens EXCEPT ![At(r)] = 0]

\* Prohibited words, too long a feedback or a query that does not parse: the
\* stage answers by itself.  The feedback's answer then brings its own zero.
AnswerAtOnce(r) ==
  /\ pc[r] = "ready"
  /\ stage[r] \in {"feedback_guardrail", "question_guardrail", "query_validation"}
  /\ Record(r, Cleared(r))
  /\ UNCHANGED <<plan, sent, alone, cut>>

Ask(r) ==
  /\ pc[r] = "ready"
  /\ last_prompt_tokens' = [last_prompt_tokens EXCEPT ![At(r)] = Tokens[r]]
  /\ sent' = [sent EXCEPT ![r][stage[r]] = @ + Tokens[r]]
  /\ pc' = [pc EXCEPT ![r] = "awaiting"]
  /\ UNCHANGED <<stage, plan, calls, stage_tokens, alone, cut>>

\* An answer, or for guardrail and selector the want of one, which they hide.
Answer(r) ==
  /\ pc[r] = "awaiting"
  /\ Record(r, last_prompt_tokens)
  /\ UNCHANGED <<plan, sent, alone, cut>>

\* The stage raises, or the client left: nothing is read and nothing is reset.
CutOff(r) ==
  /\ pc[r] = "awaiting"
  /\ pc' = [pc EXCEPT ![r] = "over"] /\ cut' = cut \cup {r}
  /\ UNCHANGED <<stage, plan, calls, last_prompt_tokens, stage_tokens, sent, alone>>

Init ==
  /\ pc = [r \in Run |-> "idle"] /\ stage = [r \in Run |-> "question_guardrail"]
  /\ engine \in [Run -> Engine] /\ own \in [Run -> BOOLEAN]
  /\ calls = [r \in Run |-> 0]
  /\ last_prompt_tokens = [c \in Counter |-> 0]
  /\ stage_tokens = [r \in Run |-> [s \in Stage |-> 0]] /\ sent = stage_tokens
  /\ alone = {} /\ cut = {}

Over == (\A r \in Run : pc[r] = "over") /\ UNCHANGED vars

Next == \/ \E r \in Run : Arrive(r) \/ AnswerAtOnce(r) \/ Ask(r) \/ Answer(r) \/ CutOff(r)
        \/ Over

Spec == Init /\ [][Next]_vars

-----------------------------------------------------------------------------
(* Properties                                                              *)

\* Type invariant.
TypeOK ==
  /\ pc \in [Run -> {"idle", "ready", "awaiting", "over"}] /\ stage \in [Run -> Stage]
  /\ engine \in [Run -> Engine] /\ own \in [Run -> BOOLEAN]
  /\ calls \in [Run -> 0 .. MaxCalls]
  /\ last_prompt_tokens \in [Counter -> {0} \cup {Tokens[r] : r \in Run}]
  /\ stage_tokens \in [Run -> [Stage -> Nat]] /\ sent \in [Run -> [Stage -> Nat]]
  /\ alone \subseteq Run /\ cut \subseteq Run

Total(count, s) == MapThenSumSet(LAMBDA r : count[r][s], Run)

\* However the runs overlap, no prompt is counted twice: what is recorded at a
\* stage, and what is about to be, was sent there.  (Not so for feedback.)
NothingIsCountedTwice ==
  \A s \in Stage \ {"feedback_guardrail"} :
    Total(stage_tokens, s)
      + MapThenSumSet(LAMBDA c : last_prompt_tokens[c], {c \in Counter : c[2] = s})
    <= Total(sent, s)

Finished(r) == pc[r] = "over" /\ r \notin cut

\* One run after the other, none of them cut off: every count is exact.
AloneIsExact ==
  cut = {} => \A r \in alone : Finished(r) => stage_tokens[r] = sent[r]

\* A run with its own providers is counted exactly, whatever others do; but for
\* its feedback.
OwnIsExact ==
  \A r \in Run : Finished(r) /\ own[r] =>
    \A s \in Stage \ {"feedback_guardrail"} : stage_tokens[r][s] = sent[r][s]
=============================================================================
