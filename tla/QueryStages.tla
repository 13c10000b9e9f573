---------------------------- MODULE QueryStages ----------------------------
(***************************************************************************)
(* What the stages of a query do beside calling models: spelling           *)
(* correction (Spelling), the scope of the table selector (TableScope),    *)
(* the repair of its selection (JoinRepair) and the counts of tokens       *)
(* (TokenCounts).  Nothing but the schema's relationships is shared: a     *)
(* behaviour is about one of them, and the others stay where they start.   *)
(***************************************************************************)
EXTENDS Integers, Sequences

CONSTANTS
  SchemaTable,                                             \* the Table of
  Embedded, MaxSimilarity,                                 \* TableScope
  top_k, max_levels, max_tables, max_retries,              \* and JoinRepair
  Word, Separator, Lower, Technical, Stopword, Dictionary, \* as in Spelling
  Jargon, Spelled, Length, Near, MaxLength, MaxJargons,
  Run, Shared, Tokens, MaxCalls                            \* as in TokenCounts

VARIABLES
  part,
  relationships, scoping, selector_retries, candidates, seeds, walked, levels,
  queue, level, reached_from, offered, discarded, notice,
  allowed_keys, chosen, repairing, resolved, added, unjoinable, groups,
  question, jargons, checking, term, matches, text, position, corrected, corrections,
  pc, calling, engines, own, calls, last_prompt_tokens, stage_tokens, sent, alone, cut

scope == <<scoping, selector_retries, candidates, seeds, walked, levels, queue, level,
           reached_from, offered, discarded, notice>>
repair == <<allowed_keys, chosen, repairing, resolved, added, unjoinable, groups>>
spelling == <<question, jargons, checking, term, matches, text, position, corrected, corrections>>
counts == <<pc, calling, engines, own, calls, last_prompt_tokens, stage_tokens, sent, alone, cut>>

-----------------------------------------------------------------------------
Scope == INSTANCE TableScope WITH Table <- SchemaTable, phase <- scoping

Repair == INSTANCE JoinRepair
  WITH Table <- SchemaTable, selected <- chosen, phase <- repairing

Checker == INSTANCE Spelling WITH phase <- checking, result <- corrected

Counts == INSTANCE TokenCounts WITH stage <- calling, engine <- engines

ASSUME StagesAssumption ==
  Scope!Parameters /\ Repair!Parameters /\ Checker!Parameters /\ Counts!Parameters

-----------------------------------------------------------------------------
(* A part that is not the one the behaviour is about.                      *)

NoScope ==
  /\ scoping = "retrieving" /\ selector_retries = 0 /\ candidates = <<>> /\ seeds = <<>>
  /\ walked = 0 /\ levels = <<>> /\ queue = <<>> /\ level = <<>> /\ reached_from = <<>>
  /\ offered = {} /\ discarded = {} /\ notice = FALSE

NoRepair ==
  /\ allowed_keys = {} /\ chosen = <<>> /\ repairing = "grouping"
  /\ resolved = <<>> /\ added = <<>> /\ unjoinable = <<>> /\ groups = <<>>

NoSpelling ==
  /\ question = <<>> /\ jargons = <<>> /\ checking = "find" /\ term = 1 /\ matches = {}
  /\ text = <<>> /\ position = 1 /\ corrected = <<>> /\ corrections = <<>>

NoCounts ==
  /\ pc = <<>> /\ calling = <<>> /\ engines = <<>> /\ own = <<>> /\ calls = <<>>
  /\ last_prompt_tokens = <<>> /\ stage_tokens = <<>> /\ sent = <<>> /\ alone = {} /\ cut = {}

StagesInit ==
  \/ part = "scope" /\ Scope!Init /\ NoRepair /\ NoSpelling /\ NoCounts
  \/ part = "repair" /\ Repair!Init /\ NoScope /\ NoSpelling /\ NoCounts
  \/ part = "spelling" /\ relationships = {} /\ NoScope /\ NoRepair /\ Checker!Init /\ NoCounts
  \/ part = "counts" /\ relationships = {} /\ NoScope /\ NoRepair /\ NoSpelling /\ Counts!Init

StagesNext ==
  /\ UNCHANGED part
  /\ \/ part = "scope" /\ UNCHANGED <<repair, spelling, counts>> /\ Scope!Next
     \/ part = "repair" /\ UNCHANGED <<scope, spelling, counts>> /\ Repair!Next
     \/ part = "spelling" /\ UNCHANGED <<relationships, scope, repair, counts>> /\ Checker!Next
     \/ part = "counts" /\ UNCHANGED <<relationships, scope, repair, spelling>> /\ Counts!Next

all == <<part, relationships, scope, repair, spelling, counts>>
StagesSpec == StagesInit /\ [][StagesNext]_all

-----------------------------------------------------------------------------
(* Properties                                                              *)

\* In whatever order the seeds are walked, levels are distances; whatever the
\* caps cut off, what is offered can be joined, and nothing near is dropped for
\* something further away (build_table_neighborhood).
ScopeIsSound ==
  part = "scope" =>
    Scope!TypeOK /\ Scope!LevelsAreDistances /\ Scope!OfferedIsJoinable /\ Scope!NearestAreKept

\* A retry offers the tables of the attempt before and what else it finds, as
\* long as no cap cuts anything (BfsStrategy.scope).
RetryWidens == Scope!RetryWidens

\* What a repair returns can be joined, and what it leaves out could not be;
\* each turn joins groups, with no more tables than another bridge would have
\* needed (connect_selection).
RepairIsSound ==
  /\ [](part = "repair" => Repair!TypeOK /\ Repair!ResolvedIsJoinable)
  /\ Repair!GroupsShrink /\ Repair!SmallestRepairWins

\* No placeholder is left if the terms start and end in characters of words;
\* where none is left, a correction replaces something that the user wrote by
\* something that the corrected question has, and the longest term comes out as
\* the user spelled it.  Exempt words that are no jargon stay in any case
\* (SpellingChecker.check).
SpellingIsSound ==
  part = "spelling" =>
    /\ Checker!TypeOK /\ Checker!NothingIsLeft
    /\ Checker!CorrectionsAreReal /\ Checker!LongestTermIsKept /\ Checker!ExemptAreKept

\* However two runs overlap, no prompt is counted twice; one run after the
\* other, none of them cut off, or a run with its own providers is counted
\* exactly (last_prompt_tokens).
CountsAreSound ==
  part = "counts" =>
    /\ Counts!TypeOK
    /\ Counts!NothingIsCountedTwice /\ Counts!AloneIsExact /\ Counts!OwnIsExact
=============================================================================
