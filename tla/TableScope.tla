---------------------------- MODULE TableScope ----------------------------
(***************************************************************************)
(* What the table selector is shown under the "bfs" strategy               *)
(* (strategies/bfs.py, retrieval/vector.py, join_graph.py): the tables     *)
(* whose descriptions resemble the question, and those within a few        *)
(* foreign keys of them, over the retries of one run.                      *)
(*                                                                         *)
(* Tables are numbered in the order of their names and of the embeddings'  *)
(* file.  A similarity is a number, 0 for one that does not pass the       *)
(* threshold.  A join reads the same from either side, so a relationship   *)
(* is a set of two tables; one of a table to itself leads nowhere new.     *)
(***************************************************************************)
EXTENDS Integers, Sequences, SequencesExt, FiniteSetsExt

CONSTANTS
  Table,         \* the objects of the schema
  Embedded,      \* the objects that the embeddings' file has vectors of
  MaxSimilarity,
  top_k, max_levels, max_tables, max_retries

\* What holds of the constants.
Parameters ==
  /\ Table \subseteq Nat \ {0} /\ IsFiniteSet(Table)
  /\ Embedded \subseteq Nat \ {0} /\ IsFiniteSet(Embedded)
  /\ MaxSimilarity \in Nat /\ top_k \in Nat \ {0}
  /\ max_levels \in Nat /\ max_tables \in Nat /\ max_retries \in Nat

Candidate == [table_name : Embedded, similarity : 1 .. MaxSimilarity]
Unreached == max_levels + 1
Hops == 0 .. Unreached

VARIABLES
  relationships,
  phase,            \* "retrieving", "walking", "selecting" or "done"
  selector_retries,
  candidates,       \* what the strategy keeps between the attempts, in order
  seeds,
  walked,           \* the seeds whose walks are over
  levels, queue,    \* the walk that goes on
  level,            \* of the tables found so far
  reached_from,
  offered,          \* the schema view of the last attempt, {} before the first
  discarded,
  notice            \* the last attempt fell back to the whole schema

walk == <<walked, levels, queue, level, reached_from>>
vars == <<relationships, phase, selector_retries, candidates, seeds, walk,
          offered, discarded, notice>>

-----------------------------------------------------------------------------
(* VectorRetriever.retrieve                                                *)

Names(found) == [i \in DOMAIN found |-> found[i].table_name]

Sorted(S, before(_, _)) ==
  CHOOSE s \in SetToSeqs(S) : \A i, j \in DOMAIN s : i < j => before(s[i], s[j])

\* The elements at some positions, in order.
At(s, I) == LET at == Sorted(I, <) IN [i \in DOMAIN at |-> s[at[i]]]

First(k, s) == [i \in 1 .. Min({k, Len(s)}) |-> s[i]]

\* By similarity, those of the same one staying in their order.
Ranked(found) ==
  LET better(i, j) == \/ found[i].similarity > found[j].similarity
                      \/ found[i].similarity = found[j].similarity /\ i < j
      order == Sorted(DOMAIN found, better)
  IN [i \in DOMAIN found |-> found[order[i]]]

Retrieved(similarity) ==
  LET passing == Sorted({n \in Embedded : similarity[n] > 0}, <)
  IN First(top_k, Ranked([i \in DOMAIN passing |->
       [table_name |-> passing[i], similarity |-> similarity[passing[i]]]]))

-----------------------------------------------------------------------------
(* BfsStrategy.scope up to the walk                                        *)

\* What the walks find is local to an attempt.
NothingWalked ==
  /\ walked' = 0 /\ queue' = <<>>
  /\ levels' = [t \in Table |-> Unreached]
  /\ level' = [t \in Table |-> Unreached]
  /\ reached_from' = [t \in Table |-> {}]

\* TableSelectionAdapter: the strategy is unavailable, so the selector is
\* shown the whole schema.
FallBack ==
  /\ offered' = Table /\ discarded' = {} /\ notice' = TRUE
  /\ seeds' = <<>> /\ phase' = "selecting"
  /\ NothingWalked

\* build_table_neighborhood: names the schema does not have are skipped, and
\* without any seed there is nothing to narrow to.
BeginWalks(found) ==
  LET known == At(Names(found), {i \in DOMAIN found : found[i].table_name \in Table}) IN
  IF known = <<>> THEN FallBack
  ELSE /\ seeds' = known /\ phase' = "walking"
       /\ NothingWalked
       /\ UNCHANGED <<offered, discarded, notice>>

Again == selector_retries > 0 /\ candidates # <<>>

Seed(similarity) ==
  /\ phase = "retrieving" /\ ~Again
  /\ candidates' = Retrieved(similarity)
  /\ BeginWalks(candidates')
  /\ UNCHANGED <<relationships, selector_retries>>

\* The embedding call fails, or the embeddings' file does not load.
SeedFails ==
  /\ phase = "retrieving" /\ ~Again
  /\ FallBack
  /\ UNCHANGED <<relationships, selector_retries, candidates>>

\* A mutant: the new matches replace the old ones.
WidenReplacing(similarity) ==
  /\ phase = "retrieving" /\ Again
  /\ candidates' = Retrieved(similarity)
  /\ BeginWalks(First(top_k, Ranked(candidates')))
  /\ UNCHANGED <<relationships, selector_retries>>

\* _widen: the old matches in their order, each as similar as it ever was, and
\* the new ones behind them.
Merged(matches, new) ==
  LET old == Names(matches)
      fresh == At(new, {i \in DOMAIN new : new[i].table_name \notin Range(old)})
      best(n) == Max({c.similarity : c \in {d \in Range(matches \o new) : d.table_name = n}})
  IN [i \in DOMAIN old |-> [table_name |-> old[i], similarity |-> best(old[i])]] \o fresh

Widen(similarity) ==
  /\ phase = "retrieving" /\ Again
  /\ candidates' = Merged(candidates, Retrieved(similarity))
  /\ BeginWalks(First(top_k, Ranked(candidates')))
  /\ UNCHANGED <<relationships, selector_retries>>

WidenFails ==
  /\ phase = "retrieving" /\ Again
  /\ BeginWalks(First(top_k, Ranked(candidates)))
  /\ UNCHANGED <<relationships, selector_retries, candidates>>

-----------------------------------------------------------------------------
(* JoinGraph.bfs_levels, once for each seed                                *)

neighbors(t) == {u \in Table : u # t /\ {t, u} \in relationships}

StartWalk ==
  /\ phase = "walking" /\ queue = <<>> /\ walked < Len(seeds)
  /\ levels[seeds[walked + 1]] = Unreached
  /\ levels' = [levels EXCEPT ![seeds[walked + 1]] = 0]
  /\ queue' = <<seeds[walked + 1]>>
  /\ UNCHANGED <<relationships, phase, selector_retries, candidates, seeds,
                 walked, level, reached_from, offered, discarded, notice>>

Visit ==
  /\ queue # <<>>
  /\ LET current == Head(queue)
         found == IF levels[current] >= max_levels THEN {}
                  ELSE {t \in neighbors(current) : levels[t] = Unreached}
     IN /\ levels' = [t \in Table |->
              IF t \in found THEN levels[current] + 1 ELSE levels[t]]
        /\ queue' = Tail(queue) \o Sorted(found, <)
  /\ UNCHANGED <<relationships, phase, selector_retries, candidates, seeds,
                 walked, level, reached_from, offered, discarded, notice>>

\* A mutant: one visited set for all seeds.
EndWalkKeepingVisited ==
  /\ phase = "walking" /\ queue = <<>> /\ walked < Len(seeds)
  /\ levels[seeds[walked + 1]] # Unreached
  /\ level' = [t \in Table |-> Min({level[t], levels[t]})]
  /\ reached_from' = [t \in Table |->
       IF levels[t] # Unreached THEN reached_from[t] \cup {seeds[walked + 1]}
       ELSE reached_from[t]]
  /\ walked' = walked + 1
  /\ UNCHANGED <<relationships, phase, selector_retries, candidates, seeds,
                 levels, queue, offered, discarded, notice>>

EndWalk ==
  /\ phase = "walking" /\ queue = <<>> /\ walked < Len(seeds)
  /\ levels[seeds[walked + 1]] # Unreached
  /\ level' = [t \in Table |-> Min({level[t], levels[t]})]
  /\ reached_from' = [t \in Table |->
       IF levels[t] # Unreached THEN reached_from[t] \cup {seeds[walked + 1]}
       ELSE reached_from[t]]
  /\ walked' = walked + 1
  /\ levels' = [t \in Table |-> Unreached]
  /\ UNCHANGED <<relationships, phase, selector_retries, candidates, seeds,
                 queue, offered, discarded, notice>>

-----------------------------------------------------------------------------
(* build_table_neighborhood after the walks, and narrow_schema             *)

Discovered ==
  LET nearer(t, u) == \/ level[t] < level[u]
                      \/ level[t] = level[u] /\ t < u
  IN Sorted({t \in Table : level[t] # Unreached} \ Range(seeds), nearer)

Keep == IF max_tables = 0 THEN Cardinality(Table) ELSE Max({max_tables, Len(seeds)})

Collect ==
  /\ phase = "walking" /\ walked = Len(seeds)
  /\ LET ordered == seeds \o Discovered IN
       /\ offered' = Range(First(Keep, ordered))
       /\ discarded' = Range(ordered) \ offered'
  /\ notice' = FALSE
  /\ phase' = "selecting"
  /\ UNCHANGED <<relationships, selector_retries, candidates, seeds, walk>>

-----------------------------------------------------------------------------
(* The selection stage's answer (fsm/transition.py)                        *)

\* No table was selected, or the generator misses some.
Retry ==
  /\ phase = "selecting" /\ selector_retries < max_retries
  /\ selector_retries' = selector_retries + 1
  /\ phase' = "retrieving"
  /\ UNCHANGED <<relationships, candidates, seeds, walk, offered, discarded, notice>>

Proceed ==
  /\ phase = "selecting"
  /\ phase' = "done"
  /\ UNCHANGED <<relationships, selector_retries, candidates, seeds, walk,
                 offered, discarded, notice>>

Init ==
  /\ relationships \in SUBSET kSubset(2, Table)
  /\ phase = "retrieving" /\ selector_retries = 0
  /\ candidates = <<>> /\ seeds = <<>>
  /\ walked = 0 /\ queue = <<>>
  /\ levels = [t \in Table |-> Unreached] /\ level = [t \in Table |-> Unreached]
  /\ reached_from = [t \in Table |-> {}]
  /\ offered = {} /\ discarded = {} /\ notice = FALSE

Next ==
  \/ \E similarity \in [Embedded -> 0 .. MaxSimilarity] :
       Seed(similarity) \/ Widen(similarity)
  \/ SeedFails \/ WidenFails
  \/ StartWalk \/ Visit \/ EndWalk \/ Collect
  \/ Retry \/ Proceed

Spec == Init /\ [][Next]_vars

-----------------------------------------------------------------------------
(* Properties                                                              *)

\* Types of the strategy's state; a table is a candidate or a seed once.
TypeOK ==
  /\ relationships \subseteq kSubset(2, Table)
  /\ phase \in {"retrieving", "walking", "selecting", "done"}
  /\ selector_retries \in 0 .. max_retries
  /\ candidates \in Seq(Candidate) /\ IsInjective(Names(candidates))
  /\ seeds \in Seq(Table) /\ IsInjective(seeds) /\ Len(seeds) <= top_k
  /\ walked \in 0 .. Len(seeds) /\ queue \in Seq(Table)
  /\ levels \in [Table -> Hops] /\ level \in [Table -> Hops]
  /\ reached_from \in [Table -> SUBSET Range(seeds)]
  /\ offered \subseteq Table /\ discarded \subseteq Table /\ notice \in BOOLEAN

\* The tables within so many steps of a set.
Within(S) ==
  LET near(X) == X \cup UNION {neighbors(t) : t \in X}
      within[k \in 0 .. max_levels] == IF k = 0 THEN S ELSE near(within[k - 1])
  IN within

\* When all seeds have been walked, a table's level is its distance from the
\* nearest of them, and it names exactly the seeds that are near enough, in
\* whatever order the walks met it.
LevelsAreDistances ==
  phase = "walking" /\ walked = Len(seeds) =>
    \A t \in Table :
      /\ \A k \in 0 .. max_levels : level[t] <= k <=> t \in Within(Range(seeds))[k]
      /\ reached_from[t] = {s \in Range(seeds) : t \in Within({s})[max_levels]}

\* Whatever the caps cut off, every table that is offered can be joined to a
\* match by way of tables that are offered as well.
OfferedIsJoinable ==
  phase = "selecting" /\ ~notice =>
    \A t \in offered \ Range(seeds) :
      \E u \in offered : t \in neighbors(u) /\ level[u] < level[t]

\* No match is dropped for a table that was only discovered, and no discovered
\* table for one that is further away.
NearestAreKept ==
  phase = "selecting" /\ ~notice =>
    /\ Range(seeds) \subseteq offered
    /\ \A t \in offered \ Range(seeds), u \in discarded : level[t] <= level[u]
    /\ discarded # {} => Cardinality(offered) >= max_tables

\* A retry offers the tables of the attempt before and what else it finds, as
\* long as no cap cuts anything and the attempt before was not a fallback.
RetryWidens ==
  [][ offered' # offered /\ ~notice /\ discarded' = {} /\ Len(candidates) <= top_k
        => offered \subseteq offered' ]_vars
=============================================================================
