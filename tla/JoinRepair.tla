---------------------------- MODULE JoinRepair ----------------------------
(***************************************************************************)
(* connect_selection (core/query_processing/pipeline/join_graph.py): the   *)
(* tables that the selector chose are joined by adding the tables of the   *)
(* shortest bridges between their groups, and what no bridge reaches is    *)
(* reported.  One step is one turn of the loop.                            *)
(*                                                                         *)
(* Tables are numbered in the order of their names; a relationship is a    *)
(* set of two tables.                                                      *)
(***************************************************************************)
EXTENDS Integers, Sequences, SequencesExt, FiniteSetsExt

CONSTANT Table

\* What holds of the constant.
Parameters == Table \subseteq Nat /\ IsFiniteSet(Table)

VARIABLES
  relationships,
  allowed_keys,     \* the tables the selector was shown, and those it chose
  selected,
  phase,            \* "grouping", "bridging" or "done"
  resolved, added, unjoinable,
  groups            \* of the resolved tables, in the order of their first ones

given == <<relationships, allowed_keys, selected>>
vars == <<given, phase, resolved, added, unjoinable, groups>>

-----------------------------------------------------------------------------
(* _selection_components                                                   *)

neighbors(t) == {u \in Table : u # t /\ {t, u} \in relationships}

\* The tables that walks from S through tables of M reach: those of every set
\* that has S and that no such walk leaves.
Reach(S, M) ==
  LET closed(R) == \A t \in R : neighbors(t) \cap M \subseteq R
  IN {x \in S \cup M : \A R \in SUBSET (S \cup M) : S \subseteq R /\ closed(R) => x \in R}

\* The elements of s that are in S, in their order.
InOrder(I) == CHOOSE f \in SetToSeqs(I) : \A i, j \in DOMAIN f : i < j => f[i] < f[j]
Those(s, S) ==
  LET at == InOrder({i \in DOMAIN s : s[i] \in S}) IN [i \in DOMAIN at |-> s[at[i]]]

Group ==
  /\ phase = "grouping"
  /\ LET groupOf == [t \in Range(resolved) |-> Reach({t}, Range(resolved))]
         earliest == {t \in Range(resolved) : \A i \in DOMAIN resolved :
           resolved[i] \in groupOf[t] => \E j \in 1 .. i : resolved[j] = t}
         firsts == Those(resolved, earliest)
     IN groups' = [i \in DOMAIN firsts |-> groupOf[firsts[i]]]
  /\ phase' = "bridging"
  /\ UNCHANGED <<given, resolved, added, unjoinable>>

-----------------------------------------------------------------------------
(* _shortest_path_between                                                  *)

\* Walks from a group to another that pass no table of either in between.
Paths(left, right) ==
  {p \in SetToAllKPermutations(allowed_keys) \ {<<>>} :
     /\ p[1] \in left /\ p[Len(p)] \in right
     /\ \A i \in 1 .. Len(p) - 1 : p[i + 1] \in neighbors(p[i])
     /\ \A i \in 2 .. Len(p) - 1 : p[i] \notin left \cup right}

LessSeq(p, q) ==
  \E i \in DOMAIN p : p[i] < q[i] /\ \A j \in 1 .. i - 1 : p[j] = q[j]

\* The breadth-first search starts at the sources in order and looks at
\* neighbours in order, so it returns the first of the shortest paths.
Shortest(paths) ==
  CHOOSE p \in paths : \A q \in paths :
    \/ p = q
    \/ Len(p) < Len(q)
    \/ Len(p) = Len(q) /\ LessSeq(p, q)

\* A mutant: only groups that follow each other are looked at.
BridgesNext ==
  LET between(i) == Paths(groups[i], groups[i + 1])
  IN {Shortest(paths) : paths \in {between(i) : i \in 1 .. Len(groups) - 1} \ {{}}}

Bridges ==
  LET between(ij) == Paths(groups[ij[1]], groups[ij[2]])
      pairs == {ij \in (DOMAIN groups) \X (DOMAIN groups) : ij[1] < ij[2]}
  IN {Shortest(paths) : paths \in {between(ij) : ij \in pairs} \ {{}}}

-----------------------------------------------------------------------------
(* connect_selection                                                       *)

Joined ==
  /\ phase = "bridging" /\ Len(groups) <= 1
  /\ phase' = "done"
  /\ UNCHANGED <<given, resolved, added, unjoinable, groups>>

Bridge ==
  /\ phase = "bridging" /\ Len(groups) > 1 /\ Bridges # {}
  /\ LET best == Shortest(Bridges)
         new == Those(best, Range(best) \ Range(resolved))
     IN resolved' = resolved \o new /\ added' = added \o new
  /\ phase' = "grouping"
  /\ UNCHANGED <<given, unjoinable, groups>>

\* The largest group, the first of those that are.
core == groups[CHOOSE i \in DOMAIN groups :
                 \A j \in DOMAIN groups :
                   \/ Cardinality(groups[i]) > Cardinality(groups[j])
                   \/ Cardinality(groups[i]) = Cardinality(groups[j]) /\ i <= j]

GiveUp ==
  /\ phase = "bridging" /\ Len(groups) > 1 /\ Bridges = {}
  /\ resolved' = Those(resolved, core)
  /\ unjoinable' = Those(resolved, Range(resolved) \ core)
  /\ phase' = "done"
  /\ UNCHANGED <<given, added, groups>>

\* A selection of one table is returned as it is, like one without gaps.
Init ==
  /\ relationships \in SUBSET kSubset(2, Table)
  /\ selected \in SetToAllKPermutations(Table) \ {<<>>}
  /\ allowed_keys \in {Range(selected) \cup shown : shown \in SUBSET Table}
  /\ phase = "grouping"
  /\ resolved = selected /\ added = <<>> /\ unjoinable = <<>> /\ groups = <<>>

Next == Group \/ Joined \/ Bridge \/ GiveUp

Spec == Init /\ [][Next]_vars

-----------------------------------------------------------------------------
(* Properties                                                              *)

\* Types; no table is resolved twice, and none of them was not shown.
TypeOK ==
  /\ relationships \subseteq kSubset(2, Table)
  /\ allowed_keys \subseteq Table /\ phase \in {"grouping", "bridging", "done"}
  /\ resolved \in Seq(allowed_keys) /\ IsInjective(resolved)
  /\ added \in Seq(allowed_keys \ Range(selected))
  /\ unjoinable \in Seq(allowed_keys) /\ groups \in Seq(SUBSET allowed_keys)

\* What is returned can be joined as it stands, and what is reported as
\* unjoinable could not have been joined to it through any shown table.
ResolvedIsJoinable ==
  phase = "done" =>
    /\ Range(resolved) = Reach({Head(resolved)}, Range(resolved))
    /\ \A t \in Range(unjoinable) :
         t \notin Reach(Range(resolved), allowed_keys)
    /\ Range(selected) \subseteq Range(resolved) \cup Range(unjoinable)

\* Each turn joins groups, so that the loop ends.
GroupsShrink ==
  [][groups' # groups /\ groups # <<>> => Len(groups') < Len(groups)]_vars

\* No turn adds more tables than another bridge would have needed, however
\* many groups that one would have passed.
SmallestRepairWins ==
  [][ added' # added =>
        \A i, j \in DOMAIN groups : i < j =>
          \A p \in Paths(groups[i], groups[j]) :
            Len(added') - Len(added) <= Cardinality(Range(p) \ Range(resolved)) ]_vars
=============================================================================
