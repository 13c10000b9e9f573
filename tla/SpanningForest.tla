-------------------------- MODULE SpanningForest --------------------------
(***************************************************************************)
(* Reducing a schema's foreign keys to a spanning forest and ordering the  *)
(* tables along it (core/ingestion/schema/mst.py): Kruskal's algorithm     *)
(* over a union-find with path compression, then a breadth-first walk.     *)
(*                                                                         *)
(* Tables are numbered in the order of their names.  Every relationship of *)
(* a schema is between tables of it (the extraction keeps no other), so    *)
(* the filter on node ids lets all of them pass.  A second key from one    *)
(* table to another does what a key back does, and is left out.  Each turn *)
(* of the two loops of find is a step.                                     *)
(***************************************************************************)
EXTENDS Integers, Sequences, SequencesExt, FiniteSetsExt

CONSTANTS
  MaxTables,     \* the tables are 1 .. MaxTables
  MaxKeys        \* bound of the model: foreign keys of a schema

\* What holds of the constants.
Parameters ==
  MaxTables \in Nat \ {0} /\ MaxKeys \in Nat

node_ids == 1 .. MaxTables
Relationship == [from : node_ids, to : node_ids]

VARIABLES
  relationships,
  phase,           \* "edges", "finding", "walking" or "done"
  sorted_edges,    \* the edges that Kruskal's loop has not looked at
  mst_edges,
  parent,
  edge,            \* the edge that is looked at
  item, root,      \* the find that goes on
  root_a,          \* the result of a union's first find, 0 before
  visited, queue, ordered

finding == <<edge, item, root, root_a>>
walk == <<visited, queue, ordered>>
vars == <<relationships, phase, sorted_edges, mst_edges, parent, finding, walk>>

-----------------------------------------------------------------------------
(* compute_minimum_spanning_tree: the edges in the order of their tables;  *)
(* the names of the columns may put the edges of a table in any order      *)

NextEdge(e) ==
  /\ phase = "edges"
  /\ \A f \in sorted_edges : e.from <= f.from
  /\ edge' = e
  /\ phase' = "finding"
  /\ item' = e.from /\ root' = e.from /\ root_a' = 0
  /\ UNCHANGED <<relationships, sorted_edges, mst_edges, parent, walk>>

-----------------------------------------------------------------------------
(* _UnionFind.find                                                         *)

IsRoot(n) == parent[n] = n

Climb ==
  /\ phase = "finding" /\ ~IsRoot(root)
  /\ root' = parent[root]
  /\ UNCHANGED <<relationships, phase, sorted_edges, mst_edges, parent, edge,
                 item, root_a, walk>>

Compress ==
  /\ phase = "finding" /\ IsRoot(root) /\ parent[item] # root
  /\ parent' = [parent EXCEPT ![item] = root]
  /\ item' = parent[item]
  /\ UNCHANGED <<relationships, phase, sorted_edges, mst_edges, edge, root,
                 root_a, walk>>

Found == phase = "finding" /\ IsRoot(root) /\ parent[item] = root

-----------------------------------------------------------------------------
(* _UnionFind.union                                                        *)

OtherEnd ==
  /\ Found /\ root_a = 0
  /\ root_a' = root /\ item' = edge.to /\ root' = edge.to
  /\ UNCHANGED <<relationships, phase, sorted_edges, mst_edges, parent, edge, walk>>

\* A mutant: the first root is attached to the other table, connected or not.
UnionUnchecked ==
  /\ Found /\ root_a # 0
  /\ mst_edges' = Append(mst_edges, edge)
  /\ parent' = [parent EXCEPT ![root_a] = edge.to]
  /\ sorted_edges' = sorted_edges \ {edge}
  /\ phase' = "edges"
  /\ UNCHANGED <<relationships, finding, walk>>

Union ==
  /\ Found /\ root_a # 0
  /\ IF root_a = root THEN UNCHANGED <<mst_edges, parent>>
     ELSE /\ mst_edges' = Append(mst_edges, edge)
          /\ parent' = [parent EXCEPT ![root_a] = root]
  /\ sorted_edges' = sorted_edges \ {edge}
  /\ phase' = "edges"
  /\ UNCHANGED <<relationships, finding, walk>>

-----------------------------------------------------------------------------
(* _order_nodes_by_tree_traversal                                          *)

adjacency(n) == {m \in node_ids : \E i \in DOMAIN mst_edges :
                   {mst_edges[i].from, mst_edges[i].to} = {n, m}}

Walk ==
  /\ phase = "edges" /\ sorted_edges = {}
  /\ phase' = "walking"
  /\ UNCHANGED <<relationships, sorted_edges, mst_edges, parent, finding, walk>>

InOrder(S) ==
  CHOOSE s \in SetToSeqs(S) : \A i, j \in DOMAIN s : i < j => s[i] < s[j]

Start ==
  /\ phase = "walking" /\ queue = <<>> /\ visited # node_ids
  /\ queue' = <<Min(node_ids \ visited)>>
  /\ visited' = visited \cup {Min(node_ids \ visited)}
  /\ UNCHANGED <<relationships, phase, sorted_edges, mst_edges, parent, finding,
                 ordered>>

Visit ==
  /\ queue # <<>>
  /\ ordered' = Append(ordered, Head(queue))
  /\ LET neighbors == adjacency(Head(queue)) \ visited IN
       /\ visited' = visited \cup neighbors
       /\ queue' = Tail(queue) \o InOrder(neighbors)
  /\ UNCHANGED <<relationships, phase, sorted_edges, mst_edges, parent, finding>>

Return ==
  /\ phase = "walking" /\ queue = <<>> /\ visited = node_ids
  /\ phase' = "done"
  /\ UNCHANGED <<relationships, sorted_edges, mst_edges, parent, finding, walk>>

Init ==
  /\ relationships \in {{}} \cup {Range(key) : key \in [1 .. MaxKeys -> Relationship]}
  /\ phase = "edges" /\ sorted_edges = relationships /\ mst_edges = <<>>
  /\ parent = [n \in node_ids |-> n]
  /\ edge = [from |-> 1, to |-> 1] /\ item = 1 /\ root = 1 /\ root_a = 0
  /\ visited = {} /\ queue = <<>> /\ ordered = <<>>

Next ==
  \/ \E e \in sorted_edges : NextEdge(e)
  \/ Climb \/ Compress \/ OtherEnd \/ Union
  \/ Walk \/ Start \/ Visit \/ Return

Spec == Init /\ [][Next]_vars

-----------------------------------------------------------------------------
(* Properties                                                              *)

\* Types of what the function keeps; no table is ordered twice.
TypeOK ==
  /\ relationships \subseteq Relationship /\ sorted_edges \subseteq relationships
  /\ phase \in {"edges", "finding", "walking", "done"}
  /\ mst_edges \in Seq(relationships)
  /\ parent \in [node_ids -> node_ids]
  /\ edge \in Relationship /\ item \in node_ids /\ root \in node_ids /\ root_a \in node_ids \cup {0}
  /\ visited \subseteq node_ids
  /\ queue \in Seq(visited) /\ ordered \in Seq(visited)

\* The tables within so many steps from n along a set of edges, and all that
\* the edges connect with n: a closure that knows nothing of the union-find.
Within(edges, n) ==
  LET near(S) == S \cup {m \in node_ids : \E e \in edges :
                           \/ e.from \in S /\ m = e.to
                           \/ e.to \in S /\ m = e.from}
      within[k \in 0 .. MaxTables] == IF k = 0 THEN {n} ELSE near(within[k - 1])
  IN within

Joined(edges, n) == Within(edges, n)[MaxTables]

Trees(edges) == {Joined(edges, n) : n \in node_ids}

RootOf(n) ==
  LET climbed[k \in 0 .. MaxTables] == IF k = 0 THEN n ELSE parent[climbed[k - 1]]
  IN climbed[MaxTables]

\* In the middle of a compression too, every table has a root, and two tables
\* have the same one exactly when the edges chosen so far connect them; that
\* is what component_count and the choice of the next edge rely on.
SetsAreTrees ==
  /\ \A n \in node_ids : IsRoot(RootOf(n))
  /\ \A n, m \in node_ids :
       RootOf(n) = RootOf(m) <=> m \in Joined(Range(mst_edges), n)

\* The chosen edges have no cycle, whatever keys refer back and forth, and in
\* the end they connect what all the foreign keys connect; so node_count,
\* mst_edge_count and component_count agree.
IsSpanningForest ==
  /\ Len(mst_edges) + Cardinality(Trees(Range(mst_edges))) = MaxTables
  /\ phase \in {"walking", "done"} =>
       /\ Trees(Range(mst_edges)) = Trees(relationships)
       /\ Len(mst_edges) + Cardinality({RootOf(n) : n \in node_ids}) = MaxTables

\* The first table of n's tree, and the steps from there to n.
FirstOf(n) == Min(Joined(Range(mst_edges), n))

Depth(n) == Min({k \in 0 .. MaxTables : n \in Within(Range(mst_edges), FirstOf(n))[k]})

\* Every table comes once; trees follow each other by their first tables, and
\* within a tree no table comes before one nearer to the tree's first: batches
\* that are cut from the order hold connected tables as far as they can.
OrderFollowsForest ==
  /\ Cardinality(Range(ordered)) = Len(ordered)
  /\ phase = "done" => Range(ordered) = node_ids
  /\ \A j \in DOMAIN ordered : \A i \in 1 .. j - 1 :
       \/ FirstOf(ordered[i]) < FirstOf(ordered[j])
       \/ /\ FirstOf(ordered[i]) = FirstOf(ordered[j])
          /\ Depth(ordered[i]) <= Depth(ordered[j])
=============================================================================
