----------------------------- MODULE Describe -----------------------------
(***************************************************************************)
(* The description stage (core/ingestion/schema/describe.py): the tables   *)
(* of a graph are grouped into batches bounded by tables and by columns,   *)
(* and the model is asked about one batch after the other.                 *)
(*                                                                         *)
(* Tables keep the order of the graph, so a table is its position there    *)
(* and a batch is a range of positions.  Of a table only its number of     *)
(* columns matters, of an answer only which tables it has an entry for;    *)
(* a model may well describe tables it was not asked about.                *)
(***************************************************************************)
EXTENDS Integers, Sequences

CONSTANTS
  batch_size, max_batch_columns,
  DESCRIBE_MAX_ATTEMPTS,
  Width,        \* numbers of columns a table may have
  MaxTables,    \* bound of the model: tables of a graph
  NoAnswer      \* of a table that has not been described

ASSUME BoundAssumption ==
  /\ batch_size \in Nat \ {0} /\ max_batch_columns \in Nat
  /\ DESCRIBE_MAX_ATTEMPTS \in Nat \ {0}
  /\ Width \subseteq Nat /\ MaxTables \in Nat
  /\ NoAnswer \notin Nat

VARIABLES
  nodes,          \* the columns of each table
  phase,          \* "chunking", "asking", "done" or "failed"
  batches,
  first, taken,   \* the batch being filled: first .. taken
  current_columns,
  asked, attempt, \* the batch being asked about
  descriptions    \* of each table, which batch's answer described it

vars == <<nodes, phase, batches, first, taken, current_columns, asked, attempt,
          descriptions>>

Table == DOMAIN nodes
Batch == [first : Nat, last : Nat, columns : Nat]
Current == [first |-> first, last |-> taken, columns |-> current_columns]

-----------------------------------------------------------------------------
(* _chunk_nodes                                                            *)

\* A mutant: the columns of the next table are not counted.
FullLate(columns) ==
  taken + 1 - first >= batch_size
    \/ (taken >= first /\ current_columns > max_batch_columns)

\* The table after the batch being filled does not go into it.
Full(columns) ==
  taken + 1 - first >= batch_size
    \/ (taken >= first /\ current_columns + columns > max_batch_columns)

AddToBatch ==
  /\ phase = "chunking" /\ taken < Len(nodes)
  /\ ~Full(nodes[taken + 1])
  /\ taken' = taken + 1
  /\ current_columns' = current_columns + nodes[taken + 1]
  /\ UNCHANGED <<nodes, phase, batches, first, asked, attempt, descriptions>>

CloseBatch ==
  /\ phase = "chunking" /\ taken < Len(nodes)
  /\ Full(nodes[taken + 1])
  /\ batches' = Append(batches, Current)
  /\ first' = taken + 1 /\ taken' = taken + 1
  /\ current_columns' = nodes[taken + 1]
  /\ UNCHANGED <<nodes, phase, asked, attempt, descriptions>>

LastBatch ==
  /\ phase = "chunking" /\ taken = Len(nodes)
  /\ batches' = IF taken >= first THEN Append(batches, Current) ELSE batches
  /\ phase' = "asking" /\ asked' = 1 /\ attempt' = 1
  /\ UNCHANGED <<nodes, first, taken, current_columns, descriptions>>

-----------------------------------------------------------------------------
(* describe_tables and _describe_batch                                     *)

Asked == batches[asked].first .. batches[asked].last

Asking == phase = "asking" /\ asked <= Len(batches)

\* The answer parses; a table it has no entry for gets an empty description.
Answered(entries) ==
  /\ Asking
  /\ descriptions' = [t \in Table |->
       IF t \in Asked THEN (IF t \in entries THEN asked ELSE 0)
       ELSE descriptions[t]]
  /\ asked' = asked + 1 /\ attempt' = 1
  /\ UNCHANGED <<nodes, phase, batches, first, taken, current_columns>>

AskAgain ==
  /\ Asking /\ attempt < DESCRIBE_MAX_ATTEMPTS
  /\ attempt' = attempt + 1
  /\ UNCHANGED <<nodes, phase, batches, first, taken, current_columns, asked,
                 descriptions>>

\* The last attempt did not parse, or a call to the model failed: what has
\* been described is lost.
GiveUp ==
  /\ Asking
  /\ phase' = "failed"
  /\ UNCHANGED <<nodes, batches, first, taken, current_columns, asked, attempt,
                 descriptions>>

Return ==
  /\ phase = "asking" /\ asked > Len(batches)
  /\ phase' = "done"
  /\ UNCHANGED <<nodes, batches, first, taken, current_columns, asked, attempt,
                 descriptions>>

Init ==
  /\ nodes \in UNION {[1 .. n -> Width] : n \in 0 .. MaxTables}
  /\ phase = "chunking" /\ batches = <<>>
  /\ first = 1 /\ taken = 0 /\ current_columns = 0
  /\ asked = 1 /\ attempt = 1
  /\ descriptions = [t \in Table |-> NoAnswer]

Next ==
  \/ AddToBatch \/ CloseBatch \/ LastBatch
  \/ \E entries \in SUBSET Table : Answered(entries)
  \/ AskAgain \/ GiveUp \/ Return

Spec == Init /\ [][Next]_vars

-----------------------------------------------------------------------------
(* Properties                                                              *)

\* Types of the loops' variables.
TypeOK ==
  /\ nodes \in Seq(Nat)
  /\ phase \in {"chunking", "asking", "done", "failed"}
  /\ batches \in Seq(Batch)
  /\ first \in Nat \ {0} /\ taken \in 0 .. Len(nodes)
  /\ current_columns \in Nat
  /\ asked \in 1 .. Len(batches) + 1
  /\ attempt \in 1 .. DESCRIBE_MAX_ATTEMPTS
  /\ descriptions \in [Table -> Nat \cup {NoAnswer}]

Start(b) == IF b = 1 THEN 1 ELSE batches[b - 1].last + 1

\* The batches hold every table exactly once, in the order of the graph, and
\* none of them is empty, however wide the tables are (_chunk_nodes).
EachTableOnce ==
  /\ \A b \in DOMAIN batches :
       batches[b].first = Start(b) /\ batches[b].first <= batches[b].last
  /\ phase # "chunking" => Start(Len(batches) + 1) = Len(nodes) + 1

\* No batch asks for more tables or more columns than one answer holds; only
\* a table wider than the bound is alone in a batch of its own.
BatchesAreBounded ==
  \A b \in DOMAIN batches :
    /\ batches[b].last + 1 - batches[b].first <= batch_size
    /\ \/ batches[b].columns <= max_batch_columns
       \/ batches[b].first = batches[b].last

\* The columns of the first n tables.
Upto[n \in 0 .. Len(nodes)] == IF n = 0 THEN 0 ELSE Upto[n - 1] + nodes[n]

\* A batch is closed early for the next table's sake only: neighbouring
\* tables stay together as far as the bounds allow.
BatchesAreGreedy ==
  \A b \in 1 .. Len(batches) - 1 :
    \/ batches[b].last + 1 - batches[b].first = batch_size
    \/ Upto[batches[b].last + 1] - Upto[batches[b].first - 1] > max_batch_columns

\* What describe_tables returns has one description for each table, and it
\* comes from an answer to the one prompt that showed the table's columns.
DescribedInOwnBatch ==
  /\ phase = "done" => \A t \in Table : descriptions[t] # NoAnswer
  /\ \A t \in Table : descriptions[t] \notin {NoAnswer, 0} =>
       /\ descriptions[t] \in DOMAIN batches
       /\ t \in batches[descriptions[t]].first .. batches[descriptions[t]].last
=============================================================================
