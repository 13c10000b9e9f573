-------------------------- MODULE IngestionStages --------------------------
(***************************************************************************)
(* What an ingestion computes in one piece: extracting a schema (Metadata), *)
(* reducing its foreign keys (SpanningForest) and describing its tables    *)
(* (Describe).  Each takes what the one before may give it in general, not *)
(* only what its instance here gives: a behaviour is about one of them,    *)
(* and the others stay where they start.                                   *)
(***************************************************************************)
EXTENDS Describe, FiniteSets

CONSTANTS
  Relation, Lower, Column, KeyName,       \* as in Metadata, a relation is its table
  MaxRelations, MaxReferences, MaxChanges,
  MaxNodes, MaxKeys                       \* as in SpanningForest, of MaxNodes tables

VARIABLES
  part,
  tables, keys, access, extracting, seen, fields, extracted, changes, steady,
  relationships, reducing, sorted_edges, mst_edges, parent, edge, item, root,
  root_a, visited, queue, ordered

extraction == <<tables, keys, access, extracting, seen, fields, extracted, changes, steady>>
reduction == <<relationships, reducing, sorted_edges, mst_edges, parent, edge, item, root,
               root_a, visited, queue, ordered>>

Extraction == INSTANCE Metadata
  WITH Table <- Relation, MaxTables <- MaxRelations, MaxKeys <- MaxReferences,
       phase <- extracting, relationships <- extracted

Reduction == INSTANCE SpanningForest WITH MaxTables <- MaxNodes, phase <- reducing

ASSUME InstanceAssumption == Extraction!Parameters /\ Reduction!Parameters

-----------------------------------------------------------------------------
\* A part that is not the one the behaviour is about.
NoExtraction ==
  /\ tables = <<>> /\ keys = {} /\ access = "own" /\ extracting = "tables"
  /\ seen = {} /\ fields = <<>> /\ extracted = {} /\ changes = 0 /\ steady = TRUE

NoReduction ==
  /\ relationships = {} /\ reducing = "edges" /\ sorted_edges = {} /\ mst_edges = <<>>
  /\ parent = [n \in 1 .. MaxNodes |-> n]
  /\ edge = [from |-> 1, to |-> 1] /\ item = 1 /\ root = 1 /\ root_a = 0
  /\ visited = {} /\ queue = <<>> /\ ordered = <<>>

NoDescription ==
  /\ nodes = <<>> /\ phase = "chunking" /\ batches = <<>> /\ first = 1 /\ taken = 0
  /\ current_columns = 0 /\ asked = 1 /\ attempt = 1 /\ descriptions = <<>>

\* In "changes" a database without keys, owned by the reader, changes during
\* its extraction: to no other are as many keys shown.
StagesInit ==
  \/ part = "extraction" /\ Extraction!Init /\ NoReduction /\ NoDescription
  \/ part = "changes" /\ keys = {} /\ access = "own" /\ Extraction!Init /\ NoReduction /\ NoDescription
  \/ part = "reduction" /\ NoExtraction /\ Reduction!Init /\ NoDescription
  \/ part = "description" /\ NoExtraction /\ NoReduction /\ Init

StagesNext ==
  /\ UNCHANGED part
  /\ \/ part = "extraction" /\ UNCHANGED <<vars, reduction, changes>> /\ Extraction!Next
     \/ part = "changes" /\ UNCHANGED <<vars, reduction>> /\ Extraction!Next
     \/ part = "reduction" /\ UNCHANGED <<vars, extraction>> /\ Reduction!Next
     \/ part = "description" /\ UNCHANGED <<extraction, reduction>> /\ Next

all == <<part, vars, extraction, reduction>>
StagesSpec == StagesInit /\ [][StagesNext]_all

\* One thread runs the reduction to its end.
FairStagesSpec == StagesSpec /\ WF_all(part = "reduction" /\ StagesNext)

-----------------------------------------------------------------------------
(* Properties                                                              *)

\* The batches hold every table once and in order, are as full as both bounds
\* allow and no fuller, and each table that is returned was described by the
\* answer to its own batch's prompt (_chunk_nodes, describe_tables).
DescriptionIsSound ==
  /\ TypeOK
  /\ EachTableOnce /\ BatchesAreBounded /\ BatchesAreGreedy
  /\ DescribedInOwnBatch

\* A schema that is accepted is closed, however the database changed meanwhile,
\* and one is refused only for names that differ in case, or for changes after
\* the columns were listed (extract_schema and SchemaMetadata's checks).
ExtractionIsSound ==
  /\ Extraction!TypeOK
  /\ Extraction!AcceptedIsClosed /\ Extraction!RefusalHasReason

\* To the owner of the tables no foreign key is lost, and keys with one column
\* and a name of their own are extracted as they are (_FOREIGN_KEYS_QUERY).
KeysAreFaithful == Extraction!OwnerMissesNoKey /\ Extraction!PlainKeysAreExact

\* In the middle of a path compression too, two tables have the same root
\* exactly when the edges chosen so far connect them; in the end those are a
\* spanning forest, and every table is ordered once, near to the first of its
\* tree before far from it (compute_minimum_spanning_tree).
ReductionIsSound ==
  /\ Reduction!TypeOK
  /\ Reduction!SetsAreTrees /\ Reduction!IsSpanningForest
  /\ Reduction!OrderFollowsForest

\* Both loops of find end however the sets were joined, and the reduction with
\* them (_UnionFind.find).
ReductionEnds == part = "reduction" ~> reducing = "done"
=============================================================================
