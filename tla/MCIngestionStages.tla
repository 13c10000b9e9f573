------------------------- MODULE MCIngestionStages -------------------------
(***************************************************************************)
(* Small instances of the three parts of IngestionStages.                  *)
(***************************************************************************)
EXTENDS IngestionStages

CONSTANTS a, b, f, g

\* Two tables with two keys are enough for keys to be mixed up by name, since a
\* table may refer to itself; of three names two differ in the schema and two
\* in case.  Chains that find has to compress need four tables and a fourth
\* key that leads back into the chain.
MCRelation ==
  {[schema |-> "public", name |-> "orders"], [schema |-> "sales", name |-> "orders"],
   [schema |-> "public", name |-> "Orders"]}
MCLower == [orders |-> "orders", Orders |-> "orders", public |-> "public", sales |-> "sales"]
MCColumn == {a, b}
MCKeyName == {f, g}
=============================================================================
