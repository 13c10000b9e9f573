------------------------------ MODULE Metadata ------------------------------
(***************************************************************************)
(* What PostgreSQLMetadataExtractor.extract_schema reads off a database    *)
(* (data/clients/postgres/metadata.py), and the check of the result        *)
(* (data/models/schema.py).  The connection commits every statement by     *)
(* itself, so the database may change between the three queries.           *)
(*                                                                         *)
(* A table has one unique constraint, its primary key; foreign keys refer  *)
(* to those.  Types and whether a column may be null are left out.         *)
(***************************************************************************)
EXTENDS Integers, Sequences, FiniteSets, Functions

CONSTANTS
  Table,       \* records of a schema and a name
  Column,
  KeyName,     \* of foreign keys, which must differ within a table only
  Lower,       \* the names in lower case
  MaxTables,   \* bounds the tables at the start
  MaxKeys,     \* bounds the foreign keys at the start
  MaxChanges   \* bounds the changes during an extraction

\* What holds of the constants.
Parameters ==
  /\ \A t \in Table : t.name \in DOMAIN Lower /\ t.schema \in DOMAIN Lower
  /\ \A t, u \in Table : t.schema = u.schema /\ t.name = u.name => t = u
  /\ MaxTables \in Nat /\ MaxKeys \in Nat /\ MaxChanges \in Nat

VARIABLES
  tables,  \* the columns and the primary key of each table of the database
  keys,    \* the foreign keys of the database
  access,  \* what the connection may do with the tables: read, write or own them
  phase,   \* the query that comes next, or how the extraction ended
  seen,    \* the tables listed
  fields,  \* the columns listed
  relationships,
  changes, \* of the database so far
  steady   \* the database is as it was when the columns were listed

database == <<tables, keys, access>>
vars == <<database, phase, seen, fields, relationships, changes, steady>>

-----------------------------------------------------------------------------
(* The database: tables, keys, and what information_schema shows of them   *)

Distinct == {s \in [1 .. 1 -> Column] \cup [1 .. 2 -> Column] : IsInjective(s)}
Shape == {s \in [columns : SUBSET Column, key : Distinct] : Range(s.key) \subseteq s.columns}
ForeignKey == [table : Table, name : KeyName, columns : Distinct, to : Table]

Fits(db, k) ==
  /\ {k.table, k.to} \subseteq DOMAIN db
  /\ Range(k.columns) \subseteq db[k.table].columns
  /\ Len(k.columns) = Len(db[k.to].key)

\* The columns that refer, and those that are referred to, one by one.
Pairs(k) == {[from |-> k.table, column |-> k.columns[i], to |-> k.to, target |-> tables[k.to].key[i]]
             : i \in DOMAIN k.columns}

\* A constraint is shown to those who may do more than read its table.
key_column_usage ==
  UNION {{[table |-> k.table, name |-> k.name, column |-> c] : c \in Range(k.columns)} : k \in keys}
referential_constraints ==
  IF access = "read" THEN {}
  ELSE {[schema |-> k.table.schema, name |-> k.name,
         unique_schema |-> k.to.schema, unique |-> k.to.name] : k \in keys}

\* Only columns of tables that the connection owns are shown here.
constraint_column_usage ==
  IF access # "own" THEN {}
  ELSE UNION {{[table |-> t, name |-> t.name, column |-> c] : c \in Range(tables[t].key)}
              : t \in DOMAIN tables}

-----------------------------------------------------------------------------
(* extract_schema                                                          *)

\* A mutant: the schemas of the constraints are not compared.
MatchesByName(k, r, u) == k.name = r.name /\ r.unique = u.name

\* The join of table_constraints adds nothing to that of the referential ones.
Matches(k, r, u) ==
  /\ k.name = r.name /\ k.table.schema = r.schema
  /\ r.unique = u.name /\ r.unique_schema = u.table.schema

Joined ==
  {[from |-> x[1].table, column |-> x[1].column, to |-> x[3].table, target |-> x[3].column]
   : x \in {y \in key_column_usage \X referential_constraints \X constraint_column_usage :
              Matches(y[1], y[2], y[3])}}

\* _format_table_name
CatalogName(t) == IF t.schema = "public" THEN <<t.name>> ELSE <<t.schema, t.name>>

Folded(t) == [i \in DOMAIN CatalogName(t) |-> Lower[CatalogName(t)[i]]]
SameName(s) == \E t, u \in s : t # u /\ Folded(t) = Folded(u)

\* validate_consistency
Consistent(columns, rels) ==
  /\ ~SameName(DOMAIN columns)
  /\ \A r \in rels : r.column \in columns[r.from] /\ r.target \in columns[r.to]

ListTables ==
  /\ phase = "tables"
  /\ seen' = DOMAIN tables /\ phase' = "columns"
  /\ UNCHANGED <<database, fields, relationships, changes, steady>>

ListColumns ==
  /\ phase = "columns"
  /\ fields' = [t \in seen |-> IF t \in DOMAIN tables THEN tables[t].columns ELSE {}]
  /\ phase' = "keys" /\ steady' = TRUE
  /\ UNCHANGED <<database, seen, relationships, changes>>

\* A mutant: the schema is not checked.
ListKeysUnchecked ==
  /\ phase = "keys"
  /\ relationships' = {r \in Joined : {r.from, r.to} \subseteq seen}
  /\ phase' = IF SameName(seen) THEN "refused" ELSE "done"
  /\ UNCHANGED <<database, seen, fields, changes, steady>>

ListKeys ==
  /\ phase = "keys"
  /\ relationships' = {r \in Joined : {r.from, r.to} \subseteq seen}
  /\ phase' = IF Consistent(fields, relationships') THEN "done" ELSE "refused"
  /\ UNCHANGED <<database, seen, fields, changes, steady>>

-----------------------------------------------------------------------------
(* What others do to the database meanwhile                                *)

Running == phase \in {"tables", "columns", "keys"}

Changing ==
  /\ Running /\ changes < MaxChanges
  /\ changes' = changes + 1 /\ steady' = FALSE
  /\ UNCHANGED <<access, phase, seen, fields, relationships>>

CreateTable ==
  /\ Changing
  /\ \E t \in Table \ DOMAIN tables, s \in Shape :
       tables' = [u \in DOMAIN tables \cup {t} |-> IF u = t THEN s ELSE tables[u]]
  /\ UNCHANGED keys

DropTable ==
  /\ Changing
  /\ \E t \in DOMAIN tables :
       /\ \A k \in keys : k.to = t => k.table = t
       /\ tables' = Restrict(tables, DOMAIN tables \ {t})
       /\ keys' = {k \in keys : k.table # t}

AddColumn ==
  /\ Changing
  /\ \E t \in DOMAIN tables : \E c \in Column \ tables[t].columns :
       tables' = [tables EXCEPT ![t].columns = @ \cup {c}]
  /\ UNCHANGED keys

AddKey ==
  /\ Changing
  /\ \E k \in ForeignKey :
       /\ Fits(tables, k)
       /\ ~\E l \in keys : l.table = k.table /\ l.name = k.name
       /\ keys' = keys \cup {k}
  /\ UNCHANGED tables

Init ==
  /\ \E s \in {r \in SUBSET Table : Cardinality(r) <= MaxTables} : tables \in [s -> Shape]
  /\ LET fit == {k \in ForeignKey : Fits(tables, k)} IN
     \E n \in 0 .. MaxKeys : \E f \in [1 .. n -> fit] :
       /\ keys = Range(f)
       /\ \A k, l \in keys : k.table = l.table /\ k.name = l.name => k = l
  /\ access \in {"read", "write", "own"}
  /\ phase = "tables" /\ seen = {} /\ fields = <<>> /\ relationships = {}
  /\ changes = 0 /\ steady = TRUE

Over == ~Running /\ UNCHANGED vars

Next == \/ ListTables \/ ListColumns \/ ListKeys
        \/ CreateTable \/ DropTable \/ AddColumn \/ AddKey \/ Over

Spec == Init /\ [][Next]_vars

-----------------------------------------------------------------------------
(* Properties                                                              *)

\* Type invariant.
TypeOK ==
  /\ DOMAIN tables \subseteq Table /\ Range(tables) \subseteq Shape
  /\ keys \subseteq ForeignKey /\ \A k \in keys : Fits(tables, k)
  /\ access \in {"read", "write", "own"}
  /\ phase \in {"tables", "columns", "keys", "done", "refused"}
  /\ seen \subseteq Table
  /\ DOMAIN fields \subseteq seen /\ \A t \in DOMAIN fields : fields[t] \subseteq Column
  /\ relationships \subseteq [from : Table, column : Column, to : Table, target : Column]
  /\ changes \in 0 .. MaxChanges /\ steady \in BOOLEAN

\* Names that differ in nothing but case; the public schema is no part of a name.
DifferInCase(t, u) ==
  /\ t # u /\ Lower[t.name] = Lower[u.name]
  /\ \/ t.schema = u.schema
     \/ "public" \notin {t.schema, u.schema} /\ Lower[t.schema] = Lower[u.schema]

\* However the database changed on the way, a schema that is accepted is closed:
\* its names differ, also in lower case, and its relationships join listed columns.
AcceptedIsClosed ==
  phase = "done" =>
    /\ ~\E t, u \in seen : DifferInCase(t, u)
    /\ \A r \in relationships :
         r.from \in seen /\ r.to \in seen
         /\ r.column \in fields[r.from] /\ r.target \in fields[r.to]

\* A schema is refused only for tables whose names differ in nothing but case,
\* or when the database changed after the columns were listed.
RefusalHasReason ==
  phase = "refused" => ~steady \/ \E t, u \in seen : DifferInCase(t, u)

\* To the owner of the tables no foreign key is lost, across schemas as within
\* one, with several columns or the names of other keys.
OwnerMissesNoKey ==
  (phase = "done" /\ changes = 0 /\ access = "own")
    => UNION {Pairs(k) : k \in keys} \subseteq relationships

\* If the keys of a schema have names of their own and one column each, what is
\* extracted is what the database has and nothing else.
PlainKeys ==
  \A k \in keys : /\ Len(k.columns) = 1
                  /\ \A l \in keys \ {k} : l.name = k.name => l.table.schema # k.table.schema
PlainKeysAreExact ==
  (phase = "done" /\ changes = 0 /\ PlainKeys)
    => relationships \subseteq UNION {Pairs(k) : k \in keys}
=============================================================================
