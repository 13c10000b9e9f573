------------------------------ MODULE SqlGate ------------------------------
(***************************************************************************)
(* One PostgreSQL query on its way from the text a model wrote to the rows *)
(* of a result: the extraction and the containment check of                *)
(* generators/postgres.py, the checks around the model's opinion of        *)
(* validators/postgres.py, policy.py, executor.py and results.py.          *)
(*                                                                         *)
(* A table is a schema and a name; the catalog writes it without its       *)
(* schema when that is "public".  A query is kept as what the checks look  *)
(* at: whether it parses, how many statements it has, of what kind it is,  *)
(* which tables it names as it names them, which names it gives to its own *)
(* parts, and whether one of the words of a modifying statement occurs     *)
(* anywhere in its text.                                                   *)
(***************************************************************************)
EXTENDS QueryResults, FiniteSets

CONSTANTS
  Home, Public, Name,  \* schemas, the default one, and names of tables
  NoHome,              \* a reference that names no schema
  Catalog,             \* the tables there are
  Written,             \* the queries a model may write
  MaxAvailable         \* rows the tables have to offer, at most

Table == [home : Home, name : Name]
Reference == [home : Home \cup {NoHome}, name : Name]
\* "write", "with_write" and "command" hold an expression that the policy lists,
\* "unlisted" stands for what changes something without one and holds a Select:
\* SELECT INTO, COPY of a query, MERGE that only deletes.
Kind == {"select", "compound", "unlisted", "values", "write", "with_write", "command"}
Query == [shape : {"empty", "broken", "parses"}, statements : 1 .. 2,
          quoted : BOOLEAN, mentions : BOOLEAN, kind : Kind,
          reads : SUBSET Reference, names : SUBSET Name]
NoQuery == [shape |-> "empty", statements |-> 1, quoted |-> FALSE,
            mentions |-> FALSE, kind |-> "values", reads |-> {}, names |-> {}]

ASSUME GateAssumption ==
  /\ Public \in Home /\ NoHome \notin Home /\ Catalog \subseteq Table
  /\ Written \subseteq Query /\ MaxAvailable \in Nat

ErrorType == {"VALID", "SYNTAX_ERROR", "PLANNER_ERROR", "UNSAFE",
              "GENERATION_ERROR", "SEMANTIC_ERROR", "SCHEMA_ERROR"}
Unstated == "unstated"

\* What the validating model says; "text" is the word false in quotes, and
\* "unclear" a verdict or an error that the code does not know.
Answer == [verdict : {"correct", "incorrect", "unclear", Unstated},
           error_type : {"VALID", "SYNTAX_ERROR", "UNSAFE", "unclear", Unstated},
           valid : {"yes", "no", "text", Unstated}]
Validation == [valid : BOOLEAN, error_type : ErrorType]
NoValidation == [valid |-> FALSE, error_type |-> "VALID"]

VARIABLES
  stage,       \* "generating", "missing", "validating", "rejected",
               \* "policing", "refused", "executing", "done" or "failed"
  selected,    \* tables of the relevant schema
  written,     \* the text the model wrote last
  query,       \* what was extracted from it
  missing,     \* tables a query needs and the selection lacks
  answer,      \* the validating model's, of the stages that follow it
  validation,
  available,   \* rows the query would return
  result

vars == <<stage, selected, written, query, missing, answer, validation,
          available, result>>

NoAnswer == [verdict |-> Unstated, error_type |-> Unstated, valid |-> Unstated]

-----------------------------------------------------------------------------
(* Names of tables                                                         *)

\* _format_table_name
CatalogName(t) == [t EXCEPT !.home = IF @ = Public THEN NoHome ELSE @]
Bare(r) == [r EXCEPT !.home = NoHome]

\* What a name means to PostgreSQL.
Resolved(r) == [r EXCEPT !.home = IF @ = NoHome THEN Public ELSE @]

ObjectNames(tables) == {CatalogName(t) : t \in tables}

\* The generator's set of names, and its test of one reference.
AllowedTables(tables) == ObjectNames(tables) \cup {Bare(t) : t \in tables}

\* A mutant: the names that a query defines itself are asked for as well.
UnselectedWithOwn(q, tables) ==
  {r \in q.reads : {r, Bare(r)} \cap AllowedTables(tables) = {}}

Unselected(q, tables) ==
  {r \in q.reads : /\ r.name \notin q.names
                   /\ {r, Bare(r)} \cap AllowedTables(tables) = {}}

\* The policy's test of the same.
TableExists(r, q, tables) ==
  \/ {r, Bare(r)} \cap ObjectNames(tables) # {}
  \/ r.name \in {t.name : t \in tables}
  \/ r.name \in q.names

-----------------------------------------------------------------------------
(* PostgresQueryGenerator                                                  *)

\* _extract_sql: the text ends at its first semicolon, be it one between two
\* statements or one inside a quoted value.
Extract(text) ==
  [text EXCEPT !.statements = 1,
               !.shape = IF @ = "parses" /\ text.quoted THEN "broken" ELSE @]

\* The containment check, which a query that does not parse skips.
Contained(q, tables) ==
  q.shape = "parses" /\ tables # {} => Unselected(q, tables) = {}

Generate(text) ==
  LET q == Extract(text) IN
  /\ stage = "generating"
  /\ written' = text
  /\ IF Contained(q, selected)
     THEN stage' = "validating" /\ query' = q /\ missing' = {}
     ELSE /\ stage' = "missing" /\ query' = NoQuery
          /\ missing' = Unselected(q, selected)
  /\ UNCHANGED <<selected, answer, validation, available, result>>

\* The model answers itself that information is missing, and names any tables.
AskForTables(tables) ==
  /\ stage = "generating"
  /\ stage' = "missing" /\ missing' = tables
  /\ written' = NoQuery /\ query' = NoQuery
  /\ UNCHANGED <<selected, answer, validation, available, result>>

GenerationFails ==
  /\ stage = "generating"
  /\ stage' = "failed"
  /\ UNCHANGED <<selected, written, query, missing, answer, validation,
                 available, result>>

\* The tables are selected again, with the missing ones as feedback.
Reselect(tables) ==
  /\ stage = "missing"
  /\ selected' = tables /\ stage' = "generating" /\ missing' = {}
  /\ written' = NoQuery
  /\ UNCHANGED <<query, answer, validation, available, result>>

-----------------------------------------------------------------------------
(* PostgresQueryValidator                                                  *)

\* The verdict overrides the other fields where it is a known one.
StatedError(a) ==
  CASE a.verdict = "correct"   -> "VALID"
    [] a.verdict = "incorrect" ->
         IF a.error_type \in ErrorType \ {"VALID"} THEN a.error_type
                                                   ELSE "SEMANTIC_ERROR"
    [] OTHER -> a.error_type

StatedValid(a) ==
  CASE a.verdict = "correct" -> "yes" [] a.verdict = "incorrect" -> "no"
    [] OTHER -> a.valid

KnownError(a) ==
  LET e == StatedError(a) IN
  IF e \in ErrorType THEN e
  ELSE IF e = Unstated \/ StatedValid(a) # "no" THEN "VALID" ELSE "SEMANTIC_ERROR"

ErrorTypeOf(a) ==
  IF KnownError(a) = "VALID" /\ StatedValid(a) = "no" THEN "SEMANTIC_ERROR"
                                                      ELSE KnownError(a)

\* A mutant: an error does not count against a stated validity.
ValidAsStated(a) == StatedValid(a)
ValidOf(a) == IF KnownError(a) # "VALID" THEN "no" ELSE StatedValid(a)

\* An answer without any "valid" does not make a ValidationResult.
Readable(a) == ValidOf(a) # Unstated

\* The query is parsed only where the answer accepts it; a quoted false is
\* true until the result is made of it.
Judged(a, q) ==
  IF ValidOf(a) \in {"yes", "text"} /\ q.shape # "parses"
  THEN [valid |-> FALSE, error_type |-> "SYNTAX_ERROR"]
  ELSE [valid |-> ValidOf(a) = "yes", error_type |-> ErrorTypeOf(a)]

\* transition: an unsafe query ends the run, any other rejection has the query
\* written again.
Conclude(v) ==
  /\ validation' = v
  /\ stage' = IF v.valid THEN "policing"
              ELSE IF v.error_type = "UNSAFE" THEN "refused" ELSE "rejected"
  /\ UNCHANGED <<selected, written, query, missing, available, result>>

\* The checks that need no model.
RejectAtOnce ==
  /\ stage = "validating"
  /\ query.shape = "empty" \/ query.mentions
  /\ answer' = NoAnswer
  /\ Conclude([valid |-> FALSE,
               error_type |-> IF query.shape = "empty" THEN "GENERATION_ERROR"
                                                       ELSE "UNSAFE"])

Ask(a) ==
  /\ stage = "validating" /\ query.shape # "empty" /\ ~query.mentions
  /\ Readable(a)
  /\ answer' = a
  /\ Conclude(Judged(a, query))

\* No answer, or one that cannot be read: with fail_fast nothing is accepted.
ValidationFails ==
  /\ stage = "validating" /\ query.shape # "empty" /\ ~query.mentions
  /\ stage' = "failed"
  /\ UNCHANGED <<selected, written, query, missing, answer, validation,
                 available, result>>

WriteAgain ==
  /\ stage = "rejected"
  /\ stage' = "generating"
  /\ query' = NoQuery /\ written' = NoQuery
  /\ answer' = NoAnswer /\ validation' = NoValidation
  /\ UNCHANGED <<selected, missing, available, result>>

-----------------------------------------------------------------------------
(* SafetyPolicyValidator, QueryExecutor, ResultProcessor                   *)

\* No expression of the prohibited types anywhere, and a root that is a Select
\* or a Union or holds a Select, as INTERSECT does; VALUES does not.
ReadOnlyRoot(q) == q.kind \notin {"write", "with_write", "command", "values"}

Allowed(q, tables) ==
  /\ q.shape = "parses" /\ q.statements = 1
  /\ ReadOnlyRoot(q)
  /\ \A r \in q.reads : TableExists(r, q, tables)

Police ==
  /\ stage = "policing"
  /\ stage' = IF Allowed(query, selected) THEN "executing" ELSE "refused"
  /\ UNCHANGED <<selected, written, query, missing, answer, validation,
                 available, result>>

\* fetchmany
Fetched(n) == Least(n, MaxRows)

Execute(n) ==
  /\ stage = "executing"
  /\ available' = n /\ result' = Process(Fetched(n)) /\ stage' = "done"
  /\ UNCHANGED <<selected, written, query, missing, answer, validation>>

ExecutionFails ==
  /\ stage = "executing"
  /\ stage' = "failed"
  /\ UNCHANGED <<selected, written, query, missing, answer, validation,
                 available, result>>

-----------------------------------------------------------------------------
Init ==
  /\ stage = "generating"
  /\ selected \in (SUBSET Catalog) \ {{}}
  /\ written = NoQuery /\ query = NoQuery /\ missing = {}
  /\ answer = NoAnswer /\ validation = NoValidation
  /\ available = 0 /\ result = NoResult

Over == stage \in {"done", "failed", "refused"} /\ UNCHANGED vars

Next ==
  \/ stage = "generating" /\ \E text \in Written : Generate(text)
  \/ \E t \in Catalog : AskForTables({CatalogName(t)})
  \/ \E tables \in (SUBSET Catalog) \ {{}} : Reselect(tables)
  \/ GenerationFails
  \/ RejectAtOnce
  \/ \E a \in Answer : Ask(a)
  \/ ValidationFails \/ WriteAgain
  \/ Police
  \/ \E n \in 0 .. MaxAvailable : Execute(n)
  \/ ExecutionFails
  \/ Over

Spec == Init /\ [][Next]_vars

-----------------------------------------------------------------------------
(* Properties                                                              *)

\* Type invariant.
TypeOK ==
  /\ stage \in {"generating", "missing", "validating", "rejected", "policing",
                "refused", "executing", "done", "failed"}
  /\ selected \in (SUBSET Catalog) \ {{}}
  /\ written \in Query /\ query \in Query /\ missing \subseteq Reference
  /\ answer \in Answer /\ validation \in Validation
  /\ available \in 0 .. MaxAvailable /\ result \in Result

Runs == stage \in {"executing", "done"}

\* What reaches the database is one statement that parses, and every table it
\* names, its own parts aside, has the name of a selected one, whatever the
\* model wrote, however often tables were selected again in between, and
\* whatever the validating model thought of it.  The schema that it names, and
\* whether it only reads, are another matter (OnlyReadsRun).
ExecutedIsContained ==
  Runs => /\ query.shape = "parses" /\ query.statements = 1
          /\ query.kind \notin {"write", "with_write", "command"}
          /\ \A r \in query.reads :
               r.name \in query.names \/ \E t \in selected : t.name = r.name

\* What the policy's docstring says of it: a query that runs only reads.  The
\* code breaks this with the kinds of statement that its list leaves out.
OnlyReads == Runs => query.kind \in {"select", "compound"}

\* A query runs only on an opinion in its favour: a verdict of correct, or,
\* without a known verdict, neither an error nor a "no".
Favourable(a) ==
  \/ a.verdict = "correct"
  \/ /\ a.verdict # "incorrect" /\ a.valid = "yes"
     /\ a.error_type \notin ErrorType \ {"VALID"}
ExecutedIsApproved == Runs => validation.valid /\ Favourable(answer)

\* The error that a validation states fits its outcome, except that a quoted
\* false is a rejection for no error: the retry is routed by the error.
RejectionsAreErrors ==
  stage \in {"rejected", "policing"} /\ answer.valid # "text" =>
    (validation.valid <=> validation.error_type = "VALID")

\* The generator and the policy test the same tables in two ways.  They agree:
\* the policy never refuses for its tables a query the generator let pass, so
\* no run ends on a table that a new selection could have brought.
ScopesAgree ==
  stage = "refused" /\ validation.valid =>
    query.shape # "parses" \/ query.kind \notin {"select", "compound", "unlisted"}

\* A selection is asked to be widened only by tables it really lacks.
MissingIsLacking ==
  stage = "missing" /\ written # NoQuery =>
    /\ missing # {} /\ missing \subseteq written.reads
    /\ \A r \in missing : Resolved(r) \notin selected

\* A sound query passes the whole gate: one reading statement over selected
\* tables and its own names is rejected or refused only for what the model
\* says of it, for a word of a modifying statement in its text, or because a
\* quoted semicolon cut it.
Sound(q) ==
  /\ q.shape = "parses" /\ q.kind \in {"select", "compound"}
  /\ ~q.quoted /\ ~q.mentions
  /\ \A r \in q.reads : r.name \in q.names \/ Resolved(r) \in selected
SoundQueriesPass ==
  Sound(written) =>
    /\ stage # "missing"
    /\ stage \in {"rejected", "refused"} => answer # NoAnswer /\ ~Favourable(answer)

\* No result has more rows than the settings allow.
ResultIsBounded == result.row_count <= MaxRows

\* The rows that the query returned are all there to be read (ResultProcessor).
ResultIsWhole == stage = "done" => IsWhole(result)
=============================================================================
