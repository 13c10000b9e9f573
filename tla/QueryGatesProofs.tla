-------------------------- MODULE QueryGatesProofs --------------------------
(***************************************************************************)
(* Proofs about QueryGates and QueryStages.                                *)
(*                                                                         *)
(* Whatever queries and opinions the models give, for any tables,          *)
(* collections and settings, the gates of both engines are sound.  The     *)
(* invariants say what is known of a query by the stage it has reached:    *)
(* which text it was extracted from, that the selection contains its       *)
(* tables, and on which opinion it was judged.                             *)
(*                                                                         *)
(* Whatever the schema and the similarities are, what the table selector   *)
(* is shown is sound.  The invariant of one walk says that its queue is in *)
(* the order of the levels and that all that is next to a table before the *)
(* queue has been found (Wave), the invariant of an attempt that the walks *)
(* that are over have left distances (Walks), and the invariant over the   *)
(* attempts that what was offered is near to a candidate (Offers).  Sorted *)
(* and shortened lists are known by the positions that they take (Takes).  *)
(*                                                                         *)
(* Whatever a question says and whatever terms it comes with, its spelling *)
(* is corrected soundly.  The invariant says that what is no placeholder   *)
(* still stands in the question (Stretches), that a term still to be       *)
(* replaced still fits where it was found (Fitting), that what a           *)
(* correction promises is in the output or awaited behind a placeholder    *)
(* (Visible), and that words left alone are never fewer, counted over the  *)
(* output and the rest of the text together (ExemptCounted).               *)
(*                                                                         *)
(* Whatever the schema and the selection are, the selection is repaired    *)
(* soundly.  The invariant says that the groups are what their members     *)
(* reach (Groups) and that, before they are formed anew, each of the old   *)
(* ones lies in one of the new and two of them in the same (Merging).  A   *)
(* shortest bridge adds no more tables than any other would (NoCheaper),   *)
(* and where no path leads from a group to another no walk does            *)
(* (NothingJoins).                                                         *)
(***************************************************************************)
EXTENDS QueryGates, QueryStages, Sequences, FiniteSetTheorems, WellFoundedInduction, TLAPS

-----------------------------------------------------------------------------
(* Results                                                                 *)

\* Every row of a result is shown or in the CSV text.
LEMMA Processed ==
  ASSUME NEW n \in Nat
  PROVE  Process(n) \in Result /\ Process(n).row_count = n /\ IsWhole(Process(n))
<1>1. PreviewRows \in Nat /\ Least(n, PreviewRows) \in Nat /\ Least(n, PreviewRows) <= n
  BY ResultAssumption DEF Least
<1>2. 1 .. n \in SUBSET Nat /\ 1 .. Least(n, PreviewRows) \in SUBSET Nat
  BY <1>1
<1>3. 1 .. Least(n, PreviewRows) \cup 1 .. n = 1 .. n
  BY <1>1
<1>4. CASE n >= LongResult
  BY <1>2, <1>3, <1>4 DEF Process, Csv, Result, IsWhole
<1>5. CASE ~(n >= LongResult)
  BY <1>2, <1>5 DEF Process, Csv, Result, IsWhole
<1>6. QED
  BY <1>4, <1>5

LEMMA NothingYet == NoResult \in Result /\ NoResult.row_count = 0
BY DEF NoResult, Result

-----------------------------------------------------------------------------
(* PostgreSQL: names of tables                                             *)

LEMMA Names ==
  ASSUME NEW t \in Table
  PROVE  /\ CatalogName(t) \in Reference /\ Bare(t) \in Reference
         /\ CatalogName(t).name = t.name /\ Bare(t).name = t.name
         /\ Bare(t).home = NoHome
         /\ CatalogName(t).home = IF t.home = Public THEN NoHome ELSE t.home
BY DEF Table, Reference, CatalogName, Bare

LEMMA References ==
  ASSUME NEW r \in Reference
  PROVE  /\ Bare(r) \in Reference /\ Bare(r).name = r.name /\ Bare(r).home = NoHome
         /\ Resolved(r).name = r.name
         /\ Resolved(r).home = IF r.home = NoHome THEN Public ELSE r.home
         /\ Resolved(r) \in Table
BY GateAssumption DEF Table, Reference, Bare, Resolved

\* A reference that the generator allows is one to the name of a table.
LEMMA AllowedByName ==
  ASSUME NEW tables \in SUBSET Table, NEW r \in Reference,
         {r, Bare(r)} \cap AllowedTables(tables) # {}
  PROVE  r.name \in {t.name : t \in tables}
<1>1. PICK x \in {r, Bare(r)} : x \in AllowedTables(tables)
  OBVIOUS
<1>2. PICK t \in tables : x = CatalogName(t) \/ x = Bare(t)
  BY <1>1 DEF AllowedTables, ObjectNames
<1>3. x.name = r.name /\ x.name = t.name
  BY <1>1, <1>2, Names, References
<1>4. QED
  BY <1>3

\* A reference that means a selected table is allowed.
LEMMA SelectedIsAllowed ==
  ASSUME NEW tables \in SUBSET Table, NEW r \in Reference, Resolved(r) \in tables
  PROVE  {r, Bare(r)} \cap AllowedTables(tables) # {}
<1>1. Bare(Resolved(r)) = Bare(r)
  BY References DEF Resolved, Bare, Reference
<1>2. Bare(r) \in AllowedTables(tables)
  BY <1>1 DEF AllowedTables
<1>3. QED
  BY <1>2

-----------------------------------------------------------------------------
(* PostgreSQL: opinions                                                    *)

LEMMA Opinions ==
  ASSUME NEW a \in Answer
  PROVE  /\ ValidOf(a) = "yes" <=> Favourable(a)
         /\ ErrorTypeOf(a) \in ErrorType
         /\ a.valid # "text" /\ Readable(a) =>
              (ValidOf(a) = "yes" <=> ErrorTypeOf(a) = "VALID")
         /\ ValidOf(a) \in {"yes", "no", "text", Unstated}
<1> DEFINE e == StatedError(a)
           v == StatedValid(a)
<1>1. /\ a.verdict \in {"correct", "incorrect", "unclear", Unstated}
      /\ a.error_type \in {"VALID", "SYNTAX_ERROR", "UNSAFE", "unclear", Unstated}
      /\ a.valid \in {"yes", "no", "text", Unstated}
  BY DEF Answer
<1>2. CASE a.verdict = "correct"
  <2>1. e = "VALID" /\ v = "yes"
    BY <1>2 DEF StatedError, StatedValid
  <2>2. QED
    BY <1>2, <2>1 DEF KnownError, ErrorTypeOf, ValidOf, Favourable, ErrorType, Unstated
<1>3. CASE a.verdict = "incorrect"
  <2>1. e \in ErrorType \ {"VALID"} /\ v = "no"
    BY <1>3 DEF StatedError, StatedValid, ErrorType
  <2>2. QED
    BY <1>3, <2>1 DEF KnownError, ErrorTypeOf, ValidOf, Favourable, ErrorType, Unstated
<1>4. CASE a.verdict \notin {"correct", "incorrect"}
  <2>1. e = a.error_type /\ v = a.valid
    BY <1>4 DEF StatedError, StatedValid
  <2> HIDE DEF e, v
  <2>2. /\ KnownError(a) = IF a.error_type \in {"VALID", "SYNTAX_ERROR", "UNSAFE"}
                           THEN a.error_type
                           ELSE IF a.error_type = "unstated" \/ a.valid # "no"
                                THEN "VALID" ELSE "SEMANTIC_ERROR"
    BY <1>1, <2>1 DEF KnownError, ErrorType, Unstated, e, v
  <2>3. QED
    BY <1>1, <1>4, <2>1, <2>2
    DEF ErrorTypeOf, ValidOf, Favourable, Readable, ErrorType, Unstated, e, v
<1>5. QED
  BY <1>2, <1>3, <1>4

LEMMA SilenceIsUnreadable == ~Readable(NoAnswer) /\ NoAnswer \in Answer
BY DEF NoAnswer, Readable, ValidOf, KnownError, StatedError, StatedValid,
       ErrorType, Unstated, Answer

-----------------------------------------------------------------------------
(* PostgreSQL: the inductive invariant                                     *)

\* The query is what was extracted from the text, and the selection contains
\* its tables, or it does not parse.
Extracted == query = Extract(written) /\ Contained(query, selected)

\* The validation is that of the checks or of the answer.
Concluded ==
  \/ /\ answer = NoAnswer /\ (query.shape = "empty" \/ query.mentions)
     /\ ~validation.valid /\ validation.error_type \in {"GENERATION_ERROR", "UNSAFE"}
  \/ /\ query.shape # "empty" /\ ~query.mentions
     /\ Readable(answer) /\ validation = Judged(answer, query)

SqlInv ==
  /\ TypeOK
  /\ stage = "generating" => written = NoQuery
  /\ stage = "missing" /\ written # NoQuery =>
       LET q == Extract(written) IN
       ~Contained(q, selected) /\ missing = Unselected(q, selected)
  /\ stage \in {"validating", "rejected", "policing", "refused", "executing", "done"}
       => Extracted
  /\ stage \in {"rejected", "policing", "refused", "executing", "done"} => Concluded
  /\ stage = "rejected" => ~validation.valid
  /\ stage \in {"policing", "executing", "done"} => validation.valid
  /\ stage = "refused" /\ validation.valid => ~Allowed(query, selected)
  /\ stage \in {"executing", "done"} => Allowed(query, selected)
  /\ result.row_count <= MaxRows
  /\ stage = "done" => IsWhole(result)

LEMMA QueryTypes ==
  /\ NoQuery \in Query
  /\ \A q \in Query : /\ q.reads \subseteq Reference
                      /\ \A tables : Unselected(q, tables) \subseteq Reference
<1>1. NoQuery \in Query
  BY DEF NoQuery, Query, Kind
<1>2. \A q \in Query : q.reads \subseteq Reference
  BY DEF Query
<1>3. QED
  BY <1>1, <1>2 DEF Unselected

LEMMA Extracts ==
  ASSUME NEW said \in Query
  PROVE  /\ Extract(said) \in Query /\ Extract(said).statements = 1
         /\ Extract(said).reads = said.reads /\ Extract(said).names = said.names
         /\ Extract(said).kind = said.kind /\ Extract(said).mentions = said.mentions
         /\ Extract(said).shape = IF said.shape = "parses" /\ said.quoted THEN "broken"
                                  ELSE said.shape
<1>1. /\ said.shape \in {"empty", "broken", "parses"} /\ said.quoted \in BOOLEAN
      /\ 1 \in 1 .. 2
  BY DEF Query
<1>2. PICK shape \in {"empty", "broken", "parses"} :
        shape = IF said.shape = "parses" /\ said.quoted THEN "broken" ELSE said.shape
  BY <1>1
<1>3. Extract(said) = [said EXCEPT !.statements = 1, !.shape = shape]
  BY <1>2 DEF Extract
<1>4. [said EXCEPT !.statements = 1, !.shape = shape] \in Query
  BY <1>1 DEF Query
<1>5. QED
  BY <1>2, <1>3, <1>4 DEF Query

LEMMA SqlInit == Init => SqlInv
<1> SUFFICES ASSUME Init PROVE SqlInv
  OBVIOUS
<1>1. TypeOK
  BY QueryTypes, NothingYet, SilenceIsUnreadable, GateAssumption
  DEF Init, TypeOK, NoValidation, Validation, ErrorType
<1>2. result.row_count <= MaxRows
  BY NothingYet, ResultAssumption DEF Init
<1>3. QED
  BY <1>1, <1>2 DEF Init, SqlInv

LEMMA JudgedTypes ==
  ASSUME NEW a \in Answer, NEW q
  PROVE  Judged(a, q) \in Validation
BY Opinions DEF Judged, Validation, ErrorType

\* What every conclusion leaves alone.
LEMMA SqlConcludes ==
  ASSUME SqlInv, stage = "validating", NEW v \in Validation, Conclude(v),
         answer' \in Answer, Concluded'
  PROVE  SqlInv'
<1>1. TypeOK'
  BY DEF SqlInv, TypeOK, Conclude
<1>2. Extracted'
  BY DEF SqlInv, Conclude, Extracted
<1>3. stage' = "policing" <=> validation'.valid
  BY DEF Conclude
<1>4. QED
  BY <1>1, <1>2, <1>3 DEF SqlInv, Conclude

LEMMA SqlStep == SqlInv /\ [Next]_vars => SqlInv'
<1> SUFFICES ASSUME SqlInv, [Next]_vars PROVE SqlInv'
  OBVIOUS
<1>1. CASE stage = "generating" /\ \E said \in Written : Generate(said)
  <2>1. PICK said \in Written : Generate(said)
    BY <1>1
  <2>2. said \in Query
    BY GateAssumption
  <2>3. TypeOK'
    BY <2>1, <2>2, QueryTypes, Extracts DEF Generate, SqlInv, TypeOK
  <2>4. QED
    BY <2>1, <2>3 DEF Generate, SqlInv, Extracted
<1>2. CASE \E t \in Catalog : AskForTables({CatalogName(t)})
  <2>1. PICK t \in Catalog : AskForTables({CatalogName(t)})
    BY <1>2
  <2>2. CatalogName(t) \in Reference
    BY GateAssumption, Names
  <2>3. QED
    BY <2>1, <2>2, QueryTypes DEF AskForTables, SqlInv, TypeOK
<1>3. CASE \E tables \in (SUBSET Catalog) \ {{}} : Reselect(tables)
  BY <1>3, QueryTypes DEF Reselect, SqlInv, TypeOK
<1>4. CASE GenerationFails \/ ExecutionFails \/ ValidationFails
  BY <1>4 DEF GenerationFails, ExecutionFails, ValidationFails, SqlInv, TypeOK
<1>5. CASE RejectAtOnce
  <2> DEFINE v == [valid |-> FALSE,
                   error_type |-> IF query.shape = "empty" THEN "GENERATION_ERROR"
                                                           ELSE "UNSAFE"]
  <2>1. v \in Validation /\ Conclude(v) /\ answer' = NoAnswer
    BY <1>5 DEF RejectAtOnce, Validation, ErrorType
  <2>2. Concluded'
    BY <1>5 DEF RejectAtOnce, Conclude, Concluded
  <2>3. stage = "validating"
    BY <1>5 DEF RejectAtOnce
  <2>4. QED
    BY <2>1, <2>2, <2>3, SilenceIsUnreadable, SqlConcludes
<1>6. CASE \E a \in Answer : Ask(a)
  <2>1. PICK a \in Answer : Ask(a)
    BY <1>6
  <2>2. Judged(a, query) \in Validation
    BY JudgedTypes
  <2>3. Concluded'
    BY <2>1 DEF Ask, Conclude, Concluded
  <2>4. QED
    BY <2>1, <2>2, <2>3, SqlConcludes DEF Ask
<1>7. CASE WriteAgain
  BY <1>7, QueryTypes, SilenceIsUnreadable
  DEF WriteAgain, SqlInv, TypeOK, NoValidation, Validation, ErrorType
<1>8. CASE Police
  <2>1. TypeOK' /\ Extracted' /\ Concluded'
    BY <1>8 DEF Police, SqlInv, TypeOK, Extracted, Concluded
  <2>2. QED
    BY <1>8, <2>1 DEF Police, SqlInv
<1>9. CASE \E n \in 0 .. MaxAvailable : Execute(n)
  <2>1. PICK n \in 0 .. MaxAvailable : Execute(n)
    BY <1>9
  <2>2. Fetched(n) \in Nat /\ Fetched(n) <= MaxRows
    BY ResultAssumption, GateAssumption DEF Fetched, Least
  <2>3. result' \in Result /\ result'.row_count <= MaxRows /\ IsWhole(result')
    BY <2>1, <2>2, Processed DEF Execute
  <2>4. TypeOK' /\ Extracted' /\ Concluded'
    BY <2>1, <2>3 DEF Execute, SqlInv, TypeOK, Extracted, Concluded
  <2>5. QED
    BY <2>1, <2>3, <2>4 DEF Execute, SqlInv
<1>10. CASE Over \/ UNCHANGED vars
  <2>1. UNCHANGED vars
    BY <1>10 DEF Over
  <2>2. QED
    BY <2>1 DEF vars, SqlInv, TypeOK, Extracted, Concluded
<1>11. QED
  BY <1>1, <1>2, <1>3, <1>4, <1>5, <1>6, <1>7, <1>8, <1>9, <1>10 DEF Next

-----------------------------------------------------------------------------
(* PostgreSQL: what the invariant implies                                  *)

\* On the answer's word, a query that parses is valid just if it favours it.
LEMMA JudgedRight ==
  ASSUME TypeOK, Concluded
  PROVE  /\ validation.valid => answer # NoAnswer /\ Favourable(answer)
                                /\ query.shape = "parses"
         /\ ~query.mentions /\ query.shape = "parses" =>
              answer # NoAnswer /\ (validation.valid <=> Favourable(answer))
         /\ answer.valid # "text" =>
              (validation.valid <=> validation.error_type = "VALID")
<1>1. answer \in Answer /\ query \in Query
  BY DEF TypeOK
<1>2. CASE /\ answer = NoAnswer /\ (query.shape = "empty" \/ query.mentions)
           /\ ~validation.valid /\ validation.error_type \in {"GENERATION_ERROR", "UNSAFE"}
  BY <1>2
<1>3. CASE Readable(answer) /\ validation = Judged(answer, query)
  <2>1. answer # NoAnswer
    BY <1>3, SilenceIsUnreadable
  <2>2. /\ ValidOf(answer) \in {"yes", "no", "text"}
        /\ ValidOf(answer) = "yes" <=> Favourable(answer)
        /\ answer.valid # "text" =>
             (ValidOf(answer) = "yes" <=> ErrorTypeOf(answer) = "VALID")
    BY <1>1, <1>3, Opinions DEF Readable, Unstated
  <2>3. CASE ValidOf(answer) \in {"yes", "text"} /\ query.shape # "parses"
    <3>1. validation = [valid |-> FALSE, error_type |-> "SYNTAX_ERROR"]
      BY <1>3, <2>3 DEF Judged
    <3>2. QED
      BY <2>3, <3>1
  <2>4. CASE ~(ValidOf(answer) \in {"yes", "text"} /\ query.shape # "parses")
    <3>1. validation = [valid |-> ValidOf(answer) = "yes",
                        error_type |-> ErrorTypeOf(answer)]
      BY <1>3, <2>4 DEF Judged
    <3>2. /\ validation.valid <=> ValidOf(answer) = "yes"
          /\ validation.error_type = ErrorTypeOf(answer)
      BY <3>1
    <3>3. QED
      BY <2>1, <2>2, <2>4, <3>2
  <2>5. QED
    BY <2>3, <2>4
<1>4. QED
  BY <1>2, <1>3 DEF Concluded

LEMMA Scopes == SqlInv => ScopesAgree
<1> SUFFICES ASSUME SqlInv, stage = "refused", validation.valid,
                    query.shape = "parses",
                    query.kind \in {"select", "compound", "unlisted"}
             PROVE  FALSE
  BY DEF ScopesAgree
<1>1. query \in Query /\ selected \in SUBSET Table /\ selected # {}
  BY GateAssumption DEF SqlInv, TypeOK
<1>2. ~Allowed(query, selected) /\ Unselected(query, selected) = {}
  BY <1>1 DEF SqlInv, Extracted, Contained
<1>3. query.statements = 1
  <2>1. query = Extract(written) /\ written \in Query
    BY DEF SqlInv, Extracted, TypeOK
  <2>2. QED
    BY <2>1, Extracts
<1>4. \A r \in query.reads : TableExists(r, query, selected)
  <2>1. TAKE r \in query.reads
  <2>2. r \in Reference
    BY <1>1, QueryTypes
  <2>3. r.name \in query.names \/ {r, Bare(r)} \cap AllowedTables(selected) # {}
    BY <1>2 DEF Unselected
  <2>4. QED
    BY <1>1, <2>2, <2>3, AllowedByName DEF TableExists
<1>5. QED
  BY <1>2, <1>3, <1>4 DEF Allowed, ReadOnlyRoot

LEMMA Lacking == SqlInv => MissingIsLacking
<1> SUFFICES ASSUME SqlInv, stage = "missing", written # NoQuery
             PROVE  /\ missing # {} /\ missing \subseteq written.reads
                    /\ \A r \in missing : Resolved(r) \notin selected
  BY DEF MissingIsLacking
<1>1. written \in Query /\ selected \in SUBSET Table
  BY GateAssumption DEF SqlInv, TypeOK
<1>2. PICK q : q = Extract(written)
  OBVIOUS
<1>3. q \in Query /\ q.reads = written.reads
  BY <1>1, <1>2, Extracts
<1>4. ~Contained(q, selected) /\ missing = Unselected(q, selected)
  BY <1>2 DEF SqlInv
<1>5. missing # {} /\ missing \subseteq written.reads
  BY <1>3, <1>4 DEF Contained, Unselected
<1>6. \A r \in missing : r \in Reference /\ {r, Bare(r)} \cap AllowedTables(selected) = {}
  BY <1>3, <1>4, QueryTypes DEF Unselected
<1>7. QED
  BY <1>1, <1>5, <1>6, SelectedIsAllowed

LEMMA Passing == SqlInv => SoundQueriesPass
<1> SUFFICES ASSUME SqlInv, Sound(written)
             PROVE  /\ stage # "missing"
                    /\ stage \in {"rejected", "refused"} =>
                         answer # NoAnswer /\ ~Favourable(answer)
  BY DEF SoundQueriesPass
<1>1. written \in Query /\ selected \in SUBSET Table
  BY GateAssumption DEF SqlInv, TypeOK
<1>2. PICK q : q = Extract(written)
  OBVIOUS
<1>3. /\ q \in Query /\ q.reads = written.reads /\ q.names = written.names
      /\ q.shape = "parses" /\ q.kind = written.kind /\ ~q.mentions /\ q.statements = 1
  BY <1>1, <1>2, Extracts DEF Sound
<1>4. \A r \in q.reads : r \in Reference /\ (r.name \in q.names \/ Resolved(r) \in selected)
  BY <1>3, QueryTypes DEF Sound
<1>5. Unselected(q, selected) = {}
  BY <1>1, <1>4, SelectedIsAllowed DEF Unselected
<1>6. Allowed(q, selected)
  <2>1. \A r \in q.reads : TableExists(r, q, selected)
    <3>1. TAKE r \in q.reads
    <3>2. Resolved(r).name = r.name
      BY <1>4, References
    <3>3. QED
      BY <1>4, <3>2 DEF TableExists
  <2>2. QED
    BY <1>3, <2>1 DEF Allowed, ReadOnlyRoot, Sound
<1>7. written # NoQuery
  BY DEF Sound, NoQuery
<1>8. stage # "missing"
  BY <1>2, <1>5, <1>7 DEF SqlInv, Contained
<1>9. ASSUME stage \in {"rejected", "refused"}
      PROVE  answer # NoAnswer /\ ~Favourable(answer)
  <2>1. query = q /\ Concluded /\ TypeOK
    BY <1>2, <1>9 DEF SqlInv, Extracted
  <2>2. ~validation.valid
    BY <1>6, <1>9, <2>1 DEF SqlInv
  <2>3. QED
    BY <1>3, <2>1, <2>2, JudgedRight
<1>10. QED
  BY <1>8, <1>9

LEMMA SqlSound ==
  SqlInv => /\ TypeOK /\ ExecutedIsContained /\ ExecutedIsApproved
            /\ RejectionsAreErrors /\ ScopesAgree /\ MissingIsLacking
<1> SUFFICES ASSUME SqlInv
             PROVE  ExecutedIsContained /\ ExecutedIsApproved /\ RejectionsAreErrors
  BY Scopes, Lacking DEF SqlInv
<1>1. ASSUME Runs
      PROVE  /\ query.shape = "parses" /\ query.statements = 1
             /\ query.kind \notin {"write", "with_write", "command"}
             /\ \A r \in query.reads :
                  r.name \in query.names \/ \E t \in selected : t.name = r.name
  <2>1. Allowed(query, selected) /\ Extracted /\ TypeOK
    BY <1>1 DEF Runs, SqlInv
  <2>2. /\ query.shape = "parses" /\ query.statements = 1
        /\ query.kind \notin {"write", "with_write", "command"}
    BY <2>1 DEF Allowed, ReadOnlyRoot
  <2>3. query \in Query /\ selected \in SUBSET Table /\ selected # {}
    BY <2>1, GateAssumption DEF TypeOK
  <2>4. Unselected(query, selected) = {}
    BY <2>1, <2>2, <2>3 DEF Extracted, Contained
  <2>5. ASSUME NEW r \in query.reads
        PROVE  r.name \in query.names \/ \E t \in selected : t.name = r.name
    <3>1. r \in Reference
      BY <2>3, QueryTypes
    <3>2. r.name \in query.names \/ {r, Bare(r)} \cap AllowedTables(selected) # {}
      BY <2>4 DEF Unselected
    <3>3. QED
      BY <2>3, <3>1, <3>2, AllowedByName
  <2>6. QED
    BY <2>2, <2>5
<1>2. ExecutedIsApproved
  BY JudgedRight DEF ExecutedIsApproved, Runs, SqlInv
<1>3. RejectionsAreErrors
  BY JudgedRight DEF RejectionsAreErrors, SqlInv
<1>4. QED
  BY <1>1, <1>2, <1>3 DEF ExecutedIsContained

-----------------------------------------------------------------------------
(* Numbers                                                                 *)

\* A set of numbers has a least one, as the sets 0 .. n shrink only so often.
LEMMA LeastNumber ==
  ASSUME NEW T \in SUBSET Nat, T # {}
  PROVE  \E n \in T : \A m \in T : n <= m
<1> DEFINE D == {0 .. n : n \in T}
           R == StrictSubsetOrdering(Nat)
           F == FiniteSubsetsOf(Nat)
<1>1. IsWellFoundedOn(R, F)
  BY FS_StrictSubsetOrderingWellFounded
<1>2. \A n \in T : 0 .. n \in F
  <2>1. TAKE n \in T
  <2>2. n \in Int /\ 0 \in Int
    OBVIOUS
  <2>3. IsFiniteSet(0 .. n)
    BY <2>2, FS_Interval
  <2>4. QED
    BY <2>3 DEF FiniteSubsetsOf
<1>3. D \subseteq F /\ D # {}
  BY <1>2
<1>4. \E x \in D : \A y \in D : ~ (<<y, x>> \in R)
  <2> HIDE DEF D, R, F
  <2> QED
    BY <1>1, <1>3, WFMin
<1>5. PICK n \in T : \A m \in T : ~ (<<0 .. m, 0 .. n>> \in R)
  BY <1>4
<1>6. ASSUME NEW m \in T, m < n PROVE FALSE
  <2>1. 0 .. m \in SUBSET Nat /\ 0 .. n \in SUBSET Nat /\ 0 .. m \subseteq 0 .. n
    BY <1>6
  <2>2. n \in 0 .. n /\ n \notin 0 .. m
    BY <1>6
  <2>3. QED
    BY <1>5, <2>1, <2>2 DEF StrictSubsetOrdering
<1>7. QED
  BY <1>6

\* Induction, for a set of numbers.
LEMMA Induction ==
  ASSUME NEW T \in SUBSET Nat, 0 \in T, \A n \in T : n + 1 \in T
  PROVE  T = Nat
<1>1. SUFFICES ASSUME Nat \ T # {} PROVE FALSE
  OBVIOUS
<1>2. PICK n \in Nat \ T : \A m \in Nat \ T : n <= m
  BY <1>1, LeastNumber
<1>3. n # 0 /\ n - 1 \in Nat /\ n - 1 \notin Nat \ T
  BY <1>2
<1>4. QED
  BY <1>2, <1>3

Recurs(S, base, N, step) ==
  \E f \in [0 .. N -> S] : f[0] = base /\ \A i \in 1 .. N : f[i] = step[<<i, f[i - 1]>>]

\* What takes its value at i from that at i - 1 exists.
LEMMA Recursion ==
  ASSUME NEW S, NEW base \in S, NEW N \in Nat, NEW step \in [(1 .. N) \X S -> S]
  PROVE  Recurs(S, base, N, step)
<1> DEFINE Good(n, f) == f[0] = base /\ \A i \in 1 .. n : f[i] = step[<<i, f[i - 1]>>]
           T == {n \in Nat : n <= N => \E f \in [0 .. n -> S] : Good(n, f)}
<1>1. 0 \in T
  <2>1. [i \in 0 .. 0 |-> base] \in [0 .. 0 -> S] /\ Good(0, [i \in 0 .. 0 |-> base])
    OBVIOUS
  <2>2. QED
    BY <2>1
<1>2. ASSUME NEW n \in T PROVE n + 1 \in T
  <2>1. SUFFICES ASSUME n + 1 <= N
                 PROVE  \E f \in [0 .. n + 1 -> S] : Good(n + 1, f)
    <3>1. n \in Nat /\ n + 1 \in Nat
      OBVIOUS
    <3> HIDE DEF Good
    <3> QED
      BY <3>1
  <2>2. PICK f \in [0 .. n -> S] : Good(n, f)
    BY <2>1
  <2>3. n \in 0 .. n /\ n + 1 \in 1 .. N
    BY <2>1
  <2>4. PICK v \in S : v = step[<<n + 1, f[n]>>]
    BY <2>3
  <2> DEFINE g == [i \in 0 .. n + 1 |-> IF i = n + 1 THEN v ELSE f[i]]
  <2>5. \A i \in 0 .. n + 1 : i = n + 1 \/ i \in 0 .. n
    OBVIOUS
  <2>6. g \in [0 .. n + 1 -> S]
    BY <2>5
  <2>7. g[n + 1] = v /\ \A i \in 0 .. n : g[i] = f[i]
    OBVIOUS
  <2> HIDE DEF g
  <2>8. g[0] = base
    BY <2>2, <2>7
  <2>9. ASSUME NEW i \in 1 .. n + 1 PROVE g[i] = step[<<i, g[i - 1]>>]
    <3>1. CASE i = n + 1
      <4>1. i - 1 = n /\ g[n] = f[n] /\ g[i] = v
        BY <2>3, <2>7, <3>1
      <4>2. QED
        BY <2>4, <3>1, <4>1
    <3>2. CASE i # n + 1
      <4>1. i \in 1 .. n /\ i \in 0 .. n /\ i - 1 \in 0 .. n
        BY <3>2
      <4>2. QED
        BY <2>2, <2>7, <4>1
    <3>3. QED
      BY <3>1, <3>2
  <2>10. QED
    BY <2>6, <2>8, <2>9
<1>3. T = Nat
  <2>1. T \in SUBSET Nat
    OBVIOUS
  <2> HIDE DEF T
  <2>2. QED
    BY <1>1, <1>2, <2>1, Induction
<1>4. N \in T
  <2> HIDE DEF T
  <2> QED
    BY <1>3
<1>5. PICK f \in [0 .. N -> S] : Good(N, f)
  BY <1>4
<1>6. QED
  BY <1>5 DEF Recurs

-----------------------------------------------------------------------------
(* MongoDB: opinions and fast checks                                       *)

LEMMA MongoOpinions ==
  ASSUME NEW a \in Mongo!Answer, Mongo!Readable(a)
  PROVE  /\ Mongo!Judged(a) \in Mongo!Validation
         /\ Mongo!Judged(a).valid => Mongo!Judged(a).error_type = "VALID"
         /\ Mongo!Judged(a).error_type = "VALID" =>
              Mongo!Judged(a).valid \/ a.valid = "text"
         /\ a # Mongo!NoAnswer
         /\ Mongo!Judged(a).valid =>
              /\ a.error_type # "UNSAFE"
              /\ a.valid = "no" \/ Mongo!KnownError(a) # "VALID"
                   => a.issues \notin {"real", "both"}
<1> USE DEF Mongo!ErrorType, Mongo!Unstated
<1>1. /\ a.error_type \in {"VALID", "SYNTAX_ERROR", "UNSAFE", "unclear", "unstated"}
      /\ a.valid \in {"yes", "no", "text", "unstated"}
      /\ a.issues \in {"none", "real", "imagined", "both", "text"}
  BY DEF Mongo!Answer
<1>2. Mongo!KnownError(a) =
        IF a.error_type \in {"VALID", "SYNTAX_ERROR", "UNSAFE"} THEN a.error_type
        ELSE IF a.error_type = "unstated" \/ a.valid # "no" THEN "VALID"
             ELSE "GENERATION_ERROR"
  BY <1>1 DEF Mongo!KnownError
<1>3. a # Mongo!NoAnswer
  <2>1. SUFFICES ASSUME a = Mongo!NoAnswer PROVE FALSE
    OBVIOUS
  <2>2. a.error_type = "unstated" /\ a.valid = "unstated"
    BY <2>1 DEF Mongo!NoAnswer
  <2>3. Mongo!KnownError(a) = "VALID"
    BY <1>2, <2>2
  <2>4. ~Mongo!Readable(a)
    BY <2>2, <2>3 DEF Mongo!Readable, Mongo!Overruled
  <2>5. QED
    BY <2>4
<1>4. CASE Mongo!Overruled(a)
  <2>1. /\ Mongo!Judged(a).valid /\ Mongo!Judged(a).error_type = "VALID"
        /\ Mongo!Judged(a) \in Mongo!Validation
    BY <1>4 DEF Mongo!Judged, Mongo!ErrorTypeOf, Mongo!Validation
  <2>2. /\ a.issues \in {"none", "imagined"}
        /\ Mongo!KnownError(a) \in {"SYNTAX_ERROR", "GENERATION_ERROR"}
    BY <1>4 DEF Mongo!Overruled
  <2>3. a.error_type # "UNSAFE"
    BY <1>2, <2>2
  <2>4. QED
    BY <1>3, <2>1, <2>2, <2>3
<1>5. CASE ~Mongo!Overruled(a)
  <2>1. Mongo!KnownError(a) # "VALID" \/ a.valid # "unstated"
    BY <1>5 DEF Mongo!Readable
  <2>2. CASE Mongo!KnownError(a) = "VALID" /\ a.valid = "no"
    <3>1. Mongo!ErrorTypeOf(a) = "GENERATION_ERROR"
      BY <1>5, <2>2 DEF Mongo!ErrorTypeOf
    <3>2. Mongo!Judged(a) = [valid |-> FALSE, error_type |-> "GENERATION_ERROR"]
      BY <1>5, <2>2, <3>1 DEF Mongo!Judged
    <3>3. QED
      BY <1>3, <3>2 DEF Mongo!Validation
  <2>3. CASE ~(Mongo!KnownError(a) = "VALID" /\ a.valid = "no")
    <3>1. Mongo!ErrorTypeOf(a) = Mongo!KnownError(a)
      BY <1>5, <2>3 DEF Mongo!ErrorTypeOf
    <3>2. Mongo!KnownError(a) \in {"VALID", "SYNTAX_ERROR", "UNSAFE", "GENERATION_ERROR"}
      BY <1>2
    <3>3. /\ Mongo!Judged(a).valid <=> (Mongo!KnownError(a) = "VALID" /\ a.valid = "yes")
          /\ Mongo!Judged(a).error_type = Mongo!KnownError(a)
      BY <1>5, <3>1, Zenon DEF Mongo!Judged
    <3>4. Mongo!Judged(a) \in Mongo!Validation
      <4>1. (Mongo!Overruled(a) \/ (Mongo!KnownError(a) = "VALID" /\ a.valid = "yes"))
              \in BOOLEAN
        OBVIOUS
      <4>2. Mongo!ErrorTypeOf(a) \in Mongo!ErrorType
        BY <3>1, <3>2
      <4>3. QED
        BY <4>1, <4>2, Zenon DEF Mongo!Judged, Mongo!Validation
    <3>5. Mongo!KnownError(a) = "VALID" => a.error_type # "UNSAFE"
      BY <1>2
    <3>6. Mongo!KnownError(a) = "VALID" => a.valid \in {"yes", "text"}
      BY <1>1, <2>1, <2>3
    <3>7. QED
      BY <1>3, <3>3, <3>4, <3>5, <3>6
  <2>4. QED
    BY <2>2, <2>3
<1>6. QED
  BY <1>4, <1>5

LEMMA StageErrors ==
  ASSUME NEW s
  PROVE  /\ Mongo!StageError(s) \in {"UNSAFE", "SYNTAX_ERROR", "VALID"}
         /\ Mongo!StageError(s) = "VALID" <=> s.op \notin {"write", "bare", "count_by_size"}
<1>1. CASE s.op = "write"
  BY <1>1 DEF Mongo!StageError
<1>2. CASE s.op \in {"bare", "count_by_size"}
  BY <1>2 DEF Mongo!StageError
<1>3. CASE s.op \notin {"write", "bare", "count_by_size"}
  BY <1>3 DEF Mongo!StageError
<1>4. QED
  BY <1>1, <1>2, <1>3

\* The fast checks find what they look for, and nothing else.
LEMMA FastChecks ==
  ASSUME NEW q \in Mongo!Query
  PROVE  /\ Mongo!FastError(q) \in {"UNSAFE", "SYNTAX_ERROR", "GENERATION_ERROR", "VALID"}
         /\ Mongo!FastError(q) = "VALID" /\ q.operation = "aggregate" =>
              \A s \in Mongo!Stages(q) : Mongo!StageError(s) = "VALID"
         /\ Mongo!FastError(q) # "VALID" =>
              \/ \E s \in Mongo!Stages(q) : Mongo!StageError(s) # "VALID"
              \/ Mongo!HidesGrouped(q.pipeline)
<1> DEFINE bad == Mongo!BadStages(q.pipeline)
<1>1. CASE q.operation = "find"
  BY <1>1 DEF Mongo!FastError
<1>2. CASE q.operation # "find" /\ bad # {}
  <2>1. DOMAIN q.pipeline \in SUBSET Nat
    <3>1. q.pipeline \in Seq(Mongo!Stage)
      BY DEF Mongo!Query
    <3>2. QED
      BY <3>1
  <2>2. \E n \in bad : \A m \in bad : n <= m
    <3>1. bad \in SUBSET Nat
      BY <2>1 DEF Mongo!BadStages
    <3> HIDE DEF bad
    <3> QED
      BY <1>2, <3>1, LeastNumber
  <2>3. PICK i \in bad : i = Mongo!Min(bad)
    BY <2>2 DEF Mongo!Min
  <2>4. Mongo!StageError(q.pipeline[i]) # "VALID" /\ q.pipeline[i] \in Mongo!Stages(q)
    BY <2>3 DEF Mongo!BadStages, Mongo!Stages
  <2>5. Mongo!FastError(q) = Mongo!StageError(q.pipeline[i])
    BY <1>2, <2>3 DEF Mongo!FastError
  <2>6. QED
    BY <2>4, <2>5, StageErrors
<1>3. CASE q.operation # "find" /\ bad = {}
  <2>1. \A s \in Mongo!Stages(q) : Mongo!StageError(s) = "VALID"
    BY <1>3 DEF Mongo!BadStages, Mongo!Stages
  <2>2. Mongo!FastError(q) = IF Mongo!HidesGrouped(q.pipeline) THEN "GENERATION_ERROR"
                             ELSE "VALID"
    BY <1>3 DEF Mongo!FastError
  <2>3. QED
    BY <2>1, <2>2
<1>4. QED
  BY <1>1, <1>2, <1>3

-----------------------------------------------------------------------------
(* MongoDB: how many documents a pipeline returns                          *)

LEMMA PassedCounts ==
  ASSUME NEW n \in Int, NEW s \in Mongo!Stage
  PROVE  /\ Mongo!Passed(n, s) \in Int
         /\ s.op = "limit" => Mongo!Passed(n, s) <= s.number
<1>1. Mongo!Parameters /\ s.number \in Int
  BY InstanceAssumption DEF Mongo!Stage
<1>2. Documents \in Int /\ Fanout \in Int
  BY <1>1 DEF Mongo!Parameters
<1>3. n * Fanout \in Int /\ n + Documents \in Int
  BY <1>2
<1>4. CASE s.op = "limit"
  <2>1. Mongo!Passed(n, s) = Mongo!Least(n, s.number)
    BY <1>4 DEF Mongo!Passed
  <2>2. QED
    BY <1>1, <2>1 DEF Mongo!Least
<1>5. CASE s.op = "unwind_grouped"
  <2>1. Mongo!Passed(n, s) = n * Fanout
    BY <1>5 DEF Mongo!Passed
  <2>2. QED
    BY <1>3, <1>5, <2>1
<1>6. CASE s.op = "union"
  <2>1. Mongo!Passed(n, s) = n + Documents
    BY <1>6 DEF Mongo!Passed
  <2>2. QED
    BY <1>3, <1>6, <2>1
<1>7. CASE s.op \notin {"limit", "unwind_grouped", "union"}
  <2>1. Mongo!Passed(n, s) = n
    BY <1>7 DEF Mongo!Passed
  <2>2. QED
    BY <1>7, <2>1
<1>8. QED
  BY <1>4, <1>5, <1>6, <1>7

\* The counts along a pipeline exist, and each is made of the one before it.
LEMMA FlowRecurs ==
  ASSUME NEW p \in Seq(Mongo!Stage)
  PROVE  /\ Mongo!Flow(p) \in [0 .. Len(p) -> Int]
         /\ \A i \in 1 .. Len(p) : Mongo!Flow(p)[i] = Mongo!Passed(Mongo!Flow(p)[i - 1], p[i])
<1> DEFINE N == Len(p)
           step == [x \in (1 .. N) \X Int |-> Mongo!Passed(x[2], p[x[1]])]
<1>1. N \in Nat /\ \A i \in 1 .. N : p[i] \in Mongo!Stage
  OBVIOUS
<1>2. Documents \in Int
  BY InstanceAssumption DEF Mongo!Parameters
<1>3. step \in [(1 .. N) \X Int -> Int]
  <2>1. ASSUME NEW x \in (1 .. N) \X Int PROVE Mongo!Passed(x[2], p[x[1]]) \in Int
    <3>1. x[1] \in 1 .. N /\ x[2] \in Int
      OBVIOUS
    <3>2. QED
      BY <1>1, <3>1, PassedCounts
  <2>2. QED
    BY <2>1
<1>4. \A i \in 1 .. N, n \in Int : step[<<i, n>>] = Mongo!Passed(n, p[i])
  OBVIOUS
<1>5. PICK f \in [0 .. N -> Int] :
        f[0] = Documents /\ \A i \in 1 .. N : f[i] = step[<<i, f[i - 1]>>]
  <2> HIDE DEF step, N
  <2>1. Recurs(Int, Documents, N, step)
    BY <1>1, <1>2, <1>3, Recursion
  <2>2. QED
    BY <2>1 DEF Recurs
<1>6. ASSUME NEW i \in 1 .. N PROVE f[i] = Mongo!Passed(f[i - 1], p[i])
  <2>1. i - 1 \in 0 .. N
    BY <1>1
  <2>2. f[i - 1] \in Int
    BY <1>5, <2>1
  <2> HIDE DEF step
  <2>3. QED
    BY <1>4, <1>5, <2>2
<1>7. f = [i \in 0 .. N |-> IF i = 0 THEN Documents ELSE Mongo!Passed(f[i - 1], p[i])]
  <2>1. \A i \in 0 .. N : i = 0 \/ i \in 1 .. N
    OBVIOUS
  <2>2. QED
    BY <1>5, <1>6, <2>1
<1>8. Mongo!Flow(p) = CHOOSE g : g = [i \in 0 .. N |-> IF i = 0 THEN Documents
                                       ELSE Mongo!Passed(g[i - 1], p[i])]
  BY DEF Mongo!Flow
<1>9. Mongo!Flow(p) = [i \in 0 .. N |-> IF i = 0 THEN Documents
                                  ELSE Mongo!Passed(Mongo!Flow(p)[i - 1], p[i])]
  BY <1>7, <1>8, Zenon
<1>10. \A i \in 0 .. N : Mongo!Flow(p)[i] \in Int
  <2> DEFINE g == Mongo!Flow(p)
             T == {n \in Nat : n \in 0 .. N => g[n] \in Int}
  <2> HIDE DEF g
  <2>1. g[0] = Documents /\ \A i \in 1 .. N : g[i] = Mongo!Passed(g[i - 1], p[i])
    BY <1>1, <1>9 DEF g
  <2>2. 0 \in T
    BY <1>2, <2>1
  <2>3. ASSUME NEW n \in T PROVE n + 1 \in T
    <3>1. SUFFICES ASSUME n + 1 \in 0 .. N PROVE g[n + 1] \in Int
      OBVIOUS
    <3>2. n + 1 \in 1 .. N /\ (n + 1) - 1 = n /\ g[n] \in Int
      BY <1>1, <3>1
    <3>3. g[n + 1] = Mongo!Passed(g[n], p[n + 1])
      BY <2>1, <3>2
    <3>4. QED
      BY <1>1, <3>2, <3>3, PassedCounts
  <2>4. T = Nat
    <3>1. T \in SUBSET Nat
      OBVIOUS
    <3> HIDE DEF T
    <3> QED
      BY <2>2, <2>3, <3>1, Induction
  <2>5. \A n \in 0 .. N : n \in T
    <3>1. 0 .. N \subseteq Nat
      OBVIOUS
    <3> HIDE DEF T
    <3> QED
      BY <2>4, <3>1
  <2>6. QED
    BY <2>5 DEF g
<1>11. Mongo!Flow(p) \in [0 .. N -> Int]
  BY <1>9, <1>10
<1>12. ASSUME NEW i \in 1 .. N
       PROVE  Mongo!Flow(p)[i] = Mongo!Passed(Mongo!Flow(p)[i - 1], p[i])
  <2> DEFINE g == Mongo!Flow(p)
  <2>1. i \in 0 .. N /\ i # 0
    BY <1>1
  <2> HIDE DEF g
  <2>2. g = [j \in 0 .. N |-> IF j = 0 THEN Documents ELSE Mongo!Passed(g[j - 1], p[j])]
    BY <1>9 DEF g
  <2>3. g[i] = Mongo!Passed(g[i - 1], p[i])
    BY <2>1, <2>2
  <2>4. QED
    BY <2>3 DEF g
<1>13. QED
  BY <1>11, <1>12

LEMMA Counted ==
  ASSUME NEW q \in Mongo!Query
  PROVE  Mongo!Returned(q) \in Int
<1>1. MaxRows \in Nat /\ Unlimited \notin Int /\ Documents \in Int
  BY ResultAssumption, InstanceAssumption DEF Mongo!Parameters
<1>2. q.limit \in {Unlimited} \cup Int /\ q.pipeline \in Seq(Mongo!Stage)
  BY DEF Mongo!Query
<1>3. Mongo!Limit(q) \in Int
  BY <1>1, <1>2 DEF Mongo!Limit, Mongo!Least
<1>4. CASE q.operation = "find"
  BY <1>1, <1>3, <1>4 DEF Mongo!Returned, Mongo!Found, Mongo!Least
<1>5. CASE q.operation # "find"
  <2> DEFINE p == Mongo!Bounded(q)
             l == Mongo!LimitStage(Mongo!Limit(q))
  <2>1. l \in Mongo!Stage
    BY <1>3 DEF Mongo!LimitStage, Mongo!Stage, Mongo!Operator
  <2>2. p = q.pipeline \/ p = Append(q.pipeline, l)
    BY DEF Mongo!Bounded
  <2> HIDE DEF p, l
  <2>3. p \in Seq(Mongo!Stage)
    BY <1>2, <2>1, <2>2
  <2>4. Mongo!Flow(p)[Len(p)] \in Int
    BY <2>3, FlowRecurs
  <2>5. QED
    BY <1>5, <2>4 DEF Mongo!Returned, p
<1>6. QED
  BY <1>4, <1>5

\* A query without a limit stage of its own returns no more than its limit.
LEMMA ReturnsFew ==
  ASSUME NEW q \in Mongo!Query, Mongo!OwnLimits(q) = {},
         q.limit = Unlimited \/ q.limit >= 0
  PROVE  Mongo!Returned(q) <= MaxRows
<1>1. MaxRows \in Nat /\ Unlimited \notin Int /\ Documents \in Int
  BY ResultAssumption, InstanceAssumption DEF Mongo!Parameters
<1>2. q.limit \in {Unlimited} \cup Int /\ q.pipeline \in Seq(Mongo!Stage)
  BY DEF Mongo!Query
<1>3. Mongo!Limit(q) \in Nat /\ Mongo!Limit(q) <= MaxRows
  BY <1>1, <1>2 DEF Mongo!Limit, Mongo!Least
<1>4. CASE q.operation = "find"
  BY <1>1, <1>3, <1>4 DEF Mongo!Returned, Mongo!Found, Mongo!Least
<1>5. CASE q.operation # "find"
  <2> DEFINE p == Mongo!Bounded(q)
             l == Mongo!LimitStage(Mongo!Limit(q))
  <2>1. l \in Mongo!Stage /\ l.op = "limit" /\ l.number = Mongo!Limit(q)
    BY <1>3 DEF Mongo!LimitStage, Mongo!Stage, Mongo!Operator
  <2>2. p = Append(q.pipeline, l)
    BY DEF Mongo!Bounded, Mongo!OwnLimits
  <2> HIDE DEF p, l
  <2>3. p \in Seq(Mongo!Stage) /\ Len(p) \in 1 .. Len(p) /\ p[Len(p)] = l
    BY <1>2, <2>1, <2>2
  <2>4. Len(p) - 1 \in 0 .. Len(p)
    BY <2>3
  <2>5. PICK n \in Int : Mongo!Flow(p)[Len(p)] = Mongo!Passed(n, l)
    BY <2>3, <2>4, FlowRecurs
  <2>6. Mongo!Passed(n, l) \in Int /\ Mongo!Passed(n, l) <= Mongo!Limit(q)
    BY <2>1, <2>5, PassedCounts
  <2>7. Mongo!Returned(q) = Mongo!Flow(p)[Len(p)]
    BY <1>5 DEF Mongo!Returned, p
  <2>8. QED
    BY <1>1, <1>3, <2>5, <2>6, <2>7
<1>6. QED
  BY <1>4, <1>5

-----------------------------------------------------------------------------
(* MongoDB: the inductive invariant                                        *)

\* The validation is that of the fast checks or of the answer.
MongoConcluded ==
  \/ /\ answer = Mongo!NoAnswer /\ Mongo!FastError(query) # "VALID"
     /\ ~validation.valid /\ validation.error_type = Mongo!FastError(query)
  \/ /\ Mongo!FastError(query) = "VALID"
     /\ Mongo!Readable(answer) /\ validation = Mongo!Judged(answer)

MongoInv ==
  /\ Mongo!TypeOK
  /\ stage \in {"validating", "rejected", "policing", "refused", "executing", "done"}
       => /\ query \in MongoWritten
          /\ Mongo!Referenced(query) \subseteq Mongo!AllowedCollections(selected)
  /\ stage \in {"rejected", "policing", "refused", "executing", "done"} => MongoConcluded
  /\ stage = "rejected" => ~validation.valid
  /\ stage \in {"policing", "executing", "done"} => validation.valid
  /\ stage = "done" => result.row_count <= Mongo!Returned(query) /\ Mongo!IsWhole(result)

\* Results are made on MongoDB as they are on PostgreSQL.
LEMMA MongoProcessed ==
  ASSUME NEW n \in Nat
  PROVE  /\ Mongo!Process(n) \in Mongo!Result /\ Mongo!Process(n).row_count = n
         /\ Mongo!IsWhole(Mongo!Process(n))
<1>1. Mongo!Process(n) = Process(n) /\ Mongo!Result = Result
  BY DEF Mongo!Process, Process, Mongo!Csv, Csv, Mongo!Least, Least, Mongo!Result, Result
<1>2. Mongo!IsWhole(Process(n)) <=> IsWhole(Process(n))
  BY DEF Mongo!IsWhole, IsWhole
<1>3. QED
  BY <1>1, <1>2, Processed

LEMMA MongoTypes ==
  /\ Mongo!NoAnswer \in Mongo!Answer /\ Mongo!NoValidation \in Mongo!Validation
  /\ Mongo!NoResult \in Mongo!Result
  /\ MongoWritten \subseteq Mongo!Query
<1>1. MongoWritten \subseteq Mongo!Query
  BY InstanceAssumption DEF Mongo!Parameters
<1>2. QED
  BY <1>1 DEF Mongo!NoAnswer, Mongo!Answer, Mongo!NoValidation, Mongo!Validation,
              Mongo!ErrorType, Mongo!Unstated, Mongo!NoResult, Mongo!Result

LEMMA MongoReferences ==
  ASSUME NEW q \in Mongo!Query
  PROVE  Mongo!Referenced(q) \subseteq Collection
<1>1. q.collection \in Collection /\ q.pipeline \in Seq(Mongo!Stage)
  BY DEF Mongo!Query
<1>2. \A s \in Mongo!Stages(q) : s \in Mongo!Stage
  BY <1>1 DEF Mongo!Stages
<1>3. \A s \in Mongo!Stage : s.from \in Collection \cup {NoName}
  BY DEF Mongo!Stage
<1>4. QED
  BY <1>1, <1>2, <1>3 DEF Mongo!Referenced

LEMMA MongoInit == Mongo!Init => MongoInv
BY MongoTypes DEF Mongo!Init, MongoInv, Mongo!TypeOK

LEMMA MongoConcludes ==
  ASSUME MongoInv, stage = "validating", NEW v \in Mongo!Validation, Mongo!Conclude(v),
         answer' \in Mongo!Answer, MongoConcluded'
  PROVE  MongoInv'
<1>1. Mongo!TypeOK'
  BY DEF MongoInv, Mongo!TypeOK, Mongo!Conclude
<1>2. /\ query' \in MongoWritten
      /\ Mongo!Referenced(query') \subseteq Mongo!AllowedCollections(selected')
  BY DEF MongoInv, Mongo!Conclude
<1>3. stage' = "policing" <=> validation'.valid
  BY DEF Mongo!Conclude
<1>4. stage' \in {"policing", "refused", "rejected"}
  BY DEF Mongo!Conclude
<1>5. QED
  BY <1>1, <1>2, <1>3, <1>4 DEF MongoInv

LEMMA MongoStep == MongoInv /\ [Mongo!Next]_(Mongo!vars) => MongoInv'
<1> SUFFICES ASSUME MongoInv, [Mongo!Next]_(Mongo!vars) PROVE MongoInv'
  OBVIOUS
<1>1. CASE stage = "generating" /\ \E q \in MongoWritten : Mongo!Generate(q)
  <2>1. PICK q \in MongoWritten : Mongo!Generate(q)
    BY <1>1
  <2>2. Mongo!Referenced(q) \subseteq Collection
    BY MongoTypes, MongoReferences
  <2>3. Mongo!TypeOK'
    BY <2>1, <2>2 DEF Mongo!Generate, MongoInv, Mongo!TypeOK
  <2>4. QED
    BY <2>1, <2>3 DEF Mongo!Generate, MongoInv
<1>2. CASE \E c \in Collection : Mongo!AskForCollections({c})
  BY <1>2 DEF Mongo!AskForCollections, MongoInv, Mongo!TypeOK
<1>3. CASE \E names \in (SUBSET Collection) \ {{}} : Mongo!Reselect(names)
  BY <1>3 DEF Mongo!Reselect, MongoInv, Mongo!TypeOK
<1>4. CASE Mongo!GenerationFails \/ Mongo!ExecutionFails \/ Mongo!ValidationFails
  BY <1>4 DEF Mongo!GenerationFails, Mongo!ExecutionFails, Mongo!ValidationFails,
              MongoInv, Mongo!TypeOK
<1>5. CASE Mongo!RejectAtOnce
  <2> DEFINE v == [valid |-> FALSE, error_type |-> Mongo!FastError(query)]
  <2>1. stage = "validating" /\ query \in Mongo!Query
    BY <1>5, MongoTypes DEF Mongo!RejectAtOnce, MongoInv
  <2>2. v \in Mongo!Validation
    BY <2>1, FastChecks DEF Mongo!Validation, Mongo!ErrorType
  <2>3. Mongo!Conclude(v) /\ answer' = Mongo!NoAnswer /\ Mongo!FastError(query) # "VALID"
    BY <1>5 DEF Mongo!RejectAtOnce
  <2>4. MongoConcluded'
    BY <2>3 DEF Mongo!Conclude, MongoConcluded
  <2>5. QED
    BY <2>1, <2>2, <2>3, <2>4, MongoTypes, MongoConcludes
<1>6. CASE \E a \in Mongo!Answer : Mongo!Ask(a)
  <2>1. PICK a \in Mongo!Answer : Mongo!Ask(a)
    BY <1>6
  <2>2. Mongo!Judged(a) \in Mongo!Validation
    BY <2>1, MongoOpinions DEF Mongo!Ask
  <2>3. stage = "validating" /\ Mongo!Conclude(Mongo!Judged(a)) /\ answer' \in Mongo!Answer
    BY <2>1 DEF Mongo!Ask
  <2>4. MongoConcluded'
    BY <2>1 DEF Mongo!Ask, Mongo!Conclude, MongoConcluded
  <2>5. QED
    BY <2>2, <2>3, <2>4, MongoConcludes
<1>7. CASE Mongo!WriteAgain
  BY <1>7, MongoTypes DEF Mongo!WriteAgain, MongoInv, Mongo!TypeOK
<1>8. CASE Mongo!Police
  <2>1. Mongo!TypeOK' /\ MongoConcluded'
    BY <1>8 DEF Mongo!Police, MongoInv, Mongo!TypeOK, MongoConcluded
  <2>2. QED
    BY <1>8, <2>1 DEF Mongo!Police, MongoInv
<1>9. CASE stage = "executing" /\ \E n \in 0 .. Mongo!Returned(query) : Mongo!Execute(n)
  <2>1. PICK n \in 0 .. Mongo!Returned(query) : Mongo!Execute(n)
    BY <1>9
  <2>2. n \in Nat /\ n <= Mongo!Returned(query)
    BY <2>1 DEF Mongo!Execute
  <2>3. /\ result' \in Mongo!Result /\ Mongo!IsWhole(result')
        /\ result'.row_count <= Mongo!Returned(query')
    BY <2>1, <2>2, MongoProcessed DEF Mongo!Execute
  <2>4. Mongo!TypeOK' /\ MongoConcluded'
    BY <2>1, <2>3 DEF Mongo!Execute, MongoInv, Mongo!TypeOK, MongoConcluded
  <2>5. QED
    BY <2>1, <2>3, <2>4 DEF Mongo!Execute, MongoInv
<1>10. CASE Mongo!Over \/ UNCHANGED Mongo!vars
  <2>1. UNCHANGED Mongo!vars
    BY <1>10 DEF Mongo!Over
  <2>2. QED
    BY <2>1 DEF Mongo!vars, MongoInv, Mongo!TypeOK, MongoConcluded
<1>11. QED
  BY <1>1, <1>2, <1>3, <1>4, <1>5, <1>6, <1>7, <1>8, <1>9, <1>10 DEF Mongo!Next

-----------------------------------------------------------------------------
(* MongoDB: what the invariant implies                                     *)

\* What runs was accepted on an answer.
LEMMA MongoAccepted ==
  ASSUME MongoInv, stage \in {"executing", "done"}
  PROVE  /\ query \in MongoWritten /\ query \in Mongo!Query
         /\ Mongo!FastError(query) = "VALID"
         /\ answer \in Mongo!Answer /\ Mongo!Readable(answer) /\ Mongo!Judged(answer).valid
BY MongoTypes DEF MongoInv, MongoConcluded, Mongo!TypeOK

LEMMA MongoJoins == MongoInv => Mongo!JoinsAreSelected
<1> SUFFICES ASSUME MongoInv, Mongo!Runs
             PROVE  /\ Mongo!GoesBy(query.collection)
                    /\ \A s \in Mongo!Stages(query) :
                         s.op \in {"lookup", "lookup_group"} /\ s.from # NoName
                           => Mongo!GoesBy(s.from)
  BY DEF Mongo!JoinsAreSelected
<1>1. \A name \in Mongo!Referenced(query) : Mongo!GoesBy(name)
  <2>1. Mongo!Referenced(query) \subseteq Mongo!AllowedCollections(selected)
    BY DEF MongoInv, Mongo!Runs
  <2>2. QED
    BY <2>1 DEF Mongo!AllowedCollections, Mongo!GoesBy
<1>2. query.collection \in Mongo!Referenced(query)
  BY DEF Mongo!Referenced
<1>3. ASSUME NEW s \in Mongo!Stages(query), s.op \in {"lookup", "lookup_group"},
             s.from # NoName
      PROVE  s.from \in Mongo!Referenced(query)
  BY <1>3 DEF Mongo!Referenced
<1>4. QED
  BY <1>1, <1>2, <1>3

LEMMA MongoRejections == MongoInv => Mongo!RejectionIsDeserved
<1> SUFFICES ASSUME MongoInv, stage = "rejected", answer = Mongo!NoAnswer,
                    \A s \in Mongo!Stages(query) : Mongo!StageError(s) = "VALID"
             PROVE  \E i, j \in DOMAIN query.pipeline :
                      /\ i < j
                      /\ query.pipeline[i].op = "lookup_group"
                      /\ query.pipeline[j].op = "project_grouped"
                      /\ \A k \in i .. j : query.pipeline[k].op # "unwind_grouped"
  BY DEF Mongo!RejectionIsDeserved
<1> DEFINE p == query.pipeline
<1>1. query \in Mongo!Query /\ answer \in Mongo!Answer /\ MongoConcluded
  BY MongoTypes DEF MongoInv, Mongo!TypeOK
<1>2. Mongo!FastError(query) # "VALID"
  BY <1>1, MongoOpinions DEF MongoConcluded
<1>3. Mongo!HidesGrouped(p)
  BY <1>1, <1>2, FastChecks
<1>4. PICK j \in DOMAIN p :
        /\ p[j].op = "project_grouped"
        /\ \E i \in 1 .. j - 1 : p[i].op = "lookup_group"
        /\ \A k \in 1 .. j - 1 : p[k].op # "unwind_grouped"
  BY <1>3 DEF Mongo!HidesGrouped
<1>5. PICK i \in 1 .. j - 1 : p[i].op = "lookup_group"
  BY <1>4
<1>6. DOMAIN p = 1 .. Len(p) /\ Len(p) \in Nat
  <2>1. p \in Seq(Mongo!Stage)
    BY <1>1 DEF Mongo!Query
  <2> HIDE DEF p
  <2>2. QED
    BY <2>1
<1> HIDE DEF p
<1>7. i \in DOMAIN p /\ i < j /\ j \in Nat /\ i \in Nat
  BY <1>4, <1>5, <1>6
<1>8. \A k \in i .. j : k = j \/ k \in 1 .. j - 1
  BY <1>5, <1>7
<1>9. \A k \in i .. j : p[k].op # "unwind_grouped"
  BY <1>4, <1>8
<1>10. QED
  BY <1>4, <1>5, <1>7, <1>9 DEF p

LEMMA MongoSound ==
  MongoInv => /\ Mongo!TypeOK
              /\ Mongo!ExecutedIsWellFormed /\ Mongo!JoinsAreSelected
              /\ Mongo!ObjectionsHold /\ Mongo!RejectionIsDeserved
              /\ Mongo!OutcomeFitsError
              /\ Mongo!ResultIsBounded
<1> SUFFICES ASSUME MongoInv
             PROVE  /\ Mongo!ExecutedIsWellFormed /\ Mongo!ObjectionsHold
                    /\ Mongo!OutcomeFitsError /\ Mongo!ResultIsBounded
  BY MongoJoins, MongoRejections DEF MongoInv
<1>1. Mongo!ExecutedIsWellFormed
  <2>1. SUFFICES ASSUME Mongo!Runs, query.operation = "aggregate",
                        NEW s \in Mongo!Stages(query)
                 PROVE  s.op \notin {"write", "bare", "count_by_size"}
    BY DEF Mongo!ExecutedIsWellFormed
  <2>2. Mongo!StageError(s) = "VALID"
    BY <2>1, MongoAccepted, FastChecks DEF Mongo!Runs
  <2>3. QED
    BY <2>2, StageErrors
<1>2. Mongo!ObjectionsHold
  BY MongoAccepted, MongoOpinions DEF Mongo!ObjectionsHold, Mongo!Runs
<1>3. Mongo!OutcomeFitsError
  <2>1. SUFFICES ASSUME stage \in {"rejected", "policing"}
                 PROVE  /\ validation.valid => validation.error_type = "VALID"
                        /\ validation.error_type = "VALID" =>
                             validation.valid \/ answer.valid = "text"
    BY DEF Mongo!OutcomeFitsError
  <2>2. MongoConcluded /\ answer \in Mongo!Answer
    BY <2>1 DEF MongoInv, Mongo!TypeOK
  <2>3. CASE Mongo!Readable(answer) /\ validation = Mongo!Judged(answer)
    BY <2>2, <2>3, MongoOpinions
  <2>4. CASE ~(Mongo!Readable(answer) /\ validation = Mongo!Judged(answer))
    BY <2>2, <2>4 DEF MongoConcluded
  <2>5. QED
    BY <2>3, <2>4
<1>4. Mongo!ResultIsBounded
  <2>1. SUFFICES ASSUME stage = "done", Mongo!OwnLimits(query) = {},
                        query.limit = Unlimited \/ query.limit >= 0
                 PROVE  result.row_count <= MaxRows
    BY DEF Mongo!ResultIsBounded
  <2>2. query \in Mongo!Query /\ result.row_count <= Mongo!Returned(query)
    BY <2>1, MongoAccepted DEF MongoInv
  <2>3. Mongo!Returned(query) <= MaxRows
    BY <2>1, <2>2, ReturnsFew
  <2>4. result.row_count \in Nat
    BY DEF MongoInv, Mongo!TypeOK, Mongo!Result
  <2>5. MaxRows \in Nat /\ Mongo!Returned(query) \in Int
    BY <2>2, ResultAssumption, Counted
  <2>6. QED
    BY <2>2, <2>3, <2>4, <2>5
<1>5. QED
  BY <1>1, <1>2, <1>3, <1>4

-----------------------------------------------------------------------------
(* Both engines                                                            *)

GatesInv ==
  \/ engine = "postgres" /\ SqlInv
  \/ engine = "mongo" /\ MongoInv

LEMMA GatesInvariant == GatesSpec => []GatesInv
<1>1. GatesInit => GatesInv
  BY SqlInit, MongoInit DEF GatesInit, GatesInv
<1>2. GatesInv /\ [GatesNext]_<<engine, vars>> => GatesInv'
  <2> SUFFICES ASSUME GatesInv, [GatesNext]_<<engine, vars>> PROVE GatesInv'
    OBVIOUS
  <2>1. UNCHANGED engine
    BY DEF GatesNext
  <2>2. CASE engine = "postgres"
    <3>1. SqlInv /\ [Next]_vars
      BY <2>2 DEF GatesInv, GatesNext
    <3>2. QED
      BY <2>1, <2>2, <3>1, SqlStep DEF GatesInv
  <2>3. CASE engine = "mongo"
    <3>1. MongoInv
      BY <2>3 DEF GatesInv
    <3>2. Mongo!Next \/ UNCHANGED Mongo!vars
      BY <2>3 DEF GatesNext, vars, Mongo!vars
    <3>3. QED
      BY <2>1, <2>3, <3>1, <3>2, MongoStep DEF GatesInv
  <2>4. QED
    BY <2>2, <2>3 DEF GatesInv
<1>3. QED
  BY <1>1, <1>2, PTL DEF GatesSpec

\* On PostgreSQL one statement runs, of tables with the names of selected ones
\* and approved by the model; rejections are errors, but for a quoted false;
\* the policy agrees with the generator about the selection, and only lacking
\* tables are asked for.
THEOREM SqlGate == GatesSpec => []SqlGateIsSound
<1>1. GatesInv => SqlGateIsSound
  BY SqlSound DEF GatesInv, SqlGateIsSound, Sql
<1>2. QED
  BY <1>1, GatesInvariant, PTL

\* A sound SQL query that the model favours is neither rejected nor refused.
THEOREM SoundSql == GatesSpec => []SoundSqlPasses
<1>1. GatesInv => SoundSqlPasses
  BY Passing DEF GatesInv, SoundSqlPasses, Sql
<1>2. QED
  BY <1>1, GatesInvariant, PTL

\* On MongoDB no forbidden pipeline runs, none that joins what has neither the
\* name of a selected collection nor what follows its dot, and none that an
\* objection stands against; rejections have a reason.
THEOREM MongoGates == GatesSpec => []MongoGateIsSound
<1>1. GatesInv => MongoGateIsSound
  BY MongoSound DEF GatesInv, MongoGateIsSound, Sql
<1>2. QED
  BY <1>1, GatesInvariant, PTL

\* A result stays within the settings' limit, and every row of it can be read.
THEOREM Results == GatesSpec => []ResultIsSound
<1>1. ASSUME GatesInv PROVE ResultIsSound
  <2>1. CASE engine = "postgres" /\ SqlInv
    BY <2>1, SqlSound DEF ResultIsSound, Sql, SqlInv, ResultIsBounded, ResultIsWhole
  <2>2. CASE engine = "mongo" /\ MongoInv
    <3>1. Mongo!IsWhole(result) => IsWhole(result)
      BY DEF Mongo!IsWhole, IsWhole
    <3>2. stage = "done" => Mongo!IsWhole(result)
      BY <2>2 DEF MongoInv
    <3>3. QED
      BY <2>2, <3>1, <3>2, MongoSound DEF ResultIsSound, Sql, ResultIsWhole
  <2>3. QED
    BY <1>1, <2>1, <2>2 DEF GatesInv
<1>2. QED
  BY <1>1, GatesInvariant, PTL

-----------------------------------------------------------------------------
(* Sorting                                                                 *)

\* R orders S.
Orders(R, S) ==
  /\ \A x \in S : <<x, x>> \notin R
  /\ \A x, y, z \in S : <<x, y>> \in R /\ <<y, z>> \in R => <<x, z>> \in R
  /\ \A x, y \in S : x = y \/ <<x, y>> \in R \/ <<y, x>> \in R

\* s has every element of S once.
Lists(s, S) ==
  /\ s \in [1 .. Cardinality(S) -> S] /\ s \in Seq(S) /\ Len(s) = Cardinality(S)
  /\ \A i, j \in 1 .. Len(s) : i # j => s[i] # s[j]
  /\ \A x \in S : \E i \in 1 .. Len(s) : s[i] = x

Follows(s, R) == \A i, j \in DOMAIN s : i < j => <<s[i], s[j]>> \in R

LEMMA OneLess ==
  ASSUME NEW S, IsFiniteSet(S), NEW x \in S
  PROVE  /\ IsFiniteSet(S \ {x}) /\ Cardinality(S) \in Nat \ {0}
         /\ Cardinality(S \ {x}) = Cardinality(S) - 1 /\ Cardinality(S \ {x}) \in Nat
<1>1. IsFiniteSet(S \ {x}) /\ Cardinality(S) \in Nat /\ Cardinality(S \ {x}) \in Nat
      /\ Cardinality(S) # 0
  BY FS_Subset, FS_CardinalityType, FS_EmptySet
<1>2. Cardinality(S \ {x}) = Cardinality(S) - 1
  BY FS_RemoveElement
<1>3. QED
  BY <1>1, <1>2

LEMMA GreatestOf ==
  ASSUME NEW S, IsFiniteSet(S), NEW R, Orders(R, S), S # {}
  PROVE  \E m \in S : \A x \in S \ {m} : <<x, m>> \in R
<1> DEFINE Has(X) == \E m \in X : \A x \in X \ {m} : <<x, m>> \in R
           T == {k \in Nat : \A X \in SUBSET S : Cardinality(X) = k /\ X # {} => Has(X)}
<1>1. \A X \in SUBSET S : IsFiniteSet(X) /\ Cardinality(X) \in Nat
  BY FS_Subset, FS_CardinalityType
<1>2. 0 \in T
  <2>1. \A X \in SUBSET S : Cardinality(X) = 0 => X = {}
    BY <1>1, FS_EmptySet
  <2> HIDE DEF Has
  <2>2. QED
    BY <2>1
<1>3. ASSUME NEW k \in T PROVE k + 1 \in T
  <2>1. SUFFICES ASSUME NEW X \in SUBSET S, Cardinality(X) = k + 1, X # {} PROVE Has(X)
    OBVIOUS
  <2>2. PICK y \in X : TRUE
    BY <2>1
  <2> DEFINE Y == X \ {y}
  <2>3. Y \in SUBSET S /\ Cardinality(Y) = k
    <3>1. Cardinality(Y) = Cardinality(X) - 1
      BY <1>1, OneLess
    <3>2. QED
      BY <2>1, <3>1
  <2>4. CASE Y = {}
    BY <2>4
  <2>5. CASE Y # {}
    <3>1. Has(Y)
      <4> HIDE DEF Has, Y
      <4> QED
        BY <2>3, <2>5
    <3>2. PICK m \in Y : \A x \in Y \ {m} : <<x, m>> \in R
      BY <3>1
    <3>3. m \in S /\ y \in S /\ m # y /\ Y \subseteq S /\ \A x \in X : x = y \/ x \in Y
      BY <2>1, <2>3
    <3>4. CASE <<m, y>> \in R
      <4>1. \A x \in Y : <<x, y>> \in R
        BY <3>2, <3>3, <3>4 DEF Orders
      <4>2. QED
        BY <3>3, <4>1
    <3>5. CASE <<y, m>> \in R
      BY <3>2, <3>3, <3>5
    <3>6. QED
      BY <3>3, <3>4, <3>5 DEF Orders
  <2>6. QED
    BY <2>4, <2>5
<1>4. T = Nat
  <2>1. T \in SUBSET Nat
    OBVIOUS
  <2> HIDE DEF T
  <2>2. QED
    BY <1>2, <1>3, <2>1, Induction
<1>5. Cardinality(S) \in T
  <2> HIDE DEF T
  <2> QED
    BY <1>1, <1>4
<1>6. QED
  BY <1>5

LEMMA Listed ==
  ASSUME NEW S, IsFiniteSet(S), NEW s \in [1 .. Cardinality(S) -> S],
         \A i, j \in 1 .. Cardinality(S) : i # j => s[i] # s[j]
  PROVE  Lists(s, S)
<1> DEFINE K == Cardinality(S)
<1>1. K \in Nat
  BY FS_CardinalityType
<1>2. s \in Seq(S) /\ Len(s) = K
  <2> HIDE DEF K
  <2>1. s \in [1 .. K -> S]
    BY DEF K
  <2>2. QED
    BY <1>1, <2>1
<1>3. \A x \in S : \E i \in 1 .. K : s[i] = x
  <2>1. s \in Injection(1 .. K, S)
    BY DEF Injection, IsInjective
  <2>2. IsFiniteSet(1 .. K) /\ Cardinality(1 .. K) = K
    <3> HIDE DEF K
    <3>1. 1 \in Int /\ K \in Int /\ (1 > K => K = 0) /\ (~(1 > K) => K - 1 + 1 = K)
      BY <1>1
    <3>2. QED
      BY <3>1, FS_Interval
  <2>3. s \in Surjection(1 .. K, S)
    BY <2>1, <2>2, FS_Injection
  <2>4. QED
    BY <2>3 DEF Surjection
<1>4. QED
  BY <1>2, <1>3 DEF Lists

LEMMA SortedExists ==
  ASSUME NEW S, IsFiniteSet(S), NEW R, Orders(R, S)
  PROVE  \E s : Lists(s, S) /\ Follows(s, R)
<1> DEFINE Has(X) == \E s : Lists(s, X) /\ Follows(s, R)
           T == {k \in Nat : \A X \in SUBSET S : Cardinality(X) = k => Has(X)}
<1>1. \A X \in SUBSET S : IsFiniteSet(X) /\ Cardinality(X) \in Nat
  BY FS_Subset, FS_CardinalityType
<1>2. 0 \in T
  <2>1. ASSUME NEW X \in SUBSET S, Cardinality(X) = 0 PROVE Has(X)
    <3>1. X = {}
      BY <1>1, <2>1, FS_EmptySet
    <3> DEFINE s == [i \in 1 .. 0 |-> 0]
    <3>2. s \in [1 .. 0 -> X] /\ DOMAIN s = 1 .. 0 /\ \A i \in 1 .. 0 : FALSE
      OBVIOUS
    <3> HIDE DEF s
    <3>3. Lists(s, X)
      BY <1>1, <2>1, <3>2, Listed
    <3>4. Follows(s, R)
      BY <3>2 DEF Follows
    <3>5. QED
      BY <3>3, <3>4
  <2> HIDE DEF Has
  <2>2. QED
    BY <2>1
<1>3. ASSUME NEW k \in T PROVE k + 1 \in T
  <2>1. SUFFICES ASSUME NEW X \in SUBSET S, Cardinality(X) = k + 1 PROVE Has(X)
    OBVIOUS
  <2>2. k \in Nat /\ X # {}
    <3>1. k \in Nat /\ k + 1 # 0
      OBVIOUS
    <3>2. QED
      BY <2>1, <3>1, FS_EmptySet
  <2>3. PICK m \in X : \A x \in X \ {m} : <<x, m>> \in R
    <3>1. Orders(R, X)
      BY DEF Orders
    <3>2. QED
      BY <1>1, <2>2, <3>1, GreatestOf
  <2> DEFINE Y == X \ {m}
  <2>4. Y \in SUBSET S /\ Cardinality(Y) = k
    <3>1. Cardinality(Y) = Cardinality(X) - 1
      BY <1>1, OneLess
    <3>2. QED
      BY <2>1, <2>2, <3>1
  <2>5. Has(Y)
    <3> HIDE DEF Y, Has
    <3> QED
      BY <2>4
  <2>6. PICK t : Lists(t, Y) /\ Follows(t, R)
    BY <2>5
  <2>7. /\ t \in [1 .. k -> Y] /\ Len(t) = k /\ DOMAIN t = 1 .. k
        /\ \A i, j \in 1 .. k : i # j => t[i] # t[j]
    BY <2>4, <2>6 DEF Lists
  <2> DEFINE s == [i \in 1 .. k + 1 |-> IF i = k + 1 THEN m ELSE t[i]]
  <2>8. \A i \in 1 .. k + 1 : i = k + 1 \/ i \in 1 .. k
    BY <2>2
  <2>9. s[k + 1] = m /\ \A i \in 1 .. k : s[i] = t[i] /\ s[i] \in Y
    BY <2>2, <2>7
  <2>10. s \in [1 .. k + 1 -> X] /\ DOMAIN s = 1 .. k + 1
    BY <2>7, <2>8
  <2> HIDE DEF s
  <2>11. \A i, j \in 1 .. k + 1 : i # j => s[i] # s[j]
    BY <2>7, <2>8, <2>9
  <2>12. Lists(s, X)
    BY <1>1, <2>1, <2>10, <2>11, Listed
  <2>13. ASSUME NEW i \in 1 .. k + 1, NEW j \in 1 .. k + 1, i < j PROVE <<s[i], s[j]>> \in R
    <3>1. i \in 1 .. k
      BY <2>2, <2>13
    <3>2. CASE j = k + 1
      BY <2>3, <2>9, <3>1, <3>2
    <3>3. CASE j \in 1 .. k
      <4>1. <<t[i], t[j]>> \in R
        BY <2>6, <2>7, <2>13, <3>1, <3>3 DEF Follows
      <4>2. QED
        BY <2>9, <3>1, <3>3, <4>1
    <3>4. QED
      BY <2>8, <3>2, <3>3
  <2>14. Follows(s, R)
    BY <2>10, <2>13 DEF Follows
  <2>15. QED
    BY <2>12, <2>14
<1>4. T = Nat
  <2>1. T \in SUBSET Nat
    OBVIOUS
  <2> HIDE DEF T
  <2>2. QED
    BY <1>2, <1>3, <2>1, Induction
<1>5. Cardinality(S) \in T
  <2> HIDE DEF T
  <2> QED
    BY <1>1, <1>4
<1>6. QED
  BY <1>5

-----------------------------------------------------------------------------
(* The scope: reference definitions                                        *)

LEMMA ScopeConstants ==
  /\ SchemaTable \in SUBSET Nat /\ 0 \notin SchemaTable /\ IsFiniteSet(SchemaTable)
  /\ Embedded \in SUBSET Nat /\ 0 \notin Embedded /\ IsFiniteSet(Embedded)
  /\ MaxSimilarity \in Nat /\ top_k \in Nat /\ top_k # 0
  /\ max_levels \in Nat /\ max_tables \in Nat /\ max_retries \in Nat
  /\ Scope!Unreached = max_levels + 1 /\ Scope!Hops = 0 .. max_levels + 1
<1>1. \A S : Scope!IsFiniteSet(S) <=> IsFiniteSet(S)
  BY Zenon DEF Scope!IsFiniteSet, IsFiniteSet
<1>2. Scope!Parameters
  BY StagesAssumption
<1>3. QED
  BY <1>1, <1>2 DEF Scope!Parameters, Scope!Unreached, Scope!Hops

NextTo(N, S) == S \cup UNION {N[t] : t \in S}

\* V gives what is within so many steps of S.
Balls(V, S, N) ==
  /\ V \in [0 .. max_levels -> SUBSET SchemaTable]
  /\ V[0] = S
  /\ \A k \in 1 .. max_levels : V[k] = NextTo(N, V[k - 1])

Adjacent == [t \in SchemaTable |-> Scope!neighbors(t)]

LEMMA AdjacentTypes ==
  /\ Adjacent \in [SchemaTable -> SUBSET SchemaTable]
  /\ \A t \in SchemaTable : Adjacent[t] = Scope!neighbors(t)
  /\ \A t, u \in SchemaTable : u \in Adjacent[t] <=> t \in Adjacent[u]
<1>1. \A t, u \in SchemaTable : {t, u} = {u, t}
  OBVIOUS
<1>2. QED
  BY <1>1 DEF Adjacent, Scope!neighbors

LEMMA WithinBalls ==
  ASSUME NEW S \in SUBSET SchemaTable
  PROVE  Balls(Scope!Within(S), S, Adjacent)
<1> DEFINE N == max_levels
           D == SUBSET SchemaTable
           step == [x \in (1 .. N) \X D |-> NextTo(Adjacent, x[2])]
<1>1. N \in Nat
  BY ScopeConstants
<1>2. \A X \in D : NextTo(Adjacent, X) \in D
  BY AdjacentTypes DEF NextTo
<1>3. step \in [(1 .. N) \X D -> D] /\ \A i \in 1 .. N, X \in D : step[<<i, X>>] = NextTo(Adjacent, X)
  BY <1>2
<1>4. PICK W \in [0 .. N -> D] :
        W[0] = S /\ \A i \in 1 .. N : W[i] = step[<<i, W[i - 1]>>]
  <2> HIDE DEF step, N
  <2>1. S \in D
    OBVIOUS
  <2>2. Recurs(D, S, N, step)
    BY <1>1, <1>3, <2>1, Recursion
  <2>3. QED
    BY <2>2 DEF Recurs
<1>5. ASSUME NEW i \in 1 .. N PROVE W[i] = NextTo(Adjacent, W[i - 1])
  <2>1. i - 1 \in 0 .. N
    BY <1>1
  <2>2. W[i - 1] \in D
    BY <1>4, <2>1
  <2> HIDE DEF step, D
  <2>3. QED
    BY <1>3, <1>4, <2>2
<1>6. W = [k \in 0 .. N |-> IF k = 0 THEN S ELSE NextTo(Adjacent, W[k - 1])]
  <2>1. \A k \in 0 .. N : k = 0 \/ k \in 1 .. N
    BY <1>1
  <2> HIDE DEF step
  <2>2. QED
    BY <1>4, <1>5, <2>1
<1>7. W = [k \in 0 .. N |-> IF k = 0 THEN S
                           ELSE W[k - 1] \cup UNION {Scope!neighbors(t) : t \in W[k - 1]}]
  <2>1. ASSUME NEW k \in 0 .. N, k # 0
        PROVE  NextTo(Adjacent, W[k - 1]) = W[k - 1] \cup UNION {Scope!neighbors(t) : t \in W[k - 1]}
    <3>1. k - 1 \in 0 .. N
      BY <1>1, <2>1
    <3>2. W[k - 1] \in SUBSET SchemaTable
      BY <1>4, <3>1
    <3>3. QED
      BY <3>2, AdjacentTypes DEF NextTo
  <2>2. QED
    BY <1>4, <1>6, <2>1
<1> DEFINE w == Scope!Within(S)
<1>8. w = [k \in 0 .. N |-> IF k = 0 THEN S
                           ELSE w[k - 1] \cup UNION {Scope!neighbors(t) : t \in w[k - 1]}]
  <2>1. w = CHOOSE v : v = [k \in 0 .. N |-> IF k = 0 THEN S
                           ELSE v[k - 1] \cup UNION {Scope!neighbors(t) : t \in v[k - 1]}]
    BY DEF Scope!Within
  <2>2. QED
    BY <1>7, <2>1, Zenon
<1> HIDE DEF w
<1>9. \A k \in 0 .. N : w[k] = IF k = 0 THEN S
                       ELSE w[k - 1] \cup UNION {Scope!neighbors(t) : t \in w[k - 1]}
  BY <1>8
<1>10. w[0] = S
  <2>1. 0 \in 0 .. N
    BY <1>1
  <2> HIDE DEF N
  <2>2. QED
    BY <1>9, <2>1
<1>11. \A k \in 0 .. N : w[k] \in D
  <2> DEFINE T == {k \in Nat : k <= N => w[k] \in D}
  <2>1. 0 \in T
    BY <1>10
  <2>2. ASSUME NEW k \in T PROVE k + 1 \in T
    <3>1. SUFFICES ASSUME k + 1 <= N PROVE w[k + 1] \in D
      OBVIOUS
    <3>2. k \in Nat /\ k + 1 \in 0 .. N /\ k + 1 # 0 /\ (k + 1) - 1 = k /\ k <= N
      BY <1>1, <3>1
    <3>3. w[k + 1] = w[k] \cup UNION {Scope!neighbors(t) : t \in w[k]}
      BY <1>9, <3>2
    <3>4. QED
      BY <3>2, <3>3, AdjacentTypes
  <2>3. T = Nat
    <3>1. T \in SUBSET Nat
      OBVIOUS
    <3> HIDE DEF T
    <3>2. QED
      BY <2>1, <2>2, <3>1, Induction
  <2>4. \A k \in 0 .. N : k \in T
    <3> HIDE DEF T
    <3> QED
      BY <1>1, <2>3
  <2>5. QED
    BY <1>1, <2>4
<1>12. w \in [0 .. N -> D]
  BY <1>8, <1>11
<1>13. ASSUME NEW k \in 1 .. N PROVE w[k] = NextTo(Adjacent, w[k - 1])
  <2>1. k \in 0 .. N /\ k # 0 /\ k - 1 \in 0 .. N
    BY <1>1
  <2>2. w[k] = w[k - 1] \cup UNION {Scope!neighbors(t) : t \in w[k - 1]} /\ w[k - 1] \in D
    BY <1>9, <1>11, <2>1
  <2>3. QED
    BY <2>2, AdjacentTypes DEF NextTo
<1>14. QED
  BY <1>12, <1>13, <1>10 DEF w, Balls

\* Steps from a set are steps from one of its elements.
LEMMA BallsJoin ==
  ASSUME NEW S \in SUBSET SchemaTable, NEW k \in 0 .. max_levels
  PROVE  /\ Scope!Within(S)[k] \in SUBSET SchemaTable
         /\ \A t \in SchemaTable :
              t \in Scope!Within(S)[k] <=> \E s \in S : t \in Scope!Within({s})[k]
<1> DEFINE V == Scope!Within(S)
           U(s) == Scope!Within({s})
           T == {n \in Nat : n <= max_levels =>
                   \A t \in SchemaTable : t \in V[n] <=> \E s \in S : t \in U(s)[n]}
<1>1. /\ max_levels \in Nat
      /\ Balls(V, S, Adjacent) /\ \A s \in S : Balls(U(s), {s}, Adjacent)
  <2>1. \A s \in S : {s} \in SUBSET SchemaTable
    OBVIOUS
  <2>2. QED
    BY <2>1, WithinBalls, ScopeConstants
<1> HIDE DEF V, U
<1>2. 0 \in T
  BY <1>1 DEF Balls
<1>3. ASSUME NEW n \in T PROVE n + 1 \in T
  <2>1. SUFFICES ASSUME n + 1 <= max_levels, NEW t \in SchemaTable
                 PROVE  t \in V[n + 1] <=> \E s \in S : t \in U(s)[n + 1]
    OBVIOUS
  <2>2. /\ n \in Nat /\ n + 1 \in 1 .. max_levels /\ (n + 1) - 1 = n /\ n <= max_levels
        /\ n \in 0 .. max_levels
    BY <1>1, <2>1
  <2>3. V[n + 1] = NextTo(Adjacent, V[n]) /\ V[n] \in SUBSET SchemaTable
    BY <1>1, <2>2 DEF Balls
  <2>4. \A s \in S : U(s)[n + 1] = NextTo(Adjacent, U(s)[n]) /\ U(s)[n] \in SUBSET SchemaTable
    BY <1>1, <2>2 DEF Balls
  <2>5. \A u \in SchemaTable : u \in V[n] <=> \E s \in S : u \in U(s)[n]
    BY <2>2
  <2>6. t \in V[n + 1] <=> t \in V[n] \/ \E u \in V[n] : t \in Adjacent[u]
    BY <2>3 DEF NextTo
  <2>7. \A s \in S : t \in U(s)[n + 1] <=> t \in U(s)[n] \/ \E u \in U(s)[n] : t \in Adjacent[u]
    BY <2>4 DEF NextTo
  <2>8. QED
    BY <2>3, <2>4, <2>5, <2>6, <2>7
<1>4. T = Nat
  <2>1. T \in SUBSET Nat
    OBVIOUS
  <2> HIDE DEF T
  <2>2. QED
    BY <1>2, <1>3, <2>1, Induction
<1>5. k \in T /\ k <= max_levels
  <2> HIDE DEF T
  <2> QED
    BY <1>1, <1>4
<1>6. V[k] \in SUBSET SchemaTable
  BY <1>1 DEF Balls
<1>7. QED
  BY <1>5, <1>6 DEF V, U

-----------------------------------------------------------------------------
(* The scope: one walk                                                     *)

\* V[k] is within k steps of s along N; l gives levels, q is what waits.
Wave(l, q, s, V, N) ==
  /\ l \in [SchemaTable -> 0 .. max_levels + 1] /\ q \in Seq(SchemaTable) /\ l[s] = 0
  /\ \A t \in SchemaTable : l[t] <= max_levels => t \in V[l[t]]
  /\ \A i \in 1 .. Len(q) : l[q[i]] <= max_levels
  /\ \A i, j \in 1 .. Len(q) : i < j => l[q[i]] <= l[q[j]]
  /\ \A t \in SchemaTable : \A i \in 1 .. Len(q) : l[t] <= max_levels => l[t] <= l[q[i]] + 1
  /\ \A t \in SchemaTable : l[t] < max_levels =>
       \/ \E i \in 1 .. Len(q) : q[i] = t
       \/ \A u \in N[t] : l[u] <= l[t] + 1

LEMMA BallsGrow ==
  ASSUME NEW V, NEW S, NEW N, Balls(V, S, N), NEW j \in 0 .. max_levels, NEW i \in 0 .. j
  PROVE  V[i] \subseteq V[j]
<1> DEFINE T == {n \in Nat : n <= max_levels => \A m \in 0 .. n : V[m] \subseteq V[n]}
<1>1. max_levels \in Nat
  BY ScopeConstants
<1>2. 0 \in T
  BY <1>1
<1>3. ASSUME NEW n \in T PROVE n + 1 \in T
  <2>1. SUFFICES ASSUME n + 1 <= max_levels, NEW m \in 0 .. n + 1 PROVE V[m] \subseteq V[n + 1]
    OBVIOUS
  <2>2. n \in Nat /\ n + 1 \in 1 .. max_levels /\ (n + 1) - 1 = n /\ n <= max_levels
    BY <1>1, <2>1
  <2>3. V[n] \subseteq V[n + 1]
    <3>1. V[n + 1] = NextTo(N, V[n])
      BY <2>2 DEF Balls
    <3>2. QED
      BY <3>1 DEF NextTo
  <2>4. m = n + 1 \/ m \in 0 .. n
    BY <2>2
  <2>5. QED
    BY <2>2, <2>3, <2>4
<1>4. T = Nat
  <2>1. T \in SUBSET Nat
    OBVIOUS
  <2> HIDE DEF T
  <2>2. QED
    BY <1>2, <1>3, <2>1, Induction
<1>5. j \in T /\ j <= max_levels
  <2> HIDE DEF T
  <2> QED
    BY <1>1, <1>4
<1>6. QED
  BY <1>5

LEMMA WaveStarts ==
  ASSUME NEW V, NEW N, NEW s \in SchemaTable, Balls(V, {s}, N),
         NEW l \in [SchemaTable -> 0 .. max_levels + 1],
         l[s] = 0, \A t \in SchemaTable \ {s} : l[t] = max_levels + 1
  PROVE  Wave(l, <<s>>, s, V, N)
<1>1. max_levels \in Nat /\ V[0] = {s}
  BY ScopeConstants DEF Balls
<1> DEFINE q == <<s>>
<1>2. q \in Seq(SchemaTable) /\ Len(q) = 1 /\ q[1] = s
  OBVIOUS
<1> HIDE DEF q
<1>3. \A t \in SchemaTable : l[t] <= max_levels => t = s
  BY <1>1
<1>4. 1 \in 1 .. Len(q) /\ \A i \in 1 .. Len(q) : i = 1
  BY <1>2
<1>5. Wave(l, q, s, V, N)
  <2>1. \A t \in SchemaTable : l[t] <= max_levels => t \in V[l[t]]
    BY <1>1, <1>3
  <2>2. \A i \in 1 .. Len(q) : q[i] = s /\ l[q[i]] = 0
    BY <1>2, <1>4
  <2>3. \A i, j \in 1 .. Len(q) : i < j => l[q[i]] <= l[q[j]]
    BY <2>2
  <2>4. \A t \in SchemaTable : l[t] < max_levels => \E i \in 1 .. Len(q) : q[i] = t
    <3>1. \A t \in SchemaTable : l[t] < max_levels => l[t] <= max_levels
      BY <1>1
    <3>2. QED
      BY <1>3, <1>4, <2>2, <3>1
  <2>5. \A t \in SchemaTable : \A i \in 1 .. Len(q) : l[t] <= max_levels => l[t] <= l[q[i]] + 1
    BY <1>3, <2>2
  <2>6. QED
    BY <1>1, <1>2, <2>1, <2>2, <2>3, <2>4, <2>5 DEF Wave
<1>6. QED
  BY <1>5 DEF q

LEMMA Joining ==
  ASSUME NEW S, NEW s \in Seq(S), NEW t \in Seq(S)
  PROVE  /\ Len(s) \in Nat /\ Len(t) \in Nat /\ s \o t \in Seq(S)
         /\ Len(s \o t) = Len(s) + Len(t)
         /\ \A i \in 1 .. Len(s) : i \in 1 .. Len(s) + Len(t) /\ (s \o t)[i] = s[i]
         /\ \A i \in 1 .. Len(t) : Len(s) + i \in 1 .. Len(s) + Len(t) /\ (s \o t)[Len(s) + i] = t[i]
         /\ \A i \in 1 .. Len(s) + Len(t) :
              i \in 1 .. Len(s) \/ \E j \in 1 .. Len(t) : i = Len(s) + j
<1>1. Len(s) \in Nat /\ Len(t) \in Nat /\ s \o t \in Seq(S) /\ Len(s \o t) = Len(s) + Len(t)
  OBVIOUS
<1>2. \A i \in 1 .. Len(s) + Len(t) : (s \o t)[i] = IF i <= Len(s) THEN s[i] ELSE t[i - Len(s)]
  OBVIOUS
<1>3. ASSUME NEW i \in 1 .. Len(t)
      PROVE  Len(s) + i \in 1 .. Len(s) + Len(t) /\ ~(Len(s) + i <= Len(s)) /\ (Len(s) + i) - Len(s) = i
  BY <1>1
<1>4. ASSUME NEW i \in 1 .. Len(s) + Len(t), i \notin 1 .. Len(s)
      PROVE  \E j \in 1 .. Len(t) : i = Len(s) + j
  <2>1. i - Len(s) \in 1 .. Len(t) /\ i = Len(s) + (i - Len(s))
    BY <1>1, <1>4
  <2>2. QED
    BY <2>1
<1>5. QED
  BY <1>1, <1>2, <1>3, <1>4

LEMMA WaveGoesOn ==
  ASSUME NEW V, NEW N \in [SchemaTable -> SUBSET SchemaTable], NEW s \in SchemaTable,
         Balls(V, {s}, N), NEW l, NEW q, Wave(l, q, s, V, N), q # <<>>,
         NEW X \in SUBSET SchemaTable,
         \A t \in SchemaTable : t \in X <=>
           l[Head(q)] < max_levels /\ t \in N[Head(q)] /\ l[t] = max_levels + 1,
         NEW f \in Seq(X), \A x \in X : \E i \in 1 .. Len(f) : f[i] = x,
         NEW m \in [SchemaTable -> Int],
         \A t \in SchemaTable : m[t] = IF t \in X THEN l[Head(q)] + 1 ELSE l[t]
  PROVE  Wave(m, Tail(q) \o f, s, V, N)
<1>1. /\ max_levels \in Nat /\ l \in [SchemaTable -> 0 .. max_levels + 1] /\ q \in Seq(SchemaTable)
      /\ l[s] = 0
      /\ \A t \in SchemaTable : l[t] <= max_levels => t \in V[l[t]]
      /\ \A i \in 1 .. Len(q) : l[q[i]] <= max_levels
      /\ \A i, j \in 1 .. Len(q) : i < j => l[q[i]] <= l[q[j]]
      /\ \A t \in SchemaTable : \A i \in 1 .. Len(q) : l[t] <= max_levels => l[t] <= l[q[i]] + 1
      /\ \A t \in SchemaTable : l[t] < max_levels =>
           \/ \E i \in 1 .. Len(q) : q[i] = t
           \/ \A u \in N[t] : l[u] <= l[t] + 1
  BY ScopeConstants DEF Wave
<1> DEFINE h == Head(q)
           r == Tail(q)
<1>2. /\ h \in SchemaTable /\ h = q[1] /\ 1 \in 1 .. Len(q) /\ r \in Seq(SchemaTable)
      /\ Len(r) = Len(q) - 1 /\ \A i \in 1 .. Len(r) : r[i] = q[i + 1]
      /\ Len(q) \in Nat /\ Len(q) # 0
  BY <1>1
<1> HIDE DEF h, r
<1>a. l[h] \in 0 .. max_levels
  BY <1>1, <1>2
<1>0. PICK d \in Nat : d \in 0 .. max_levels /\ l[h] = d
  BY <1>1, <1>a
<1>3. d \in 0 .. max_levels /\ d \in Nat
  BY <1>0
<1>4. \A i \in 1 .. Len(r) : /\ i + 1 \in 1 .. Len(q) /\ 1 < i + 1 /\ r[i] \in SchemaTable
                             /\ l[r[i]] \in 0 .. max_levels /\ d <= l[r[i]] /\ l[r[i]] <= d + 1
  <2>1. TAKE i \in 1 .. Len(r)
  <2>2. i + 1 \in 1 .. Len(q) /\ 1 < i + 1 /\ r[i] \in SchemaTable /\ r[i] = q[i + 1]
    BY <1>2
  <2>3. l[r[i]] <= max_levels /\ d <= l[r[i]]
    BY <1>0, <1>1, <1>2, <2>2
  <2>4. l[r[i]] <= d + 1
    BY <1>0, <1>1, <1>2, <2>2, <2>3
  <2>5. l[r[i]] \in 0 .. max_levels
    BY <1>1, <2>2, <2>3
  <2>6. QED
    BY <2>2, <2>3, <2>4, <2>5
<1>5. /\ X \in SUBSET SchemaTable
      /\ \A t \in X : t \in N[h] /\ l[t] = max_levels + 1 /\ d < max_levels
      /\ d < max_levels => \A t \in N[h] : l[t] = max_levels + 1 => t \in X
  <2>1. \A t \in SchemaTable : t \in X <=> d < max_levels /\ t \in N[h] /\ l[t] = max_levels + 1
    BY <1>0 DEF h
  <2>2. N[h] \in SUBSET SchemaTable
    BY <1>2
  <2>3. QED
    BY <2>1, <2>2
<1>6. \A t \in SchemaTable : m[t] = IF t \in X THEN d + 1 ELSE l[t]
  BY <1>0 DEF h
<1>7. m \in [SchemaTable -> 0 .. max_levels + 1]
  <2>1. \A t \in SchemaTable : m[t] \in 0 .. max_levels + 1
    <3>1. TAKE t \in SchemaTable
    <3>2. CASE t \in X
      <4>1. d < max_levels /\ m[t] = d + 1
        BY <1>5, <1>6, <3>2
      <4>2. QED
        BY <1>1, <1>3, <4>1
    <3>3. CASE t \notin X
      <4>1. m[t] = l[t] /\ l[t] \in 0 .. max_levels + 1
        BY <1>1, <1>6, <3>3
      <4>2. QED
        BY ONLY <4>1
    <3>4. QED
      BY ONLY <3>2, <3>3
  <2>2. m = [t \in SchemaTable |-> m[t]]
    OBVIOUS
  <2>3. QED
    BY <2>1, <2>2
<1>8. \A t \in SchemaTable : l[t] <= max_levels => t \notin X /\ m[t] = l[t]
  BY <1>1, <1>5, <1>6
<1>9. \A t \in X : m[t] = d + 1 /\ d + 1 <= max_levels /\ t \in SchemaTable
  BY <1>1, <1>3, <1>5, <1>6
<1>10. \A t \in SchemaTable : m[t] <= max_levels => t \in X \/ l[t] <= max_levels
  BY <1>6
<1>11. m[s] = 0
  BY <1>1, <1>8
<1>12. ASSUME NEW t \in SchemaTable, m[t] <= max_levels PROVE t \in V[m[t]]
  <2>1. CASE l[t] <= max_levels
    BY <1>1, <1>8, <2>1
  <2>2. CASE t \in X
    <3>0. t \in N[h] /\ m[t] = d + 1 /\ d + 1 <= max_levels
      BY <1>5, <1>9, <2>2
    <3>1. d + 1 \in 1 .. max_levels /\ (d + 1) - 1 = d /\ m[t] = d + 1
      <4>1. max_levels \in Nat /\ d \in Nat
        BY <1>1, <1>3
      <4>2. QED
        BY <3>0, <4>1
    <3>2. V[d + 1] = NextTo(N, V[d])
      BY <3>1 DEF Balls
    <3>3. h \in V[d]
      BY <1>0, <1>1, <1>2, <1>3
    <3>4. QED
      BY <3>0, <3>1, <3>2, <3>3 DEF NextTo
  <2>3. QED
    BY <1>10, <1>12, <2>1, <2>2
<1> SUFFICES ASSUME NEW p, p = r \o f PROVE Wave(m, p, s, V, N)
  BY DEF r
<1>13. /\ p \in Seq(SchemaTable) /\ Len(p) = Len(r) + Len(f)
       /\ \A i \in 1 .. Len(r) : i \in 1 .. Len(p) /\ p[i] = r[i]
       /\ \A i \in 1 .. Len(f) : Len(r) + i \in 1 .. Len(p) /\ p[Len(r) + i] = f[i]
       /\ \A i \in 1 .. Len(p) : i \in 1 .. Len(r) \/ \E j \in 1 .. Len(f) : i = Len(r) + j
       /\ Len(r) \in Nat /\ Len(f) \in Nat
  <2>1. f \in Seq(SchemaTable) /\ r \in Seq(SchemaTable)
    BY <1>2, <1>5
  <2>2. /\ Len(r) \in Nat /\ Len(f) \in Nat /\ r \o f \in Seq(SchemaTable)
        /\ Len(r \o f) = Len(r) + Len(f)
        /\ \A i \in 1 .. Len(r) : i \in 1 .. Len(r) + Len(f) /\ (r \o f)[i] = r[i]
        /\ \A i \in 1 .. Len(f) : Len(r) + i \in 1 .. Len(r) + Len(f) /\ (r \o f)[Len(r) + i] = f[i]
        /\ \A i \in 1 .. Len(r) + Len(f) :
             i \in 1 .. Len(r) \/ \E j \in 1 .. Len(f) : i = Len(r) + j
    BY <2>1, Joining
  <2>3. QED
    BY <2>2
\* What waits is of the two levels, the nearer first.
<1>14. \A i \in 1 .. Len(r) : m[p[i]] = l[r[i]] /\ d <= m[p[i]] /\ m[p[i]] <= d + 1
  <2>1. TAKE i \in 1 .. Len(r)
  <2>2. p[i] = r[i]
    BY <1>13
  <2>3. r[i] \in SchemaTable /\ l[r[i]] \in 0 .. max_levels /\ d <= l[r[i]] /\ l[r[i]] <= d + 1
    BY <1>4
  <2>4. l[r[i]] <= max_levels
    BY <1>1, <2>3
  <2>5. m[r[i]] = l[r[i]]
    BY <1>8, <2>3, <2>4
  <2>6. QED
    BY <2>2, <2>3, <2>5
<1>15. \A i \in 1 .. Len(p) : i \in 1 .. Len(r) \/ p[i] \in X
  <2>1. SUFFICES ASSUME NEW i \in 1 .. Len(p), i \notin 1 .. Len(r) PROVE p[i] \in X
    OBVIOUS
  <2>2. PICK j \in 1 .. Len(f) : i = Len(r) + j
    BY <1>13, <2>1
  <2>3. p[i] = f[j]
    BY <1>13, <2>2
  <2>4. f[j] \in X
    OBVIOUS
  <2>5. QED
    BY <2>3, <2>4
<1>16. \A i \in 1 .. Len(p) : /\ p[i] \in SchemaTable /\ m[p[i]] <= max_levels /\ m[p[i]] \in Nat
                             /\ d <= m[p[i]] /\ m[p[i]] <= d + 1
  <2>1. TAKE i \in 1 .. Len(p)
  <2>2. CASE i \in 1 .. Len(r)
    <3>1. p[i] = r[i] /\ r[i] \in SchemaTable /\ l[r[i]] \in 0 .. max_levels
      BY <1>4, <1>13, <2>2
    <3>2. m[p[i]] = l[r[i]] /\ d <= m[p[i]] /\ m[p[i]] <= d + 1
      BY <1>14, <2>2
    <3>3. m[p[i]] \in Nat /\ m[p[i]] <= max_levels
      BY <1>1, <3>1, <3>2
    <3>4. QED
      BY <3>1, <3>2, <3>3
  <2>3. CASE p[i] \in X
    <3>1. p[i] \in SchemaTable /\ m[p[i]] = d + 1 /\ d + 1 <= max_levels
      BY <1>9, <2>3
    <3>2. d \in Nat /\ max_levels \in Nat
      BY <1>1, <1>3
    <3>3. m[p[i]] \in Nat /\ m[p[i]] <= max_levels
      BY <3>1, <3>2
    <3>4. d <= m[p[i]] /\ m[p[i]] <= d + 1
      BY <3>1, <3>2
    <3>5. QED
      BY <3>1, <3>3, <3>4
  <2>4. QED
    BY <1>15, <2>2, <2>3
<1>17. ASSUME NEW i \in 1 .. Len(p), NEW j \in 1 .. Len(p), i < j PROVE m[p[i]] <= m[p[j]]
  <2>1. CASE j \in 1 .. Len(r)
    <3>1. i \in 1 .. Len(r) /\ i + 1 < j + 1
      BY <1>13, <1>17, <2>1
    <3>2. l[q[i + 1]] <= l[q[j + 1]]
      BY <1>1, <1>4, <2>1, <3>1
    <3>3. QED
      BY <1>2, <1>14, <2>1, <3>1, <3>2
  <2>2. CASE p[j] \in X
    BY <1>9, <1>16, <2>2
  <2>3. QED
    BY <1>15, <2>1, <2>2
<1>18. ASSUME NEW t \in SchemaTable, NEW i \in 1 .. Len(p), m[t] <= max_levels
       PROVE  m[t] <= m[p[i]] + 1
  <2>1. m[t] <= d + 1
    <3>1. CASE t \in X
      <4>1. m[t] = d + 1 /\ d \in Nat
        BY <1>3, <1>9, <3>1
      <4>2. QED
        BY <4>1
    <3>2. CASE l[t] <= max_levels
      BY <1>0, <1>1, <1>2, <1>8, <3>2
    <3>3. QED
      BY <1>10, <1>18, <3>1, <3>2
  <2>2. d <= m[p[i]] /\ m[p[i]] \in Nat
    BY <1>16
  <2>3. m[t] \in Nat /\ d \in Nat
    BY <1>1, <1>3, <1>7
  <2>4. \A a, b \in Nat : a <= d + 1 /\ d <= b => a <= b + 1
    OBVIOUS
  <2>5. QED
    BY <2>1, <2>2, <2>3, <2>4, Zenon
<1>19. ASSUME NEW t \in SchemaTable, m[t] < max_levels
       PROVE  (\E i \in 1 .. Len(p) : p[i] = t) \/ \A u \in N[t] : m[u] <= m[t] + 1
  <2>1. CASE t \in X
    <3>1. PICK i \in 1 .. Len(f) : f[i] = t
      BY <2>1
    <3>2. QED
      BY <1>13, <3>1
  <2>2. CASE t \notin X
    <3>1. m[t] = l[t] /\ l[t] < max_levels /\ l[t] \in Nat
      BY <1>1, <1>6, <1>19, <2>2
    <3>2. CASE t = h
      <4>1. ASSUME NEW u \in N[h] PROVE m[u] <= d + 1
        <5>1. u \in SchemaTable /\ l[u] \in 0 .. max_levels + 1
          BY <1>1, <1>2
        <5>2. CASE u \in X
          <6>1. m[u] = d + 1 /\ d \in Nat
            BY <1>3, <1>9, <5>2
          <6>2. QED
            BY <6>1
        <5>3. CASE u \notin X
          <6>1. d < max_levels
            BY <1>0, <3>1, <3>2
          <6>2. l[u] <= max_levels
            <7>1. l[u] # max_levels + 1
              BY <1>5, <5>3, <6>1
            <7>2. QED
              BY <1>1, <5>1, <7>1
          <6>3. QED
            BY <1>0, <1>1, <1>2, <1>8, <5>1, <6>2
        <5>4. QED
          BY <5>2, <5>3
      <4>2. QED
        BY <1>0, <3>1, <3>2, <4>1
    <3>3. CASE t # h
      <4>1. CASE \E i \in 1 .. Len(q) : q[i] = t
        <5>1. PICK i \in 1 .. Len(q) : q[i] = t
          BY <4>1
        <5>2. i - 1 \in 1 .. Len(r) /\ (i - 1) + 1 = i
          BY <1>2, <3>3, <5>1
        <5>3. r[i - 1] = t
          BY <1>2, <5>1, <5>2
        <5>4. QED
          BY <1>13, <5>2, <5>3
      <4>2. CASE \A u \in N[t] : l[u] <= l[t] + 1
        <5>1. ASSUME NEW u \in N[t] PROVE m[u] <= m[t] + 1
          <6>1. u \in SchemaTable /\ l[u] <= l[t] + 1 /\ l[u] \in Nat
            BY <1>1, <4>2
          <6>2. l[u] <= max_levels
            BY <1>1, <3>1, <6>1
          <6>3. QED
            BY <1>8, <3>1, <6>1, <6>2
        <5>2. QED
          BY <5>1
      <4>3. QED
        BY <1>1, <3>1, <4>1, <4>2
    <3>4. QED
      BY <3>2, <3>3
  <2>3. QED
    BY <2>1, <2>2
<1>20. QED
  BY <1>7, <1>11, <1>12, <1>13, <1>16, <1>17, <1>18, <1>19 DEF Wave

LEMMA WaveEnds ==
  ASSUME NEW V, NEW N \in [SchemaTable -> SUBSET SchemaTable], NEW s \in SchemaTable,
         Balls(V, {s}, N), NEW l, Wave(l, <<>>, s, V, N),
         NEW t \in SchemaTable, NEW k \in 0 .. max_levels
  PROVE  l[t] <= k <=> t \in V[k]
<1>1. /\ max_levels \in Nat /\ l \in [SchemaTable -> 0 .. max_levels + 1] /\ l[s] = 0
      /\ \A u \in SchemaTable : l[u] <= max_levels => u \in V[l[u]]
      /\ \A u \in SchemaTable : l[u] < max_levels => \A v \in N[u] : l[v] <= l[u] + 1
      /\ V \in [0 .. max_levels -> SUBSET SchemaTable]
  BY ScopeConstants DEF Wave, Balls
<1>2. ASSUME l[t] <= k PROVE t \in V[k]
  <2>1. l[t] <= max_levels /\ l[t] \in 0 .. k
    BY <1>1, <1>2
  <2>2. QED
    BY <1>1, <2>1, BallsGrow
<1> DEFINE T == {n \in Nat : n <= max_levels => \A u \in V[n] : l[u] <= n}
<1>3. 0 \in T
  <2>1. V[0] = {s}
    BY DEF Balls
  <2>2. QED
    BY <1>1, <2>1
<1>4. ASSUME NEW n \in T PROVE n + 1 \in T
  <2>1. SUFFICES ASSUME n + 1 <= max_levels, NEW u \in V[n + 1] PROVE l[u] <= n + 1
    OBVIOUS
  <2>2. /\ n \in Nat /\ n + 1 \in 1 .. max_levels /\ (n + 1) - 1 = n /\ n <= max_levels
        /\ n < max_levels /\ n \in 0 .. max_levels
    BY <1>1, <2>1
  <2>3. V[n + 1] = NextTo(N, V[n]) /\ V[n] \in SUBSET SchemaTable
    BY <1>1, <2>2 DEF Balls
  <2>4. u \in V[n] \/ \E v \in V[n] : u \in N[v]
    BY <2>3 DEF NextTo
  <2>5. CASE u \in V[n]
    <3>1. l[u] <= n /\ l[u] \in Nat
      BY <1>1, <2>2, <2>3, <2>5
    <3>2. QED
      BY <2>2, <3>1
  <2>6. CASE \E v \in V[n] : u \in N[v]
    <3>1. PICK v \in V[n] : u \in N[v]
      BY <2>6
    <3>2. v \in SchemaTable /\ l[v] <= n /\ l[v] \in Nat
      BY <1>1, <2>2, <2>3
    <3>3. l[u] <= l[v] + 1 /\ u \in SchemaTable
      <4>1. l[v] < max_levels
        BY <1>1, <2>2, <3>2
      <4>2. QED
        BY <1>1, <3>1, <3>2, <4>1
    <3>4. l[u] \in Nat
      BY <1>1, <3>3
    <3>5. QED
      BY <2>2, <3>2, <3>3, <3>4
  <2>7. QED
    BY <2>4, <2>5, <2>6
<1>5. T = Nat
  <2>1. T \in SUBSET Nat
    OBVIOUS
  <2> HIDE DEF T
  <2>2. QED
    BY <1>3, <1>4, <2>1, Induction
<1>6. k \in T /\ k <= max_levels
  <2> HIDE DEF T
  <2> QED
    BY <1>1, <1>5
<1>7. QED
  BY <1>2, <1>6

-----------------------------------------------------------------------------
(* The scope: lists of candidates                                          *)


\* The lists that a sort chooses from.
LEMMA ToSeqs ==
  ASSUME NEW S, IsFiniteSet(S), NEW f
  PROVE  /\ f \in Scope!SetToSeqs(S) => Lists(f, S)
         /\ Lists(f, S) => f \in Scope!SetToSeqs(S)
<1>1. Scope!Cardinality(S) = Cardinality(S)
  BY Zenon DEF Scope!Cardinality, Cardinality
<1>2. ASSUME f \in Scope!SetToSeqs(S) PROVE Lists(f, S)
  <2>1. f \in [1 .. Cardinality(S) -> S] /\ \A i, j \in 1 .. Cardinality(S) : i # j => f[i] # f[j]
    BY <1>1, <1>2 DEF Scope!SetToSeqs
  <2>2. QED
    BY <2>1, Listed
<1>3. ASSUME Lists(f, S) PROVE f \in Scope!SetToSeqs(S)
  BY <1>1, <1>3 DEF Scope!SetToSeqs, Lists
<1>4. QED
  BY <1>2, <1>3

LEMMA SortsUp ==
  ASSUME NEW S \in SUBSET Nat, IsFiniteSet(S)
  PROVE  Lists(Scope!Sorted(S, <), S)
<1> DEFINE Up(f) == \A i, j \in DOMAIN f : i < j => f[i] < f[j]
           R == {p \in S \X S : p[1] < p[2]}
<1>1. Orders(R, S)
  <2>1. \A x, y \in S : <<x, y>> \in R <=> x < y
    OBVIOUS
  <2>2. \A x \in S : x \in Nat
    OBVIOUS
  <2> HIDE DEF R
  <2>3. QED
    BY <2>1, <2>2 DEF Orders
<1>2. PICK s : Lists(s, S) /\ Follows(s, R)
  <2> HIDE DEF R
  <2> QED
    BY <1>1, SortedExists
<1>3. s \in Scope!SetToSeqs(S) /\ Up(s)
  BY <1>2, ToSeqs DEF Follows
<1>4. PICK r : r = Scope!Sorted(S, <)
  OBVIOUS
<1>5. r \in Scope!SetToSeqs(S) /\ Up(r)
  <2>1. r = CHOOSE f \in Scope!SetToSeqs(S) : Up(f)
    BY <1>4 DEF Scope!Sorted
  <2> HIDE DEF Up
  <2>2. QED
    BY <1>3, <2>1
<1>6. QED
  BY <1>4, <1>5, ToSeqs

\* t takes elements of s, each position at most once.
Takes(t, s) ==
  \E g \in [1 .. Len(t) -> 1 .. Len(s)] :
    /\ \A i, j \in 1 .. Len(t) : i # j => g[i] # g[j]
    /\ \A i \in 1 .. Len(t) : t[i] = s[g[i]]

\* The n elements of t are those at the positions g of s.
Picks(t, s, g, n) ==
  /\ g \in [1 .. n -> 1 .. Len(s)]
  /\ \A i, j \in 1 .. n : i # j => g[i] # g[j]
  /\ \A i \in 1 .. n : t[i] = s[g[i]]

LEMMA Taken ==
  ASSUME NEW A, NEW s \in Seq(A), NEW n \in Nat, NEW t \in [1 .. n -> A], NEW g, Picks(t, s, g, n)
  PROVE  t \in Seq(A) /\ Len(t) = n /\ Takes(t, s)
<1>1. t \in Seq(A) /\ Len(t) = n
  OBVIOUS
<1>2. QED
  BY <1>1 DEF Takes, Picks

LEMMA TakesFew ==
  ASSUME NEW A, NEW s \in Seq(A), NEW t \in Seq(A), Takes(t, s)
  PROVE  Len(t) <= Len(s)
<1>1. PICK g \in [1 .. Len(t) -> 1 .. Len(s)] :
        \A i, j \in 1 .. Len(t) : i # j => g[i] # g[j]
  BY DEF Takes
<1>2. Len(t) \in Nat /\ Len(s) \in Nat
  OBVIOUS
<1> DEFINE n == Len(t) k == Len(s)
<1>3. g \in Injection(1 .. n, 1 .. k)
  BY <1>1 DEF Injection, IsInjective
<1>4. /\ IsFiniteSet(1 .. n) /\ Cardinality(1 .. n) = n
      /\ IsFiniteSet(1 .. k) /\ Cardinality(1 .. k) = k
  <2> HIDE DEF n, k
  <2>0. n \in Nat /\ k \in Nat
    BY <1>2 DEF n, k
  <2>1. 1 \in Int /\ n \in Int /\ (1 > n => n = 0) /\ (~(1 > n) => n - 1 + 1 = n)
    BY <2>0
  <2>2. 1 \in Int /\ k \in Int /\ (1 > k => k = 0) /\ (~(1 > k) => k - 1 + 1 = k)
    BY <2>0
  <2>3. QED
    BY <2>1, <2>2, FS_Interval
<1>5. Cardinality(1 .. n) <= Cardinality(1 .. k)
  <2> HIDE DEF n, k
  <2> QED
    BY <1>3, <1>4, FS_Injection
<1>6. QED
  BY <1>4, <1>5

LEMMA TakesOfTaken ==
  ASSUME NEW A, NEW s \in Seq(A), NEW t \in Seq(A), NEW u \in Seq(A), Takes(t, s), Takes(u, t)
  PROVE  Takes(u, s)
<1>1. PICK g \in [1 .. Len(t) -> 1 .. Len(s)] :
        /\ \A i, j \in 1 .. Len(t) : i # j => g[i] # g[j]
        /\ \A i \in 1 .. Len(t) : t[i] = s[g[i]]
  BY DEF Takes
<1>2. PICK h \in [1 .. Len(u) -> 1 .. Len(t)] :
        /\ \A i, j \in 1 .. Len(u) : i # j => h[i] # h[j]
        /\ \A i \in 1 .. Len(u) : u[i] = t[h[i]]
  BY DEF Takes
<1> DEFINE f == [i \in 1 .. Len(u) |-> g[h[i]]]
<1>3. f \in [1 .. Len(u) -> 1 .. Len(s)] /\ \A i \in 1 .. Len(u) : f[i] = g[h[i]]
  OBVIOUS
<1> HIDE DEF f
<1>4. ASSUME NEW i \in 1 .. Len(u), NEW j \in 1 .. Len(u), i # j PROVE f[i] # f[j]
  <2>1. h[i] \in 1 .. Len(t) /\ h[j] \in 1 .. Len(t) /\ h[i] # h[j]
    BY <1>2, <1>4
  <2>2. g[h[i]] # g[h[j]]
    BY <1>1, <2>1
  <2>3. QED
    BY <1>3, <2>2
<1>5. ASSUME NEW i \in 1 .. Len(u) PROVE u[i] = s[f[i]]
  <2>1. h[i] \in 1 .. Len(t) /\ u[i] = t[h[i]] /\ f[i] = g[h[i]]
    BY <1>2, <1>3
  <2>2. t[h[i]] = s[g[h[i]]]
    BY <1>1, <2>1
  <2>3. QED
    BY ONLY <2>1, <2>2
<1>6. QED
  BY <1>3, <1>4, <1>5 DEF Takes

\* The elements at some positions.
LEMMA AtTakes ==
  ASSUME NEW A, NEW s \in Seq(A), NEW I \in SUBSET (1 .. Len(s))
  PROVE  /\ Scope!At(s, I) \in Seq(A) /\ Takes(Scope!At(s, I), s)
         /\ \A i \in I : \E j \in 1 .. Len(Scope!At(s, I)) : Scope!At(s, I)[j] = s[i]
         /\ \A j \in 1 .. Len(Scope!At(s, I)) : \E i \in I : Scope!At(s, I)[j] = s[i]
<1>1. Len(s) \in Nat
  OBVIOUS
<1>2. I \in SUBSET Nat /\ IsFiniteSet(I)
  <2>1. IsFiniteSet(1 .. Len(s))
    <3>1. 1 \in Int /\ Len(s) \in Int
      BY <1>1
    <3>2. QED
      BY <3>1, FS_Interval
  <2>2. IsFiniteSet(I)
    BY <2>1, FS_Subset
  <2>3. QED
    BY <2>2
<1>3. PICK at : at = Scope!Sorted(I, <)
  OBVIOUS
<1>4. Lists(at, I)
  BY <1>2, <1>3, SortsUp
<1>5. PICK n : n = Cardinality(I)
  OBVIOUS
<1>6. /\ n \in Nat /\ at \in [1 .. n -> I] /\ Len(at) = n
      /\ \A i, j \in 1 .. n : i # j => at[i] # at[j]
      /\ \A i \in I : \E j \in 1 .. n : at[j] = i
  BY <1>2, <1>4, <1>5, FS_CardinalityType DEF Lists
<1>7. PICK t : t = [i \in 1 .. n |-> s[at[i]]]
  OBVIOUS
<1>8. t = Scope!At(s, I)
  <2>1. DOMAIN at = 1 .. n
    BY <1>6
  <2>2. Scope!At(s, I) = [i \in DOMAIN at |-> s[at[i]]]
    BY <1>3 DEF Scope!At
  <2>3. QED
    BY <1>7, <2>1, <2>2
<1>9. at \in [1 .. n -> 1 .. Len(s)]
  BY <1>6
<1>10. \A j \in 1 .. n : t[j] = s[at[j]] /\ at[j] \in I /\ at[j] \in 1 .. Len(s)
  BY <1>6, <1>7
<1>11. t \in [1 .. n -> A]
  BY <1>7, <1>10
<1>12. t \in Seq(A) /\ Len(t) = n /\ Takes(t, s)
  <2>1. n \in Nat /\ \A i, j \in 1 .. n : i # j => at[i] # at[j]
    BY <1>6
  <2>2. \A i \in 1 .. n : t[i] = s[at[i]]
    BY <1>10
  <2>3. s \in Seq(A)
    OBVIOUS
  <2>4. QED
    <3>1. Picks(t, s, at, n)
      BY ONLY <1>9, <2>1, <2>2 DEF Picks
    <3>2. QED
      BY ONLY <1>11, <2>1, <2>3, <3>1, Taken
<1>13. \A i \in I : \E j \in 1 .. n : t[j] = s[i]
  BY <1>6, <1>10
<1>14. \A j \in 1 .. n : \E i \in I : t[j] = s[i]
  BY <1>10
<1>15. QED
  BY <1>8, <1>12, <1>13, <1>14

LEMMA FirstTakes ==
  ASSUME NEW A, NEW s \in Seq(A), NEW k \in Nat
  PROVE  /\ Scope!First(k, s) \in Seq(A) /\ Takes(Scope!First(k, s), s)
         /\ Len(Scope!First(k, s)) = IF k <= Len(s) THEN k ELSE Len(s)
         /\ \A i \in 1 .. Len(Scope!First(k, s)) : i \in 1 .. Len(s) /\ Scope!First(k, s)[i] = s[i]
<1>1. Len(s) \in Nat
  OBVIOUS
<1>2. PICK n : n = IF k <= Len(s) THEN k ELSE Len(s)
  OBVIOUS
<1>3. n \in Nat /\ n <= Len(s) /\ n \in {k, Len(s)} /\ \A y \in {k, Len(s)} : n <= y
  BY <1>1, <1>2
<1>4. Scope!Min({k, Len(s)}) = n
  <2>1. \A x \in {k, Len(s)} : x \in Nat
    BY <1>1
  <2>2. \A x \in {k, Len(s)} : (\A y \in {k, Len(s)} : x <= y) => x = n
    BY <1>3, <2>1
  <2>3. QED
    BY <1>3, <2>2 DEF Scope!Min
<1>5. PICK t : t = [i \in 1 .. n |-> s[i]]
  OBVIOUS
<1>6. t = Scope!First(k, s)
  BY <1>4, <1>5 DEF Scope!First
<1> DEFINE g == [i \in 1 .. n |-> i]
<1>7. g \in [1 .. n -> 1 .. Len(s)] /\ \A i \in 1 .. n : g[i] = i
  BY <1>1, <1>3
<1> HIDE DEF g
<1>8. t \in [1 .. n -> A] /\ \A i \in 1 .. n : t[i] = s[g[i]]
  BY <1>1, <1>3, <1>5, <1>7
<1>9. t \in Seq(A) /\ Len(t) = n /\ Takes(t, s)
  <2>1. n \in Nat /\ \A i, j \in 1 .. n : i # j => g[i] # g[j]
    BY <1>3, <1>7
  <2>2. t \in [1 .. n -> A] /\ \A i \in 1 .. n : t[i] = s[g[i]]
    BY <1>8
  <2>3. g \in [1 .. n -> 1 .. Len(s)]
    BY <1>7
  <2>4. s \in Seq(A)
    OBVIOUS
  <2>5. QED
    <3>1. Picks(t, s, g, n)
      BY ONLY <2>1, <2>2, <2>3 DEF Picks
    <3>2. QED
      BY ONLY <2>1, <2>2, <2>4, <3>1, Taken
<1>10. \A i \in 1 .. n : i \in 1 .. Len(s) /\ t[i] = s[i]
  BY <1>1, <1>3, <1>5
<1>11. QED
  BY <1>2, <1>6, <1>9, <1>10

LEMMA CountUpTo ==
  ASSUME NEW n \in Nat
  PROVE  IsFiniteSet(1 .. n) /\ Cardinality(1 .. n) = n
<1>1. 1 \in Int /\ n \in Int /\ (1 > n => n = 0) /\ (~(1 > n) => n - 1 + 1 = n)
  OBVIOUS
<1>2. QED
  BY <1>1, FS_Interval

\* Ranking puts candidates into another order.
LEMMA RankedTakes ==
  ASSUME NEW s \in Seq(Scope!Candidate)
  PROVE  /\ Scope!Ranked(s) \in Seq(Scope!Candidate) /\ Takes(Scope!Ranked(s), s)
         /\ Len(Scope!Ranked(s)) = Len(s)
         /\ \A i \in 1 .. Len(s) : \E j \in 1 .. Len(s) : Scope!Ranked(s)[j] = s[i]
<1>1. Len(s) \in Nat /\ DOMAIN s = 1 .. Len(s)
  OBVIOUS
<1>2. PICK n : n = Len(s)
  OBVIOUS
<1>3. n \in Nat /\ IsFiniteSet(1 .. n) /\ Cardinality(1 .. n) = n
  BY <1>1, <1>2, CountUpTo
<1> DEFINE Better(i, j) == \/ s[i].similarity > s[j].similarity
                           \/ s[i].similarity = s[j].similarity /\ i < j
           Up(f) == \A i, j \in DOMAIN f : i < j => Better(f[i], f[j])
           R == {p \in (1 .. n) \X (1 .. n) : Better(p[1], p[2])}
<1>4. \A i \in 1 .. n : s[i].similarity \in Nat /\ i \in Nat /\ s[i] \in Scope!Candidate
  <2>1. TAKE i \in 1 .. n
  <2>2. s[i] \in Scope!Candidate
    BY <1>2
  <2>3. MaxSimilarity \in Nat
    BY ScopeConstants
  <2>4. QED
    BY <2>2, <2>3 DEF Scope!Candidate
<1>5. Orders(R, 1 .. n)
  <2>1. \A i, j \in 1 .. n : <<i, j>> \in R <=> Better(i, j)
    OBVIOUS
  <2> HIDE DEF R
  <2>2. \A i \in 1 .. n : <<i, i>> \notin R
    BY <1>4, <2>1
  <2>3. \A i, j \in 1 .. n : i = j \/ <<i, j>> \in R \/ <<j, i>> \in R
    <3>1. TAKE i, j \in 1 .. n
    <3>2. i = j \/ Better(i, j) \/ Better(j, i)
      BY <1>4
    <3> HIDE DEF Better
    <3>3. QED
      BY <2>1, <3>2
  <2>4. \A i, j, k \in 1 .. n : <<i, j>> \in R /\ <<j, k>> \in R => <<i, k>> \in R
    <3>1. TAKE i, j, k \in 1 .. n
    <3>2. Better(i, j) /\ Better(j, k) => Better(i, k)
      BY <1>4
    <3> HIDE DEF Better
    <3>3. QED
      BY <2>1, <3>2
  <2>5. QED
    BY <2>2, <2>3, <2>4 DEF Orders
<1>6. PICK o : Lists(o, 1 .. n) /\ Follows(o, R)
  <2> HIDE DEF R
  <2> QED
    BY <1>3, <1>5, SortedExists
<1>7. o \in Scope!SetToSeqs(1 .. n) /\ Up(o)
  <2>1. \A i, j : <<i, j>> \in R => Better(i, j)
    OBVIOUS
  <2> HIDE DEF R, Better
  <2>2. QED
    BY <1>3, <1>6, <2>1, ToSeqs DEF Follows
<1> DEFINE order == CHOOSE f \in Scope!SetToSeqs(1 .. n) : Up(f)
<1>8. Scope!Ranked(s) = [i \in 1 .. n |-> s[order[i]]]
  BY <1>1, <1>2 DEF Scope!Ranked, Scope!Sorted
<1>9. order \in Scope!SetToSeqs(1 .. n)
  <2> HIDE DEF Up
  <2> QED
    BY <1>7
<1> HIDE DEF order
<1>10. Lists(order, 1 .. n)
  BY <1>3, <1>9, ToSeqs
<1>11. /\ order \in [1 .. n -> 1 .. n]
       /\ \A i, j \in 1 .. n : i # j => order[i] # order[j]
       /\ \A i \in 1 .. n : \E j \in 1 .. n : order[j] = i
  BY <1>3, <1>10 DEF Lists
<1>12. PICK t : t = Scope!Ranked(s)
  OBVIOUS
<1>13. \A i \in 1 .. n : t[i] = s[order[i]] /\ order[i] \in 1 .. n
  BY <1>8, <1>11, <1>12
<1>14. t \in [1 .. n -> Scope!Candidate]
  BY <1>4, <1>8, <1>12, <1>13
<1>15. t \in Seq(Scope!Candidate) /\ Len(t) = n /\ Takes(t, s)
  <2>1. order \in [1 .. n -> 1 .. Len(s)]
    BY <1>2, <1>11
  <2>2. \A i, j \in 1 .. n : i # j => order[i] # order[j]
    BY <1>11
  <2>3. \A i \in 1 .. n : t[i] = s[order[i]]
    BY <1>13
  <2>4. QED
    <3>1. Picks(t, s, order, n)
      BY ONLY <2>1, <2>2, <2>3 DEF Picks
    <3>2. QED
      BY <1>3, <1>14, <3>1, Taken
<1>16. \A i \in 1 .. n : \E j \in 1 .. n : t[j] = s[i]
  BY <1>11, <1>13
<1>17. QED
  BY <1>2, <1>12, <1>15, <1>16

\* No two candidates are about one table.
Apart(s) == \A i, j \in 1 .. Len(s) : i # j => s[i].table_name # s[j].table_name

LEMMA ApartTaken ==
  ASSUME NEW A, NEW s \in Seq(A), NEW t \in Seq(A), Takes(t, s), Apart(s)
  PROVE  Apart(t)
<1>1. PICK g \in [1 .. Len(t) -> 1 .. Len(s)] :
        /\ \A i, j \in 1 .. Len(t) : i # j => g[i] # g[j]
        /\ \A i \in 1 .. Len(t) : t[i] = s[g[i]]
  BY DEF Takes
<1>2. SUFFICES ASSUME NEW i \in 1 .. Len(t), NEW j \in 1 .. Len(t), i # j
               PROVE  t[i].table_name # t[j].table_name
  BY DEF Apart
<1>3. g[i] \in 1 .. Len(s) /\ g[j] \in 1 .. Len(s) /\ g[i] # g[j]
  BY <1>1, <1>2
<1>4. s[g[i]].table_name # s[g[j]].table_name
  BY <1>3 DEF Apart
<1>5. QED
  BY <1>1, <1>4

LEMMA RetrievedFew ==
  ASSUME NEW similarity \in [Embedded -> 0 .. MaxSimilarity]
  PROVE  /\ Scope!Retrieved(similarity) \in Seq(Scope!Candidate)
         /\ Apart(Scope!Retrieved(similarity)) /\ Len(Scope!Retrieved(similarity)) <= top_k
<1> DEFINE S == {n \in Embedded : similarity[n] > 0}
<1>1. S \in SUBSET Nat /\ IsFiniteSet(S)
  <2>1. S \subseteq Embedded /\ Embedded \in SUBSET Nat /\ IsFiniteSet(Embedded)
    BY ScopeConstants
  <2> HIDE DEF S
  <2>2. IsFiniteSet(S)
    BY <2>1, FS_Subset
  <2>3. QED
    BY <2>1, <2>2
<1>2. PICK p : p = Scope!Sorted(S, <)
  OBVIOUS
<1>3. PICK n : n = Cardinality(S)
  OBVIOUS
<1>4. n \in Nat /\ p \in [1 .. n -> S] /\ \A i, j \in 1 .. n : i # j => p[i] # p[j]
  <2>1. Lists(p, S)
    <3> HIDE DEF S
    <3> QED
      BY <1>1, <1>2, SortsUp
  <2> HIDE DEF S
  <2>2. QED
    BY <1>1, <1>3, <2>1, FS_CardinalityType DEF Lists
<1>5. PICK c : c = [i \in 1 .. n |-> [table_name |-> p[i], similarity |-> similarity[p[i]]]]
  OBVIOUS
<1>6. \A i \in 1 .. n : c[i].table_name = p[i] /\ c[i] \in Scope!Candidate
  <2>1. TAKE i \in 1 .. n
  <2>2. p[i] \in Embedded /\ similarity[p[i]] > 0 /\ similarity[p[i]] \in 0 .. MaxSimilarity
    BY <1>4
  <2>3. similarity[p[i]] \in 1 .. MaxSimilarity
    BY <2>2, ScopeConstants
  <2>4. c[i] = [table_name |-> p[i], similarity |-> similarity[p[i]]]
    BY <1>5
  <2>5. QED
    BY <2>2, <2>3, <2>4 DEF Scope!Candidate
<1>7. c \in [1 .. n -> Scope!Candidate]
  BY <1>5, <1>6
<1>8. c \in Seq(Scope!Candidate) /\ Len(c) = n
  BY <1>4, <1>7
<1>9. Apart(c)
  BY <1>4, <1>6, <1>8 DEF Apart
<1>10. Scope!Retrieved(similarity) = Scope!First(top_k, Scope!Ranked(c))
  <2>1. DOMAIN p = 1 .. n
    BY <1>4
  <2>2. QED
    BY <1>2, <1>5, <2>1 DEF Scope!Retrieved
<1>11. PICK r : r = Scope!Ranked(c)
  OBVIOUS
<1>12. r \in Seq(Scope!Candidate) /\ Apart(r)
  BY <1>8, <1>9, <1>11, RankedTakes, ApartTaken
<1>13. PICK t : t = Scope!First(top_k, r)
  OBVIOUS
<1>14. t \in Seq(Scope!Candidate) /\ Apart(t) /\ Len(t) <= top_k
  <2>1. top_k \in Nat /\ Len(r) \in Nat
    BY <1>12, ScopeConstants
  <2>2. t \in Seq(Scope!Candidate) /\ Takes(t, r) /\ Len(t) = IF top_k <= Len(r) THEN top_k ELSE Len(r)
    BY <1>12, <1>13, <2>1, FirstTakes
  <2>3. QED
    BY <1>12, <2>1, <2>2, ApartTaken
<1>15. QED
  BY <1>10, <1>11, <1>13, <1>14

LEMMA ListOf ==
  ASSUME NEW A, NEW n \in Nat, NEW s \in [1 .. n -> A]
  PROVE  s \in Seq(A) /\ Len(s) = n
  OBVIOUS

LEMMA GreatestNumber ==
  ASSUME NEW S \in SUBSET Nat, NEW N \in Nat, \A x \in S : x <= N, S # {}
  PROVE  Scope!Max(S) \in S
<1> DEFINE T == {N - x : x \in S}
<1>1. T \in SUBSET Nat /\ T # {}
  <2>1. \A x \in S : N - x \in Nat
    OBVIOUS
  <2>2. QED
    BY <2>1
<1>2. PICK n \in T : \A m \in T : n <= m
  <2> HIDE DEF T
  <2> QED
    BY <1>1, LeastNumber
<1>3. PICK x \in S : n = N - x
  BY <1>2
<1>4. \A y \in S : x >= y
  <2>1. TAKE y \in S
  <2>2. N - y \in T
    OBVIOUS
  <2>3. n <= N - y
    <3> HIDE DEF T
    <3> QED
      BY <1>2, <2>2
  <2>4. x \in Nat /\ y \in Nat
    OBVIOUS
  <2>5. QED
    BY <1>3, <2>3, <2>4
<1>5. QED
  BY <1>3, <1>4 DEF Scope!Max

\* The names of a list of candidates.
Named(s) == {s[i].table_name : i \in 1 .. Len(s)}

LEMMA JoinedApart ==
  ASSUME NEW A, NEW a \in Seq(A), NEW f \in Seq(A), Apart(a), Apart(f), Named(a) \cap Named(f) = {}
  PROVE  a \o f \in Seq(A) /\ Apart(a \o f) /\ Named(a) \subseteq Named(a \o f)
<1>0. PICK x : x = a \o f
  OBVIOUS
<1>1. /\ x \in Seq(A) /\ Len(a) \in Nat /\ Len(f) \in Nat /\ Len(x) = Len(a) + Len(f)
      /\ \A i \in 1 .. Len(a) : i \in 1 .. Len(x) /\ x[i] = a[i]
      /\ \A i \in 1 .. Len(f) : Len(a) + i \in 1 .. Len(x) /\ x[Len(a) + i] = f[i]
      /\ \A i \in 1 .. Len(x) :
           i \in 1 .. Len(a) \/ \E j \in 1 .. Len(f) : i = Len(a) + j
  <2>1. /\ a \o f \in Seq(A) /\ Len(a) \in Nat /\ Len(f) \in Nat
        /\ Len(a \o f) = Len(a) + Len(f)
        /\ \A i \in 1 .. Len(a) : i \in 1 .. Len(a) + Len(f) /\ (a \o f)[i] = a[i]
        /\ \A i \in 1 .. Len(f) : Len(a) + i \in 1 .. Len(a) + Len(f) /\ (a \o f)[Len(a) + i] = f[i]
        /\ \A i \in 1 .. Len(a) + Len(f) :
             i \in 1 .. Len(a) \/ \E j \in 1 .. Len(f) : i = Len(a) + j
    BY Joining
  <2>2. QED
    BY <1>0, <2>1
<1>2. \A i \in 1 .. Len(a) : a[i].table_name \in Named(a)
  BY DEF Named
<1>3. \A i \in 1 .. Len(f) : f[i].table_name \in Named(f)
  BY DEF Named
<1>4. ASSUME NEW i \in 1 .. Len(x), NEW j \in 1 .. Len(x), i # j
      PROVE  x[i].table_name # x[j].table_name
  <2>1. CASE i \in 1 .. Len(a) /\ j \in 1 .. Len(a)
    BY <1>1, <1>4, <2>1 DEF Apart
  <2>2. CASE i \in 1 .. Len(a) /\ j \notin 1 .. Len(a)
    <3>1. PICK k \in 1 .. Len(f) : j = Len(a) + k
      BY <1>1, <2>2
    <3>2. x[i] = a[i] /\ x[j] = f[k]
      BY <1>1, <2>2, <3>1
    <3>3. QED
      BY <1>2, <1>3, <2>2, <3>2
  <2>3. CASE i \notin 1 .. Len(a) /\ j \in 1 .. Len(a)
    <3>1. PICK k \in 1 .. Len(f) : i = Len(a) + k
      BY <1>1, <2>3
    <3>2. x[j] = a[j] /\ x[i] = f[k]
      BY <1>1, <2>3, <3>1
    <3>3. QED
      BY <1>2, <1>3, <2>3, <3>2
  <2>4. CASE i \notin 1 .. Len(a) /\ j \notin 1 .. Len(a)
    <3>1. PICK k \in 1 .. Len(f) : i = Len(a) + k
      BY <1>1, <2>4
    <3>2. PICK m \in 1 .. Len(f) : j = Len(a) + m
      BY <1>1, <2>4
    <3>3. k # m
      BY <1>4, <3>1, <3>2
    <3>4. x[i] = f[k] /\ x[j] = f[m]
      BY <1>1, <3>1, <3>2
    <3>5. QED
      BY <3>3, <3>4 DEF Apart
  <2>5. QED
    BY <2>1, <2>2, <2>3, <2>4
<1>5. Named(a) \subseteq Named(x)
  BY <1>1 DEF Named
<1>6. QED
  BY <1>0, <1>1, <1>4, <1>5 DEF Apart

\* What _widen makes of two lists.
LEMMA MergedKeeps ==
  ASSUME NEW c \in Seq(Scope!Candidate), Apart(c),
         NEW new \in Seq(Scope!Candidate), Apart(new),
         NEW w, w = Scope!Merged(c, new)
  PROVE  w \in Seq(Scope!Candidate) /\ Apart(w) /\ Named(c) \subseteq Named(w)
<1> DEFINE I == {i \in 1 .. Len(new) : new[i].table_name \notin Named(c)}
           best(n) == Scope!Max({d.similarity : d \in {e \in Scope!Range(c \o new) : e.table_name = n}})
<1>1. Len(c) \in Nat /\ DOMAIN c = 1 .. Len(c) /\ Len(new) \in Nat /\ DOMAIN new = 1 .. Len(new)
  OBVIOUS
<1>2. /\ DOMAIN Scope!Names(c) = 1 .. Len(c)
      /\ \A i \in 1 .. Len(c) : Scope!Names(c)[i] = c[i].table_name
      /\ Scope!Range(Scope!Names(c)) = Named(c)
  <2>1. Scope!Names(c) = [i \in 1 .. Len(c) |-> c[i].table_name]
    BY <1>1 DEF Scope!Names
  <2>2. PICK o : o = [i \in 1 .. Len(c) |-> c[i].table_name]
    OBVIOUS
  <2>3. DOMAIN o = 1 .. Len(c) /\ \A i \in 1 .. Len(c) : o[i] = c[i].table_name
    BY <2>2
  <2>4. Scope!Range(o) = Named(c)
    BY <2>3 DEF Scope!Range, Named
  <2>5. QED
    BY <2>1, <2>2, <2>3, <2>4
<1>3. PICK a : a = [i \in 1 .. Len(c) |-> [table_name |-> c[i].table_name, similarity |-> best(c[i].table_name)]]
  OBVIOUS
<1>4. PICK f : f = Scope!At(new, I)
  OBVIOUS
<1>5. w = a \o f
  <2> DEFINE old == Scope!Names(c)
             b == [i \in DOMAIN old |-> [table_name |-> old[i], similarity |-> best(old[i])]]
  <2>1. {i \in DOMAIN new : new[i].table_name \notin Scope!Range(old)} = I
    BY <1>1, <1>2
  <2>2. w = b \o Scope!At(new, {i \in DOMAIN new : new[i].table_name \notin Scope!Range(old)})
    BY Zenon DEF Scope!Merged
  <2>3. b = a
    <3> HIDE DEF best
    <3>1. b = [i \in 1 .. Len(c) |-> [table_name |-> old[i], similarity |-> best(old[i])]]
      BY <1>2
    <3>2. \A i \in 1 .. Len(c) : old[i] = c[i].table_name
      BY <1>2
    <3> HIDE DEF old
    <3>3. QED
      BY <1>3, <3>1, <3>2
  <2> HIDE DEF b, I, old
  <2>4. QED
    BY <1>4, <2>1, <2>2, <2>3
<1>6. /\ f \in Seq(Scope!Candidate) /\ Takes(f, new)
      /\ \A j \in 1 .. Len(f) : \E i \in I : f[j] = new[i]
  <2>1. I \in SUBSET (1 .. Len(new))
    OBVIOUS
  <2> HIDE DEF I
  <2>2. QED
    BY <1>4, <2>1, AtTakes
<1>7. Apart(f)
  BY <1>6, ApartTaken
<1>8. \A i \in 1 .. Len(c) : c[i].table_name \in Embedded /\ best(c[i].table_name) \in 1 .. MaxSimilarity
  <2>1. TAKE i \in 1 .. Len(c)
  <2>2. PICK j : j = c \o new
    OBVIOUS
  <2>3. j \in Seq(Scope!Candidate) /\ \E k \in DOMAIN j : j[k] = c[i]
    <3>1. /\ c \o new \in Seq(Scope!Candidate) /\ Len(c \o new) = Len(c) + Len(new)
          /\ i \in 1 .. Len(c) + Len(new) /\ (c \o new)[i] = c[i]
      BY Joining
    <3>2. j \in Seq(Scope!Candidate) /\ i \in 1 .. Len(j) /\ j[i] = c[i]
      BY <2>2, <3>1
    <3>3. DOMAIN j = 1 .. Len(j)
      BY <3>2
    <3>4. QED
      BY <3>2, <3>3
  <2>4. PICK D : D = {e \in Scope!Range(j) : e.table_name = c[i].table_name}
    OBVIOUS
  <2>5. c[i] \in D /\ \A d \in D : d \in Scope!Candidate
    BY <2>3, <2>4 DEF Scope!Range
  <2>6. PICK S : S = {d.similarity : d \in D}
    OBVIOUS
  <2>7. S \in SUBSET (1 .. MaxSimilarity) /\ S # {}
    BY <2>5, <2>6 DEF Scope!Candidate
  <2>8. Scope!Max(S) \in S
    <3>1. S \in SUBSET Nat /\ MaxSimilarity \in Nat /\ \A x \in S : x <= MaxSimilarity
      BY <2>7, ScopeConstants
    <3>2. QED
      BY <2>7, <3>1, GreatestNumber
  <2>9. best(c[i].table_name) = Scope!Max(S)
    BY <2>2, <2>4, <2>6
  <2>10. c[i] \in Scope!Candidate
    OBVIOUS
  <2> HIDE DEF best
  <2>11. QED
    BY <2>7, <2>8, <2>9, <2>10 DEF Scope!Candidate
<1>9. \A i \in 1 .. Len(c) : a[i].table_name = c[i].table_name /\ a[i] \in Scope!Candidate
  <2>1. TAKE i \in 1 .. Len(c)
  <2> HIDE DEF best
  <2>2. a[i] = [table_name |-> c[i].table_name, similarity |-> best(c[i].table_name)]
    BY <1>3
  <2>3. QED
    BY <1>8, <2>2 DEF Scope!Candidate
<1>10. a \in Seq(Scope!Candidate) /\ Len(a) = Len(c)
  <2> HIDE DEF best
  <2>1. a \in [1 .. Len(c) -> Scope!Candidate]
    BY <1>3, <1>9
  <2>2. PICK n : n = Len(c)
    OBVIOUS
  <2>3. a \in [1 .. n -> Scope!Candidate] /\ n \in Nat
    BY <1>1, <2>1, <2>2
  <2>4. QED
    BY <2>2, <2>3, ListOf
<1>11. Named(a) = Named(c) /\ Apart(a)
  <2> HIDE DEF best, I
  <2>1. \A i \in 1 .. Len(a) : i \in 1 .. Len(c) /\ a[i].table_name = c[i].table_name
    BY <1>9, <1>10
  <2>2. Apart(a)
    BY <1>10, <2>1 DEF Apart
  <2>3. \A i \in 1 .. Len(c) : i \in 1 .. Len(a)
    BY <1>10
  <2>4. Named(a) = Named(c)
    BY <2>1, <2>3 DEF Named
  <2>5. QED
    BY <2>2, <2>4
<1>12. \A j \in 1 .. Len(f) : f[j].table_name \notin Named(c)
  <2>1. TAKE j \in 1 .. Len(f)
  <2>2. PICK i \in I : f[j] = new[i]
    <3> HIDE DEF I
    <3> QED
      BY <1>6
  <2>3. QED
    BY <2>2
<1>13. Named(a) \cap Named(f) = {}
  BY <1>11, <1>12 DEF Named
<1>14. a \o f \in Seq(Scope!Candidate) /\ Apart(a \o f) /\ Named(a) \subseteq Named(a \o f)
  BY <1>6, <1>7, <1>10, <1>11, <1>13, JoinedApart
<1>15. QED
  BY <1>5, <1>11, <1>14, Zenon

Elements(s) == {s[i] : i \in 1 .. Len(s)}

LEMMA RangeIs ==
  ASSUME NEW A, NEW s \in Seq(A)
  PROVE  Scope!Range(s) = Elements(s)
<1>1. DOMAIN s = 1 .. Len(s)
  OBVIOUS
<1>2. QED
  BY <1>1 DEF Scope!Range, Elements

\* The seeds: the candidates that the schema knows.
LEMMA Seeded ==
  ASSUME NEW found \in Seq(Scope!Candidate), Apart(found),
         NEW I \in SUBSET (1 .. Len(found)),
         \A i \in 1 .. Len(found) : i \in I <=> found[i].table_name \in SchemaTable,
         NEW k, k = Scope!At(Scope!Names(found), I)
  PROVE  /\ k \in Seq(SchemaTable) /\ Len(k) <= Len(found)
         /\ \A i, j \in 1 .. Len(k) : i # j => k[i] # k[j]
         /\ Elements(k) = Named(found) \cap SchemaTable
<1>1. Len(found) \in Nat /\ DOMAIN found = 1 .. Len(found)
  OBVIOUS
<1>2. PICK s : s = Scope!Names(found)
  OBVIOUS
<1>3. PICK n : n = Len(found)
  OBVIOUS
<1>4. \A i \in 1 .. n : s[i] = found[i].table_name /\ found[i].table_name \in Embedded
  <2>1. s = [i \in 1 .. n |-> found[i].table_name]
    BY <1>1, <1>2, <1>3 DEF Scope!Names
  <2>2. \A i \in 1 .. n : found[i] \in Scope!Candidate
    BY <1>3
  <2>3. QED
    BY <2>1, <2>2 DEF Scope!Candidate
<1>5. s \in Seq(Embedded) /\ Len(s) = n
  <2>1. s = [i \in 1 .. n |-> found[i].table_name]
    BY <1>1, <1>2, <1>3 DEF Scope!Names
  <2>2. s \in [1 .. n -> Embedded]
    BY <1>4, <2>1
  <2>3. n \in Nat
    BY <1>1, <1>3
  <2>4. QED
    BY <2>2, <2>3, ListOf
<1>6. PICK t : t = Scope!At(s, I)
  OBVIOUS
<1>7. t = k
  BY <1>1, <1>2, <1>6
<1>8. /\ t \in Seq(Embedded) /\ Takes(t, s)
      /\ \A i \in I : \E j \in 1 .. Len(t) : t[j] = s[i]
      /\ \A j \in 1 .. Len(t) : \E i \in I : t[j] = s[i]
  <2>1. I \in SUBSET (1 .. Len(s))
    BY <1>3, <1>5
  <2>2. QED
    BY <1>5, <1>6, <2>1, AtTakes
<1>9. \A j \in 1 .. Len(t) : t[j] \in SchemaTable
  <2>1. \A i \in I : s[i] \in SchemaTable
    BY <1>3, <1>4
  <2>2. QED
    BY <1>8, <2>1
<1>10. t \in Seq(SchemaTable)
  <2>1. t \in [1 .. Len(t) -> SchemaTable] /\ Len(t) \in Nat
    BY <1>8, <1>9
  <2>2. QED
    BY <2>1, ListOf
<1>11. Len(t) <= n
  BY <1>5, <1>8, TakesFew
<1>12. ASSUME NEW i \in 1 .. Len(t), NEW j \in 1 .. Len(t), i # j PROVE t[i] # t[j]
  <2>1. PICK g \in [1 .. Len(t) -> 1 .. Len(s)] :
          /\ \A a, b \in 1 .. Len(t) : a # b => g[a] # g[b]
          /\ \A a \in 1 .. Len(t) : t[a] = s[g[a]]
    BY <1>8 DEF Takes
  <2>2. g[i] \in 1 .. n /\ g[j] \in 1 .. n /\ g[i] # g[j] /\ t[i] = s[g[i]] /\ t[j] = s[g[j]]
    BY <1>5, <1>12, <2>1
  <2>3. found[g[i]].table_name # found[g[j]].table_name
    BY <1>3, <2>2 DEF Apart
  <2>4. QED
    BY <1>4, <2>2, <2>3
<1>13. Elements(t) = Named(found) \cap SchemaTable
  <2>1. \A i \in 1 .. Len(found) : s[i] = found[i].table_name
    BY <1>3, <1>4
  <2>2. \A i : i \in I <=> i \in 1 .. Len(found) /\ found[i].table_name \in SchemaTable
    OBVIOUS
  <2>3. ASSUME NEW x \in Elements(t) PROVE x \in Named(found) \cap SchemaTable
    <3>1. PICK j \in 1 .. Len(t) : x = t[j]
      BY <2>3 DEF Elements
    <3>2. PICK i \in I : t[j] = s[i]
      BY <1>8
    <3>3. QED
      BY <2>1, <2>2, <3>1, <3>2 DEF Named
  <2>4. ASSUME NEW x \in Named(found), x \in SchemaTable PROVE x \in Elements(t)
    <3>1. PICK i \in 1 .. Len(found) : x = found[i].table_name
      BY DEF Named
    <3>2. i \in I /\ s[i] = x
      BY <2>1, <2>2, <2>4, <3>1
    <3>3. PICK j \in 1 .. Len(t) : t[j] = s[i]
      BY <1>8, <3>2
    <3>4. QED
      BY <3>2, <3>3 DEF Elements
  <2>5. QED
    BY <2>3, <2>4
<1>14. QED
  BY <1>3, <1>7, <1>10, <1>11, <1>12, <1>13

Found == {t \in SchemaTable : level[t] # max_levels + 1} \ Elements(seeds)

\* The tables that the walks found, the nearest first.
LEMMA NearestFirst ==
  ASSUME level \in [SchemaTable -> 0 .. max_levels + 1], seeds \in Seq(SchemaTable),
         NEW d, d = Scope!Discovered
  PROVE  /\ Lists(d, Found)
         /\ \A i, j \in 1 .. Len(d) : i < j => level[d[i]] <= level[d[j]]
<1> DEFINE Nearer(t, u) == \/ level[t] < level[u]
                           \/ level[t] = level[u] /\ t < u
           Up(f) == \A i, j \in DOMAIN f : i < j => Nearer(f[i], f[j])
           R == {p \in Found \X Found : Nearer(p[1], p[2])}
<1>1. /\ max_levels \in Nat /\ Found \in SUBSET SchemaTable
      /\ \A t \in Found : t \in Nat /\ level[t] \in Nat
  BY ScopeConstants DEF Found
<1>2. IsFiniteSet(Found)
  BY <1>1, ScopeConstants, FS_Subset
<1>3. Orders(R, Found)
  <2>1. \A i, j \in Found : <<i, j>> \in R <=> Nearer(i, j)
    OBVIOUS
  <2> HIDE DEF R
  <2>2. \A i \in Found : <<i, i>> \notin R
    BY <1>1, <2>1
  <2>3. \A i, j \in Found : i = j \/ <<i, j>> \in R \/ <<j, i>> \in R
    <3>1. TAKE i, j \in Found
    <3>2. i = j \/ Nearer(i, j) \/ Nearer(j, i)
      BY <1>1
    <3> HIDE DEF Nearer
    <3>3. QED
      BY <2>1, <3>2
  <2>4. \A i, j, k \in Found : <<i, j>> \in R /\ <<j, k>> \in R => <<i, k>> \in R
    <3>1. TAKE i, j, k \in Found
    <3>2. Nearer(i, j) /\ Nearer(j, k) => Nearer(i, k)
      BY <1>1
    <3> HIDE DEF Nearer
    <3>3. QED
      BY <2>1, <3>2
  <2>5. QED
    BY <2>2, <2>3, <2>4 DEF Orders
<1>4. PICK o : Lists(o, Found) /\ Follows(o, R)
  <2> HIDE DEF R
  <2> QED
    BY <1>2, <1>3, SortedExists
<1>5. o \in Scope!SetToSeqs(Found) /\ Up(o)
  <2>1. \A i, j : <<i, j>> \in R => Nearer(i, j)
    OBVIOUS
  <2> HIDE DEF R, Nearer
  <2>2. QED
    BY <1>2, <1>4, <2>1, ToSeqs DEF Follows
<1>6. d = CHOOSE f \in Scope!SetToSeqs(Found) : Up(f)
  <2>1. Scope!Unreached = max_levels + 1 /\ Scope!Range(seeds) = Elements(seeds)
    BY ScopeConstants, RangeIs
  <2>2. {t \in SchemaTable : level[t] # Scope!Unreached} \ Scope!Range(seeds) = Found
    BY <2>1 DEF Found
  <2>3. QED
    BY <2>2 DEF Scope!Discovered, Scope!Sorted
<1>7. d \in Scope!SetToSeqs(Found) /\ Up(d)
  <2> HIDE DEF Up
  <2> QED
    BY <1>5, <1>6
<1>8. Lists(d, Found)
  BY <1>2, <1>7, ToSeqs
<1>9. DOMAIN d = 1 .. Len(d) /\ \A i \in 1 .. Len(d) : d[i] \in Found
  BY <1>8 DEF Lists
<1>10. \A i, j \in 1 .. Len(d) : i < j => Nearer(d[i], d[j])
  BY <1>7, <1>9
<1>11. QED
  BY <1>1, <1>8, <1>9, <1>10

-----------------------------------------------------------------------------
(* The scope: what every step keeps                                        *)

ScopeTypes ==
  /\ relationships \subseteq Scope!kSubset(2, SchemaTable)
  /\ scoping \in {"retrieving", "walking", "selecting", "done"}
  /\ selector_retries \in 0 .. max_retries
  /\ candidates \in Seq(Scope!Candidate) /\ Apart(candidates)
  /\ seeds \in Seq(SchemaTable) /\ Len(seeds) <= top_k
  /\ \A i, j \in 1 .. Len(seeds) : i # j => seeds[i] # seeds[j]
  /\ walked \in 0 .. Len(seeds) /\ queue \in Seq(SchemaTable)
  /\ levels \in [SchemaTable -> 0 .. max_levels + 1]
  /\ level \in [SchemaTable -> 0 .. max_levels + 1]
  /\ reached_from \in [SchemaTable -> SUBSET Elements(seeds)]
  /\ offered \subseteq SchemaTable /\ discarded \subseteq SchemaTable /\ notice \in BOOLEAN

\* What is within so many steps of each table.
Ball == [s \in SchemaTable |-> Scope!Within({s})]

Blank == [t \in SchemaTable |-> max_levels + 1]

\* The walks that are over have left distances, and one may be going on.
Walks ==
  /\ \/ queue = <<>> /\ levels = Blank
     \/ walked < Len(seeds)
        /\ Wave(levels, queue, seeds[walked + 1], Ball[seeds[walked + 1]], Adjacent)
  /\ \A t \in SchemaTable, k \in 0 .. max_levels :
       level[t] <= k <=> \E i \in 1 .. walked : t \in Ball[seeds[i]][k]
  /\ \A t \in SchemaTable :
       reached_from[t] = {seeds[i] : i \in {j \in 1 .. walked : t \in Ball[seeds[j]][max_levels]}}

\* All that is near to a candidate.
Known == Named(candidates) \cap SchemaTable
Cover == {t \in SchemaTable : \E s \in Known : t \in Ball[s][max_levels]}

Offers ==
  /\ scoping = "retrieving" /\ selector_retries = 0 => offered = {}
  /\ ~notice => offered \subseteq Cover
  /\ scoping = "walking" =>
       /\ Elements(seeds) \subseteq Known
       /\ Len(candidates) <= top_k => Elements(seeds) = Known

ScopeInv ==
  /\ ScopeTypes /\ Offers
  /\ scoping # "walking" => queue = <<>>
  /\ scoping = "walking" => Walks
  /\ Scope!OfferedIsJoinable /\ Scope!NearestAreKept

LEMMA BallsAre ==
  /\ \A s \in SchemaTable : Ball[s] = Scope!Within({s}) /\ Balls(Ball[s], {s}, Adjacent)
  /\ \A s \in SchemaTable, k \in 0 .. max_levels : Ball[s][k] \in SUBSET SchemaTable
<1>1. \A s \in SchemaTable : {s} \in SUBSET SchemaTable
  OBVIOUS
<1>2. \A s \in SchemaTable : Ball[s] = Scope!Within({s}) /\ Balls(Ball[s], {s}, Adjacent)
  BY <1>1, WithinBalls DEF Ball
<1>3. QED
  BY <1>2 DEF Balls

LEMMA TypesMean == ScopeTypes => Scope!TypeOK
<1> SUFFICES ASSUME ScopeTypes PROVE Scope!TypeOK
  OBVIOUS
<1>1. Scope!IsInjective(Scope!Names(candidates))
  <2>1. candidates \in Seq(Scope!Candidate) /\ Apart(candidates)
    BY DEF ScopeTypes
  <2>2. DOMAIN candidates = 1 .. Len(candidates)
    BY <2>1
  <2>3. PICK f : f = Scope!Names(candidates)
    OBVIOUS
  <2>4. DOMAIN f = 1 .. Len(candidates) /\ \A i \in 1 .. Len(candidates) : f[i] = candidates[i].table_name
    BY <2>2, <2>3 DEF Scope!Names
  <2>5. Scope!IsInjective(f)
    BY <2>1, <2>4 DEF Scope!IsInjective, Apart
  <2>6. QED
    BY <2>3, <2>5
<1>2. Scope!IsInjective(seeds)
  <2>1. DOMAIN seeds = 1 .. Len(seeds)
    BY DEF ScopeTypes
  <2>2. QED
    BY <2>1 DEF Scope!IsInjective, ScopeTypes
<1>3. Scope!Range(seeds) = Elements(seeds)
  BY RangeIs DEF ScopeTypes
<1>4. Scope!Hops = 0 .. max_levels + 1
  BY ScopeConstants
<1>5. QED
  BY <1>1, <1>2, <1>3, <1>4 DEF Scope!TypeOK, ScopeTypes

\* When all seeds have been walked.
LEMMA LevelsAre == ScopeInv => Scope!LevelsAreDistances
<1> SUFFICES ASSUME ScopeInv, scoping = "walking", walked = Len(seeds), NEW t \in SchemaTable
             PROVE  /\ \A k \in 0 .. max_levels :
                         level[t] <= k <=> t \in Scope!Within(Scope!Range(seeds))[k]
                    /\ reached_from[t] = {s \in Scope!Range(seeds) : t \in Scope!Within({s})[max_levels]}
  BY DEF Scope!LevelsAreDistances
<1>1. Walks /\ seeds \in Seq(SchemaTable) /\ Len(seeds) \in Nat
  BY DEF ScopeInv, ScopeTypes
<1>2. Scope!Range(seeds) = Elements(seeds) /\ Elements(seeds) \in SUBSET SchemaTable
  BY <1>1, RangeIs DEF Elements
<1>3. \A s \in Elements(seeds) : Ball[s] = Scope!Within({s})
  BY <1>2, BallsAre
<1>4. ASSUME NEW k \in 0 .. max_levels
      PROVE  level[t] <= k <=> t \in Scope!Within(Elements(seeds))[k]
  <2>1. t \in Scope!Within(Elements(seeds))[k] <=> \E s \in Elements(seeds) : t \in Scope!Within({s})[k]
    BY <1>2, BallsJoin
  <2>2. level[t] <= k <=> \E i \in 1 .. Len(seeds) : t \in Ball[seeds[i]][k]
    BY <1>1 DEF Walks
  <2>3. (\E i \in 1 .. Len(seeds) : t \in Ball[seeds[i]][k]) <=> \E s \in Elements(seeds) : t \in Ball[s][k]
    BY DEF Elements
  <2>4. QED
    BY <1>3, <2>1, <2>2, <2>3
<1>5. reached_from[t] = {s \in Elements(seeds) : t \in Scope!Within({s})[max_levels]}
  <2>1. reached_from[t] = {seeds[i] : i \in {j \in 1 .. Len(seeds) : t \in Ball[seeds[j]][max_levels]}}
    BY <1>1 DEF Walks
  <2>2. reached_from[t] = {s \in Elements(seeds) : t \in Ball[s][max_levels]}
    BY <2>1 DEF Elements
  <2>3. QED
    BY <1>3, <2>2
<1>6. QED
  BY <1>2, <1>4, <1>5

LEMMA ScopeSound == ScopeInv => Scope!TypeOK /\ Scope!LevelsAreDistances
                                /\ Scope!OfferedIsJoinable /\ Scope!NearestAreKept
  BY TypesMean, LevelsAre DEF ScopeInv

LEMMA ScopeInit == Scope!Init => ScopeInv
<1> SUFFICES ASSUME Scope!Init PROVE ScopeInv
  OBVIOUS
<1>1. ScopeTypes
  <2>1. candidates = <<>> /\ seeds = <<>> /\ queue = <<>> /\ walked = 0
    BY DEF Scope!Init
  <2>2. Apart(candidates) /\ candidates \in Seq(Scope!Candidate)
    BY <2>1 DEF Apart
  <2>3. /\ seeds \in Seq(SchemaTable) /\ Len(seeds) = 0 /\ queue \in Seq(SchemaTable)
        /\ \A i, j \in 1 .. Len(seeds) : i # j => seeds[i] # seeds[j]
    BY <2>1
  <2>4. levels \in [SchemaTable -> 0 .. max_levels + 1] /\ level \in [SchemaTable -> 0 .. max_levels + 1]
    BY ScopeConstants DEF Scope!Init
  <2>5. reached_from \in [SchemaTable -> SUBSET Elements(seeds)]
    BY DEF Scope!Init
  <2>6. /\ relationships \subseteq Scope!kSubset(2, SchemaTable)
        /\ scoping \in {"retrieving", "walking", "selecting", "done"}
        /\ offered \subseteq SchemaTable /\ discarded \subseteq SchemaTable /\ notice \in BOOLEAN
    BY DEF Scope!Init
  <2>7. selector_retries \in 0 .. max_retries
    BY ScopeConstants DEF Scope!Init
  <2>8. Len(seeds) <= top_k /\ walked \in 0 .. Len(seeds)
    BY <2>1, <2>3, ScopeConstants
  <2>9. QED
    BY <2>2, <2>3, <2>4, <2>5, <2>6, <2>7, <2>8 DEF ScopeTypes
<1>2. QED
  BY <1>1 DEF Scope!Init, ScopeInv, Offers, Scope!OfferedIsJoinable, Scope!NearestAreKept

\* The schema stays as it is.
LEMMA SameGraph ==
  ASSUME relationships' = relationships
  PROVE  Ball' = Ball /\ Adjacent' = Adjacent
  BY DEF Ball, Adjacent, Scope!Within, Scope!neighbors

LEMMA ScopeStutter == ASSUME ScopeInv, UNCHANGED <<relationships, scope>> PROVE ScopeInv'
<1>1. /\ relationships' = relationships /\ scoping' = scoping /\ selector_retries' = selector_retries
      /\ candidates' = candidates /\ seeds' = seeds /\ walked' = walked /\ levels' = levels
      /\ queue' = queue /\ level' = level /\ reached_from' = reached_from
      /\ offered' = offered /\ discarded' = discarded /\ notice' = notice
  BY DEF scope
<1>2. Ball' = Ball /\ Adjacent' = Adjacent
  BY <1>1, SameGraph
<1>3. ScopeTypes'
  BY <1>1 DEF ScopeInv, ScopeTypes
<1>4. Offers'
  BY <1>1, <1>2 DEF ScopeInv, Offers, Known, Cover
<1>5. scoping' = "walking" => Walks'
  BY <1>1, <1>2 DEF ScopeInv, Walks
<1>6. Scope!OfferedIsJoinable' /\ Scope!NearestAreKept'
  BY <1>1 DEF ScopeInv, Scope!OfferedIsJoinable, Scope!NearestAreKept, Scope!neighbors
<1>7. QED
  BY <1>1, <1>3, <1>4, <1>5, <1>6 DEF ScopeInv

\* What the search is given: the best of the candidates.
LEMMA Topped ==
  ASSUME NEW c \in Seq(Scope!Candidate), Apart(c),
         NEW f, f = Scope!First(top_k, Scope!Ranked(c))
  PROVE  /\ f \in Seq(Scope!Candidate) /\ Apart(f) /\ Len(f) <= top_k
         /\ Named(f) \subseteq Named(c)
         /\ Len(c) <= top_k => Named(f) = Named(c)
<1>1. PICK r : r = Scope!Ranked(c)
  OBVIOUS
<1>2. /\ r \in Seq(Scope!Candidate) /\ Takes(r, c) /\ Len(r) = Len(c)
      /\ \A i \in 1 .. Len(c) : \E j \in 1 .. Len(c) : r[j] = c[i]
  BY <1>1, RankedTakes
<1>3. top_k \in Nat /\ Len(c) \in Nat
  BY ScopeConstants
<1>4. /\ f \in Seq(Scope!Candidate) /\ Takes(f, r)
      /\ Len(f) = IF top_k <= Len(r) THEN top_k ELSE Len(r)
      /\ \A i \in 1 .. Len(f) : i \in 1 .. Len(r) /\ f[i] = r[i]
  <2>1. f = Scope!First(top_k, r)
    BY <1>1
  <2>2. QED
    BY <1>2, <1>3, <2>1, FirstTakes
<1>5. Takes(f, c)
  BY <1>2, <1>4, TakesOfTaken
<1>6. Apart(f)
  BY <1>4, <1>5, ApartTaken
<1>7. Named(f) \subseteq Named(c)
  <2>1. PICK g \in [1 .. Len(f) -> 1 .. Len(c)] : \A i \in 1 .. Len(f) : f[i] = c[g[i]]
    BY <1>5 DEF Takes
  <2>2. \A i \in 1 .. Len(f) : g[i] \in 1 .. Len(c) /\ f[i].table_name = c[g[i]].table_name
    BY <2>1
  <2>3. QED
    BY <2>2 DEF Named
<1>8. ASSUME Len(c) <= top_k PROVE Named(c) \subseteq Named(f)
  <2>1. Len(f) = Len(c)
    BY <1>2, <1>3, <1>4, <1>8
  <2>2. ASSUME NEW i \in 1 .. Len(c) PROVE \E j \in 1 .. Len(f) : c[i].table_name = f[j].table_name
    <3>1. PICK j \in 1 .. Len(c) : r[j] = c[i]
      BY <1>2
    <3>2. j \in 1 .. Len(f) /\ f[j] = r[j]
      BY <1>4, <2>1
    <3>3. QED
      BY <3>1, <3>2
  <2>3. QED
    BY <2>2 DEF Named
<1>9. Len(f) <= top_k
  BY <1>2, <1>3, <1>4
<1>10. QED
  BY <1>4, <1>6, <1>7, <1>8, <1>9

LEMMA NothingIsWalked ==
  ASSUME Scope!NothingWalked
  PROVE  /\ walked' = 0 /\ queue' = <<>> /\ levels' = Blank /\ level' = Blank
         /\ reached_from' = [t \in SchemaTable |-> {}]
         /\ Blank \in [SchemaTable -> 0 .. max_levels + 1]
  BY ScopeConstants DEF Scope!NothingWalked, Blank

\* An attempt without a neighbourhood.
LEMMA FallsBack ==
  ASSUME ScopeInv, relationships' = relationships, selector_retries' = selector_retries,
         candidates' \in Seq(Scope!Candidate), Apart(candidates'), Scope!FallBack
  PROVE  ScopeInv'
<1>1. /\ offered' = SchemaTable /\ discarded' = {} /\ notice' = TRUE
      /\ seeds' = <<>> /\ scoping' = "selecting"
      /\ walked' = 0 /\ queue' = <<>> /\ levels' = Blank /\ level' = Blank
      /\ reached_from' = [t \in SchemaTable |-> {}]
      /\ Blank \in [SchemaTable -> 0 .. max_levels + 1]
  BY NothingIsWalked DEF Scope!FallBack
<1>2. /\ seeds' \in Seq(SchemaTable) /\ Len(seeds') = 0 /\ queue' \in Seq(SchemaTable)
      /\ \A i, j \in 1 .. Len(seeds') : i # j => seeds'[i] # seeds'[j]
  BY <1>1
<1>3. Len(seeds') <= top_k /\ walked' \in 0 .. Len(seeds')
  BY <1>1, <1>2, ScopeConstants
<1>4. reached_from' \in [SchemaTable -> SUBSET Elements(seeds')]
  BY <1>1
<1>5. ScopeTypes'
  <2>1. ScopeTypes
    BY DEF ScopeInv
  <2>2. relationships' \subseteq Scope!kSubset(2, SchemaTable) /\ selector_retries' \in 0 .. max_retries
    BY <2>1 DEF ScopeTypes
  <2>3. /\ offered' \subseteq SchemaTable /\ discarded' \subseteq SchemaTable /\ notice' \in BOOLEAN
        /\ scoping' \in {"retrieving", "walking", "selecting", "done"}
        /\ levels' \in [SchemaTable -> 0 .. max_levels + 1]
        /\ level' \in [SchemaTable -> 0 .. max_levels + 1]
    BY <1>1
  <2>4. QED
    BY <1>2, <1>3, <1>4, <2>2, <2>3 DEF ScopeTypes
<1>6. Offers'
  BY <1>1 DEF Offers
<1>7. Scope!OfferedIsJoinable' /\ Scope!NearestAreKept'
  BY <1>1 DEF Scope!OfferedIsJoinable, Scope!NearestAreKept
<1>8. QED
  BY <1>1, <1>5, <1>6, <1>7 DEF ScopeInv

\* The walks begin at what the schema knows of the candidates.
LEMMA Begins ==
  ASSUME ScopeInv, relationships' = relationships, selector_retries' = selector_retries,
         candidates' \in Seq(Scope!Candidate), Apart(candidates'),
         NEW found \in Seq(Scope!Candidate), Len(found) <= top_k,
         Named(found) \subseteq Named(candidates'),
         Len(candidates') <= top_k => Named(found) = Named(candidates'),
         ~notice => offered \subseteq Cover',
         NEW known \in Seq(SchemaTable), Len(known) <= Len(found),
         \A i, j \in 1 .. Len(known) : i # j => known[i] # known[j],
         Elements(known) = Named(found) \cap SchemaTable,
         seeds' = known, scoping' = "walking", Scope!NothingWalked,
         UNCHANGED <<offered, discarded, notice>>
  PROVE  ScopeInv'
<1>1. /\ walked' = 0 /\ queue' = <<>> /\ levels' = Blank /\ level' = Blank
      /\ reached_from' = [t \in SchemaTable |-> {}]
      /\ Blank \in [SchemaTable -> 0 .. max_levels + 1]
  BY NothingIsWalked
<1>3. /\ Len(known) \in Nat /\ Len(found) \in Nat
      /\ offered' = offered /\ discarded' = discarded /\ notice' = notice
  OBVIOUS
<1>4. ScopeTypes'
  <2>1. ScopeTypes
    BY DEF ScopeInv
  <2>2. /\ relationships' \subseteq Scope!kSubset(2, SchemaTable) /\ selector_retries' \in 0 .. max_retries
        /\ offered' \subseteq SchemaTable /\ discarded' \subseteq SchemaTable /\ notice' \in BOOLEAN
    BY <1>3, <2>1 DEF ScopeTypes
  <2>3. Len(known) <= top_k /\ walked' \in 0 .. Len(known)
    BY <1>1, <1>3, ScopeConstants
  <2>4. reached_from' \in [SchemaTable -> SUBSET Elements(known)]
    BY <1>1
  <2>5. queue' \in Seq(SchemaTable)
    BY <1>1
  <2>6. QED
    BY <1>1, <2>2, <2>3, <2>4, <2>5 DEF ScopeTypes
<1>5. Offers'
  BY <1>3 DEF Offers, Known
<1>6. Walks'
  <2>1. 1 .. walked' = {}
    BY <1>1
  <2>2. \A t \in SchemaTable, k \in 0 .. max_levels : ~(level'[t] <= k)
    BY <1>1, ScopeConstants DEF Blank
  <2>3. \A t \in SchemaTable : reached_from'[t] = {}
    BY <1>1
  <2>4. QED
    BY <1>1, <2>1, <2>2, <2>3 DEF Walks, Blank
<1>7. QED
  BY <1>4, <1>5, <1>6 DEF ScopeInv, Scope!OfferedIsJoinable, Scope!NearestAreKept

LEMMA TheSearchBegins ==
  ASSUME ScopeInv, relationships' = relationships, selector_retries' = selector_retries,
         candidates' \in Seq(Scope!Candidate), Apart(candidates'),
         NEW found \in Seq(Scope!Candidate), Apart(found), Len(found) <= top_k,
         Named(found) \subseteq Named(candidates'),
         Len(candidates') <= top_k => Named(found) = Named(candidates'),
         ~notice => offered \subseteq Cover',
         Scope!BeginWalks(found)
  PROVE  ScopeInv'
<1>1. PICK I : I = {i \in DOMAIN found : found[i].table_name \in SchemaTable}
  OBVIOUS
<1>2. /\ I \in SUBSET (1 .. Len(found))
      /\ \A i \in 1 .. Len(found) : i \in I <=> found[i].table_name \in SchemaTable
  <2>1. DOMAIN found = 1 .. Len(found)
    OBVIOUS
  <2>2. QED
    BY <1>1, <2>1
<1>3. PICK k : k = Scope!At(Scope!Names(found), I)
  OBVIOUS
<1>4. /\ k \in Seq(SchemaTable) /\ Len(k) <= Len(found)
      /\ \A i, j \in 1 .. Len(k) : i # j => k[i] # k[j]
      /\ Elements(k) = Named(found) \cap SchemaTable
  <2>1. found \in Seq(Scope!Candidate) /\ Apart(found)
    OBVIOUS
  <2>2. QED
    BY ONLY <1>2, <1>3, <2>1, Seeded
<1>5. CASE k = <<>>
  <2>1. Scope!FallBack
    BY <1>1, <1>3, <1>5 DEF Scope!BeginWalks
  <2>2. QED
    BY <2>1, FallsBack
<1>6. CASE k # <<>>
  <2>1. /\ seeds' = k /\ scoping' = "walking" /\ Scope!NothingWalked
        /\ UNCHANGED <<offered, discarded, notice>>
    BY <1>1, <1>3, <1>6 DEF Scope!BeginWalks
  <2>2. QED
    BY <1>4, <2>1, Begins
<1>7. QED
  BY <1>5, <1>6

\* More candidates, more that is near to one.
LEMMA CoverGrows ==
  ASSUME relationships' = relationships, Named(candidates) \subseteq Named(candidates')
  PROVE  Cover \subseteq Cover'
<1>1. Ball' = Ball
  BY SameGraph
<1>2. Known \subseteq Known'
  BY DEF Known
<1>3. QED
  BY <1>1, <1>2 DEF Cover

LEMMA SeedSteps ==
  ASSUME ScopeInv, NEW similarity \in [Embedded -> 0 .. MaxSimilarity], Scope!Seed(similarity)
  PROVE  ScopeInv'
<1>1. PICK r : r = Scope!Retrieved(similarity)
  OBVIOUS
<1>2. r \in Seq(Scope!Candidate) /\ Apart(r) /\ Len(r) <= top_k
  BY <1>1, RetrievedFew
<1>3. /\ scoping = "retrieving" /\ ~(selector_retries > 0 /\ candidates # <<>>)
      /\ relationships' = relationships /\ selector_retries' = selector_retries /\ candidates' = r
  BY <1>1 DEF Scope!Seed, Scope!Again
<1>4. Scope!BeginWalks(candidates')
  BY DEF Scope!Seed
<1>5. ~notice => offered \subseteq Cover'
  <2>1. CASE selector_retries = 0
    BY <1>3, <2>1 DEF ScopeInv, Offers
  <2>2. CASE candidates = <<>>
    <3>1. Named(candidates) = {}
      BY <2>2 DEF Named
    <3>2. Cover = {}
      BY <3>1 DEF Cover, Known
    <3>3. QED
      BY <3>2 DEF ScopeInv, Offers
  <2>3. selector_retries \in Nat
    BY ScopeConstants DEF ScopeInv, ScopeTypes
  <2>4. QED
    BY <1>3, <2>1, <2>2, <2>3
<1>6. Scope!BeginWalks(r)
  BY <1>3, <1>4
<1>7. QED
  BY <1>2, <1>3, <1>5, <1>6, TheSearchBegins

LEMMA SeedFailsSteps ==
  ASSUME ScopeInv, Scope!SeedFails
  PROVE  ScopeInv'
<1>1. /\ relationships' = relationships /\ selector_retries' = selector_retries
      /\ candidates' = candidates /\ Scope!FallBack
  BY DEF Scope!SeedFails
<1>2. candidates' \in Seq(Scope!Candidate) /\ Apart(candidates')
  BY <1>1 DEF ScopeInv, ScopeTypes
<1>3. QED
  BY <1>1, <1>2, FallsBack

\* With the old candidates among the new ones.
LEMMA WideningSteps ==
  ASSUME ScopeInv, relationships' = relationships, selector_retries' = selector_retries,
         candidates' \in Seq(Scope!Candidate), Apart(candidates'),
         Named(candidates) \subseteq Named(candidates'),
         Scope!BeginWalks(Scope!First(top_k, Scope!Ranked(candidates')))
  PROVE  ScopeInv'
<1>1. PICK c : c = candidates'
  OBVIOUS
<1>2. PICK f : f = Scope!First(top_k, Scope!Ranked(c))
  OBVIOUS
<1>3. c \in Seq(Scope!Candidate) /\ Apart(c)
  BY <1>1
<1>4. /\ f \in Seq(Scope!Candidate) /\ Apart(f) /\ Len(f) <= top_k
      /\ Named(f) \subseteq Named(c)
      /\ Len(c) <= top_k => Named(f) = Named(c)
  BY ONLY <1>2, <1>3, Topped
<1>5. Scope!BeginWalks(f)
  BY <1>1, <1>2
<1>6. ~notice => offered \subseteq Cover'
  BY CoverGrows DEF ScopeInv, Offers
<1>7. QED
  BY <1>1, <1>4, <1>5, <1>6, TheSearchBegins

LEMMA WidenSteps ==
  ASSUME ScopeInv, NEW similarity \in [Embedded -> 0 .. MaxSimilarity], Scope!Widen(similarity)
  PROVE  ScopeInv'
<1>1. PICK new : new = Scope!Retrieved(similarity)
  OBVIOUS
<1>2. new \in Seq(Scope!Candidate) /\ Apart(new)
  BY <1>1, RetrievedFew
<1>3. PICK c : c = candidates
  OBVIOUS
<1>4. c \in Seq(Scope!Candidate) /\ Apart(c)
  BY <1>3 DEF ScopeInv, ScopeTypes
<1>5. PICK w : w = Scope!Merged(c, new)
  OBVIOUS
<1>6. w \in Seq(Scope!Candidate) /\ Apart(w) /\ Named(c) \subseteq Named(w)
  BY ONLY <1>2, <1>4, <1>5, MergedKeeps
<1>7. /\ relationships' = relationships /\ selector_retries' = selector_retries
      /\ Scope!BeginWalks(Scope!First(top_k, Scope!Ranked(candidates')))
  BY DEF Scope!Widen
<1>8. candidates' = w
  BY <1>1, <1>3, <1>5 DEF Scope!Widen
<1>9. candidates' \in Seq(Scope!Candidate) /\ Apart(candidates') /\ Named(candidates) \subseteq Named(candidates')
  BY ONLY <1>3, <1>6, <1>8
<1>10. QED
  BY <1>7, <1>9, WideningSteps

LEMMA WidenFailsSteps ==
  ASSUME ScopeInv, Scope!WidenFails
  PROVE  ScopeInv'
<1>1. /\ relationships' = relationships /\ selector_retries' = selector_retries
      /\ candidates' = candidates
      /\ Scope!BeginWalks(Scope!First(top_k, Scope!Ranked(candidates)))
  BY DEF Scope!WidenFails
<1>2. /\ candidates' \in Seq(Scope!Candidate) /\ Apart(candidates')
      /\ Named(candidates) \subseteq Named(candidates')
  BY <1>1 DEF ScopeInv, ScopeTypes
<1>3. Scope!BeginWalks(Scope!First(top_k, Scope!Ranked(candidates')))
  BY <1>1
<1>4. QED
  BY <1>1, <1>2, <1>3, WideningSteps

\* A step of the walks changes nothing else.
LEMMA WalkingKeeps ==
  ASSUME ScopeInv, scoping = "walking", relationships' = relationships, scoping' = scoping,
         selector_retries' = selector_retries, candidates' = candidates, seeds' = seeds,
         offered' = offered, discarded' = discarded, notice' = notice,
         walked' \in 0 .. Len(seeds), queue' \in Seq(SchemaTable),
         levels' \in [SchemaTable -> 0 .. max_levels + 1],
         level' \in [SchemaTable -> 0 .. max_levels + 1],
         reached_from' \in [SchemaTable -> SUBSET Elements(seeds)],
         Walks'
  PROVE  ScopeInv'
<1>1. Ball' = Ball
  BY SameGraph
<1>2. ScopeTypes'
  BY DEF ScopeInv, ScopeTypes
<1>3. Known' = Known /\ Cover' = Cover
  BY <1>1 DEF Known, Cover
<1>4. Offers'
  BY <1>3 DEF ScopeInv, Offers
<1>5. QED
  BY <1>2, <1>4 DEF ScopeInv, Scope!OfferedIsJoinable, Scope!NearestAreKept

\* The table that is walked from.
LEMMA WalkedSeed ==
  ASSUME ScopeInv, walked < Len(seeds)
  PROVE  /\ walked + 1 \in 1 .. Len(seeds) /\ walked \in Nat /\ Len(seeds) \in Nat
         /\ seeds[walked + 1] \in SchemaTable
         /\ seeds[walked + 1] \in Elements(seeds)
         /\ Balls(Ball[seeds[walked + 1]], {seeds[walked + 1]}, Adjacent)
<1>1. /\ seeds \in Seq(SchemaTable) /\ walked \in 0 .. Len(seeds)
  BY DEF ScopeInv, ScopeTypes
<1>2. Len(seeds) \in Nat /\ walked \in Nat
  BY <1>1
<1>3. walked + 1 \in 1 .. Len(seeds)
  BY <1>2
<1>4. seeds[walked + 1] \in SchemaTable
  BY <1>1, <1>3
<1>5. seeds[walked + 1] \in Elements(seeds)
  BY <1>3 DEF Elements
<1>6. QED
  BY <1>2, <1>3, <1>4, <1>5, BallsAre

LEMMA StartWalkSteps ==
  ASSUME ScopeInv, Scope!StartWalk
  PROVE  ScopeInv'
<1> DEFINE s == seeds[walked + 1]
<1>1. /\ scoping = "walking" /\ queue = <<>> /\ walked < Len(seeds) /\ levels[s] = max_levels + 1
      /\ levels' = [levels EXCEPT ![s] = 0] /\ queue' = <<s>>
      /\ relationships' = relationships /\ scoping' = scoping
      /\ selector_retries' = selector_retries /\ candidates' = candidates /\ seeds' = seeds
      /\ walked' = walked /\ level' = level /\ reached_from' = reached_from
      /\ offered' = offered /\ discarded' = discarded /\ notice' = notice
  BY ScopeConstants DEF Scope!StartWalk
<1>2. s \in SchemaTable /\ Balls(Ball[s], {s}, Adjacent)
  BY <1>1, WalkedSeed
<1>3. max_levels \in Nat
  BY ScopeConstants
<1>4. /\ walked \in 0 .. Len(seeds) /\ levels \in [SchemaTable -> 0 .. max_levels + 1]
      /\ level \in [SchemaTable -> 0 .. max_levels + 1]
      /\ reached_from \in [SchemaTable -> SUBSET Elements(seeds)]
  BY DEF ScopeInv, ScopeTypes
<1>5. Walks
  BY <1>1 DEF ScopeInv
<1>6. levels = Blank
  <2>1. ASSUME Wave(levels, queue, s, Ball[s], Adjacent) PROVE FALSE
    <3>1. levels[s] = 0
      BY <2>1 DEF Wave
    <3>2. QED
      BY <1>1, <1>3, <3>1
  <2>2. QED
    BY <1>5, <2>1 DEF Walks
<1>7. /\ levels' \in [SchemaTable -> 0 .. max_levels + 1] /\ levels'[s] = 0
      /\ \A t \in SchemaTable \ {s} : levels'[t] = max_levels + 1
  BY <1>1, <1>2, <1>3, <1>4, <1>6 DEF Blank
<1>8. queue' \in Seq(SchemaTable)
  BY <1>1, <1>2
<1> HIDE DEF s
<1>9. Wave(levels', <<s>>, s, Ball[s], Adjacent)
  <2>1. PICK l : l = levels'
    OBVIOUS
  <2>2. PICK V : V = Ball[s]
    OBVIOUS
  <2>3. /\ l \in [SchemaTable -> 0 .. max_levels + 1] /\ l[s] = 0
        /\ \A t \in SchemaTable \ {s} : l[t] = max_levels + 1
    BY <1>7, <2>1
  <2>4. Wave(l, <<s>>, s, V, Adjacent)
    BY <1>2, <2>2, <2>3, WaveStarts
  <2>5. QED
    BY <2>1, <2>2, <2>4
<1>10. Ball' = Ball /\ Adjacent' = Adjacent
  BY <1>1, SameGraph
<1>11. Walks'
  <2>1. seeds'[walked' + 1] = s
    BY <1>1 DEF s
  <2>2. Wave(levels', queue', seeds'[walked' + 1], Ball'[seeds'[walked' + 1]], Adjacent')
    BY <1>1, <1>9, <1>10, <2>1
  <2>3. walked' < Len(seeds')
    BY <1>1
  <2>4. /\ \A t \in SchemaTable, k \in 0 .. max_levels :
            level'[t] <= k <=> \E i \in 1 .. walked' : t \in Ball'[seeds'[i]][k]
        /\ \A t \in SchemaTable :
            reached_from'[t] = {seeds'[i] : i \in {j \in 1 .. walked' : t \in Ball'[seeds'[j]][max_levels]}}
    BY <1>1, <1>5, <1>10 DEF Walks
  <2>5. QED
    BY <2>2, <2>3, <2>4 DEF Walks
<1>12. QED
  BY <1>1, <1>4, <1>7, <1>8, <1>11, WalkingKeeps

LEMMA RetrySteps ==
  ASSUME ScopeInv, Scope!Retry
  PROVE  ScopeInv'
<1>1. /\ scoping = "selecting" /\ selector_retries < max_retries
      /\ selector_retries' = selector_retries + 1 /\ scoping' = "retrieving"
      /\ relationships' = relationships /\ candidates' = candidates /\ seeds' = seeds
      /\ walked' = walked /\ levels' = levels /\ queue' = queue /\ level' = level
      /\ reached_from' = reached_from
      /\ offered' = offered /\ discarded' = discarded /\ notice' = notice
  BY DEF Scope!Retry, Scope!walk
<1>2. selector_retries' \in 0 .. max_retries /\ selector_retries' # 0
  BY <1>1, ScopeConstants DEF ScopeInv, ScopeTypes
<1>3. ScopeTypes'
  BY <1>1, <1>2 DEF ScopeInv, ScopeTypes
<1>4. Cover' = Cover
  BY <1>1, SameGraph DEF Cover, Known
<1>5. Offers'
  BY <1>1, <1>2, <1>4 DEF ScopeInv, Offers
<1>6. QED
  BY <1>1, <1>3, <1>5 DEF ScopeInv, Scope!OfferedIsJoinable, Scope!NearestAreKept

LEMMA ProceedSteps ==
  ASSUME ScopeInv, Scope!Proceed
  PROVE  ScopeInv'
<1>1. /\ scoping = "selecting" /\ scoping' = "done" /\ selector_retries' = selector_retries
      /\ relationships' = relationships /\ candidates' = candidates /\ seeds' = seeds
      /\ walked' = walked /\ levels' = levels /\ queue' = queue /\ level' = level
      /\ reached_from' = reached_from
      /\ offered' = offered /\ discarded' = discarded /\ notice' = notice
  BY DEF Scope!Proceed, Scope!walk
<1>3. ScopeTypes'
  BY <1>1 DEF ScopeInv, ScopeTypes
<1>4. Cover' = Cover
  BY <1>1, SameGraph DEF Cover, Known
<1>5. Offers'
  BY <1>1, <1>4 DEF ScopeInv, Offers
<1>6. QED
  BY <1>1, <1>3, <1>5 DEF ScopeInv, Scope!OfferedIsJoinable, Scope!NearestAreKept

LEMMA VisitSteps ==
  ASSUME ScopeInv, Scope!Visit
  PROVE  ScopeInv'
<1> DEFINE s == seeds[walked + 1]
<1>a. PICK current : current = Head(queue)
  OBVIOUS
<1>b. PICK found : found = IF levels[current] >= max_levels THEN {}
                         ELSE {t \in Scope!neighbors(current) : levels[t] = max_levels + 1}
  OBVIOUS
<1>c. PICK f : f = Scope!Sorted(found, <)
  OBVIOUS
<1>1. /\ queue # <<>>
      /\ levels' = [t \in SchemaTable |-> IF t \in found THEN levels[current] + 1 ELSE levels[t]]
      /\ queue' = Tail(queue) \o f
      /\ relationships' = relationships /\ scoping' = scoping
      /\ selector_retries' = selector_retries /\ candidates' = candidates /\ seeds' = seeds
      /\ walked' = walked /\ level' = level /\ reached_from' = reached_from
      /\ offered' = offered /\ discarded' = discarded /\ notice' = notice
  BY <1>a, <1>b, <1>c, ScopeConstants DEF Scope!Visit
<1>2. scoping = "walking" /\ Walks
  BY <1>1 DEF ScopeInv
<1>3. walked < Len(seeds) /\ Wave(levels, queue, s, Ball[s], Adjacent)
  BY <1>1, <1>2 DEF Walks
<1>4. s \in SchemaTable /\ Balls(Ball[s], {s}, Adjacent)
  BY <1>3, WalkedSeed
<1>5. /\ max_levels \in Nat
      /\ walked \in 0 .. Len(seeds) /\ levels \in [SchemaTable -> 0 .. max_levels + 1]
      /\ level \in [SchemaTable -> 0 .. max_levels + 1]
      /\ reached_from \in [SchemaTable -> SUBSET Elements(seeds)]
      /\ queue \in Seq(SchemaTable)
  BY ScopeConstants DEF ScopeInv, ScopeTypes
<1>6. current \in SchemaTable
  BY <1>a, <1>1, <1>5
<1>7. /\ found \in SUBSET SchemaTable
      /\ \A t \in SchemaTable : t \in found <=>
           levels[current] < max_levels /\ t \in Adjacent[current] /\ levels[t] = max_levels + 1
  <2>1. Adjacent[current] = Scope!neighbors(current) /\ Adjacent[current] \in SUBSET SchemaTable
    BY <1>6, AdjacentTypes
  <2>2. levels[current] \in Int
    BY <1>5, <1>6
  <2>3. QED
    BY <1>b, <1>5, <2>1, <2>2
<1>8. Lists(f, found)
  <2>1. found \in SUBSET Nat /\ IsFiniteSet(found)
    BY <1>7, ScopeConstants, FS_Subset
  <2>2. QED
    BY <1>c, <2>1, SortsUp
<1>9. f \in Seq(found) /\ \A x \in found : \E i \in 1 .. Len(f) : f[i] = x
  BY <1>8 DEF Lists
<1>10. \A t \in SchemaTable : levels'[t] = IF t \in found THEN levels[current] + 1 ELSE levels[t]
  BY <1>1
<1>11. levels' \in [SchemaTable -> Int]
  BY <1>1, <1>5, <1>6
<1> HIDE DEF s
<1>12. Wave(levels', Tail(queue) \o f, s, Ball[s], Adjacent)
  <2>1. PICK l : l = levels
    OBVIOUS
  <2>2. PICK m : m = levels'
    OBVIOUS
  <2>3. PICK q : q = queue
    OBVIOUS
  <2>4. PICK V : V = Ball[s]
    OBVIOUS
  <2>5. PICK N : N = Adjacent
    OBVIOUS
  <2>6. /\ N \in [SchemaTable -> SUBSET SchemaTable] /\ s \in SchemaTable /\ Balls(V, {s}, N)
        /\ Wave(l, q, s, V, N) /\ q # <<>> /\ found \in SUBSET SchemaTable
        /\ m \in [SchemaTable -> Int]
    BY <1>1, <1>3, <1>4, <1>7, <1>11, <2>1, <2>2, <2>3, <2>4, <2>5, AdjacentTypes
  <2>7. /\ \A t \in SchemaTable : t \in found <=>
             l[Head(q)] < max_levels /\ t \in N[Head(q)] /\ l[t] = max_levels + 1
        /\ \A t \in SchemaTable : m[t] = IF t \in found THEN l[Head(q)] + 1 ELSE l[t]
    BY <1>a, <1>7, <1>10, <2>1, <2>2, <2>3, <2>5
  <2>8. Wave(m, Tail(q) \o f, s, V, N)
    BY ONLY <1>9, <2>6, <2>7, WaveGoesOn
  <2>9. QED
    BY <2>2, <2>3, <2>4, <2>5, <2>8
<1>13. Ball' = Ball /\ Adjacent' = Adjacent
  BY <1>1, SameGraph
<1>14. Walks'
  <2>1. seeds'[walked' + 1] = s
    BY <1>1 DEF s
  <2>2. Wave(levels', queue', seeds'[walked' + 1], Ball'[seeds'[walked' + 1]], Adjacent')
    BY <1>1, <1>12, <1>13, <2>1
  <2>3. walked' < Len(seeds')
    BY <1>1, <1>3
  <2>4. /\ \A t \in SchemaTable, k \in 0 .. max_levels :
            level'[t] <= k <=> \E i \in 1 .. walked' : t \in Ball'[seeds'[i]][k]
        /\ \A t \in SchemaTable :
            reached_from'[t] = {seeds'[i] : i \in {j \in 1 .. walked' : t \in Ball'[seeds'[j]][max_levels]}}
    BY <1>1, <1>2, <1>13 DEF Walks
  <2>5. QED
    BY <2>2, <2>3, <2>4 DEF Walks
<1>15. levels' \in [SchemaTable -> 0 .. max_levels + 1] /\ queue' \in Seq(SchemaTable)
  BY <1>1, <1>12 DEF Wave
<1>16. QED
  BY <1>1, <1>2, <1>5, <1>14, <1>15, WalkingKeeps

LEMMA LesserOfTwo ==
  ASSUME NEW a \in Nat, NEW b \in Nat
  PROVE  Scope!Min({a, b}) = IF a <= b THEN a ELSE b
<1>1. PICK m : m = Scope!Min({a, b})
  OBVIOUS
<1>2. m = CHOOSE x \in {a, b} : \A y \in {a, b} : x <= y
  BY <1>1 DEF Scope!Min
<1>3. \E x \in {a, b} : \A y \in {a, b} : x <= y
  OBVIOUS
<1>4. m \in {a, b} /\ \A y \in {a, b} : m <= y
  BY <1>2, <1>3
<1>5. QED
  BY <1>1, <1>4

LEMMA EndWalkSteps ==
  ASSUME ScopeInv, Scope!EndWalk
  PROVE  ScopeInv'
<1> DEFINE s == seeds[walked + 1]
<1>1. /\ scoping = "walking" /\ queue = <<>> /\ walked < Len(seeds) /\ levels[s] # max_levels + 1
      /\ level' = [t \in SchemaTable |-> Scope!Min({level[t], levels[t]})]
      /\ reached_from' = [t \in SchemaTable |->
           IF levels[t] # max_levels + 1 THEN reached_from[t] \cup {s} ELSE reached_from[t]]
      /\ walked' = walked + 1 /\ levels' = Blank
      /\ relationships' = relationships /\ scoping' = scoping
      /\ selector_retries' = selector_retries /\ candidates' = candidates /\ seeds' = seeds
      /\ queue' = queue
      /\ offered' = offered /\ discarded' = discarded /\ notice' = notice
  BY ScopeConstants DEF Scope!EndWalk, Blank
<1>2. /\ s \in SchemaTable /\ s \in Elements(seeds) /\ Balls(Ball[s], {s}, Adjacent)
      /\ walked + 1 \in 1 .. Len(seeds) /\ walked \in Nat /\ Len(seeds) \in Nat
  BY <1>1, WalkedSeed
<1>3. /\ max_levels \in Nat
      /\ levels \in [SchemaTable -> 0 .. max_levels + 1]
      /\ level \in [SchemaTable -> 0 .. max_levels + 1]
      /\ reached_from \in [SchemaTable -> SUBSET Elements(seeds)]
      /\ queue \in Seq(SchemaTable)
  BY ScopeConstants DEF ScopeInv, ScopeTypes
<1>4. Walks
  BY <1>1 DEF ScopeInv
<1>5. Wave(levels, <<>>, s, Ball[s], Adjacent)
  <2>1. levels # Blank
    BY <1>1, <1>2 DEF Blank
  <2>2. QED
    BY <1>1, <1>4, <2>1 DEF Walks
<1> HIDE DEF s
<1>6. \A t \in SchemaTable, k \in 0 .. max_levels : levels[t] <= k <=> t \in Ball[s][k]
  <2>1. PICK l : l = levels
    OBVIOUS
  <2>2. PICK V : V = Ball[s]
    OBVIOUS
  <2>3. /\ Balls(V, {s}, Adjacent) /\ Wave(l, <<>>, s, V, Adjacent)
        /\ Adjacent \in [SchemaTable -> SUBSET SchemaTable]
    BY <1>2, <1>5, <2>1, <2>2, AdjacentTypes
  <2>4. \A t \in SchemaTable, k \in 0 .. max_levels : l[t] <= k <=> t \in V[k]
    BY ONLY <1>2, <2>3, WaveEnds
  <2>5. QED
    BY <2>1, <2>2, <2>4
<1>7. \A t \in SchemaTable :
        /\ level'[t] \in 0 .. max_levels + 1
        /\ \A k \in 0 .. max_levels : level'[t] <= k <=> level[t] <= k \/ levels[t] <= k
  <2>1. TAKE t \in SchemaTable
  <2>2. level[t] \in Nat /\ levels[t] \in Nat
    BY <1>3
  <2>3. level'[t] = IF level[t] <= levels[t] THEN level[t] ELSE levels[t]
    BY <1>1, <2>2, LesserOfTwo
  <2>4. level[t] \in 0 .. max_levels + 1 /\ levels[t] \in 0 .. max_levels + 1
    BY <1>3
  <2>5. QED
    BY <1>3, <2>3, <2>4
<1>8. Ball' = Ball /\ Adjacent' = Adjacent
  BY <1>1, SameGraph
<1>9. \A i : i \in 1 .. walked + 1 <=> i \in 1 .. walked \/ i = walked + 1
  BY <1>2
<1>10. ASSUME NEW t \in SchemaTable, NEW k \in 0 .. max_levels
       PROVE  level'[t] <= k <=> \E i \in 1 .. walked' : t \in Ball'[seeds'[i]][k]
  <2>1. level[t] <= k <=> \E i \in 1 .. walked : t \in Ball[seeds[i]][k]
    BY <1>4 DEF Walks
  <2>2. levels[t] <= k <=> t \in Ball[seeds[walked + 1]][k]
    BY <1>6 DEF s
  <2>3. level'[t] <= k <=> level[t] <= k \/ levels[t] <= k
    BY <1>7
  <2>4. level'[t] <= k <=> \E i \in 1 .. walked + 1 : t \in Ball[seeds[i]][k]
    BY <1>9, <2>1, <2>2, <2>3
  <2>5. QED
    BY <1>1, <1>8, <2>4
<1>11. ASSUME NEW t \in SchemaTable
       PROVE  reached_from'[t] = {seeds'[i] : i \in {j \in 1 .. walked' : t \in Ball'[seeds'[j]][max_levels]}}
  <2>1. reached_from[t] = {seeds[i] : i \in {j \in 1 .. walked : t \in Ball[seeds[j]][max_levels]}}
    BY <1>4 DEF Walks
  <2>2. levels[t] # max_levels + 1 <=> t \in Ball[s][max_levels]
    <3>1. levels[t] \in 0 .. max_levels + 1 /\ max_levels \in 0 .. max_levels
      BY <1>3
    <3>2. levels[t] <= max_levels <=> t \in Ball[s][max_levels]
      BY <1>6, <3>1
    <3>3. QED
      BY <1>3, <3>1, <3>2
  <2>3. reached_from'[t] = IF t \in Ball[s][max_levels] THEN reached_from[t] \cup {s} ELSE reached_from[t]
    BY <1>1, <2>2
  <2>4. \A x : x \in reached_from'[t] <=>
          \E j \in 1 .. walked + 1 : t \in Ball[seeds[j]][max_levels] /\ x = seeds[j]
    BY <1>9, <2>1, <2>3 DEF s
  <2>5. \A x : x \in reached_from'[t] <=>
          x \in {seeds[i] : i \in {j \in 1 .. walked + 1 : t \in Ball[seeds[j]][max_levels]}}
    BY <2>4
  <2>6. reached_from'[t] = {seeds[i] : i \in {j \in 1 .. walked + 1 : t \in Ball[seeds[j]][max_levels]}}
    BY <2>5
  <2>7. QED
    BY <1>1, <1>8, <2>6
<1>12. Blank' = Blank
  BY DEF Blank
<1>13. Walks'
  BY <1>1, <1>10, <1>11, <1>12 DEF Walks
<1>14. /\ walked' \in 0 .. Len(seeds)
       /\ levels' \in [SchemaTable -> 0 .. max_levels + 1]
       /\ level' \in [SchemaTable -> 0 .. max_levels + 1]
       /\ reached_from' \in [SchemaTable -> SUBSET Elements(seeds)]
  <2>1. walked' \in 0 .. Len(seeds)
    BY <1>1, <1>2
  <2>2. levels' \in [SchemaTable -> 0 .. max_levels + 1]
    BY <1>1, <1>3 DEF Blank
  <2>3. level' \in [SchemaTable -> 0 .. max_levels + 1]
    BY <1>1, <1>7
  <2>4. reached_from' \in [SchemaTable -> SUBSET Elements(seeds)]
    BY <1>1, <1>2, <1>3
  <2>5. QED
    BY <2>1, <2>2, <2>3, <2>4
<1>15. QED
  BY <1>1, <1>3, <1>13, <1>14, WalkingKeeps

\* A set with so many elements in a list has no fewer.
LEMMA ListFits ==
  ASSUME NEW T, IsFiniteSet(T), NEW n \in Nat, NEW f \in [1 .. n -> T],
         \A i, j \in 1 .. n : i # j => f[i] # f[j]
  PROVE  n <= Cardinality(T)
<1>1. f \in Injection(1 .. n, T)
  BY DEF Injection, IsInjective
<1>2. IsFiniteSet(1 .. n) /\ Cardinality(1 .. n) = n
  BY CountUpTo
<1>3. Cardinality(1 .. n) <= Cardinality(T)
  BY <1>1, <1>2, FS_Injection
<1>4. QED
  BY <1>2, <1>3

LEMMA GreaterOfTwo ==
  ASSUME NEW a \in Nat, NEW b \in Nat
  PROVE  Scope!Max({a, b}) \in Nat /\ a <= Scope!Max({a, b}) /\ b <= Scope!Max({a, b})
<1>1. PICK m : m = Scope!Max({a, b})
  OBVIOUS
<1>2. m = CHOOSE x \in {a, b} : \A y \in {a, b} : x >= y
  BY <1>1 DEF Scope!Max
<1>3. \E x \in {a, b} : \A y \in {a, b} : x >= y
  OBVIOUS
<1>4. m \in {a, b} /\ \A y \in {a, b} : m >= y
  BY <1>2, <1>3
<1>5. QED
  BY <1>1, <1>4

LEMMA KeepsTheSeeds ==
  ASSUME ScopeInv
  PROVE  Scope!Keep \in Nat /\ Len(seeds) <= Scope!Keep /\ max_tables <= Scope!Keep
<1>1. /\ seeds \in Seq(SchemaTable) /\ Len(seeds) \in Nat
      /\ \A i, j \in 1 .. Len(seeds) : i # j => seeds[i] # seeds[j]
  BY DEF ScopeInv, ScopeTypes
<1>2. max_tables \in Nat /\ IsFiniteSet(SchemaTable)
  BY ScopeConstants
<1>3. CASE max_tables = 0
  <2>1. Scope!Cardinality(SchemaTable) = Cardinality(SchemaTable)
    BY Zenon DEF Scope!Cardinality, Cardinality
  <2>2. Scope!Keep = Cardinality(SchemaTable)
    BY <1>3, <2>1 DEF Scope!Keep
  <2>3. Cardinality(SchemaTable) \in Nat
    BY <1>2, FS_CardinalityType
  <2>4. PICK n : n = Len(seeds)
    OBVIOUS
  <2>5. /\ n \in Nat /\ seeds \in [1 .. n -> SchemaTable]
        /\ \A i, j \in 1 .. n : i # j => seeds[i] # seeds[j]
    BY <1>1, <2>4
  <2>6. n <= Cardinality(SchemaTable)
    BY <1>2, <2>5, ListFits
  <2>7. QED
    BY <1>3, <2>2, <2>3, <2>4, <2>6
<1>4. CASE max_tables # 0
  <2>1. Scope!Keep = Scope!Max({max_tables, Len(seeds)})
    BY <1>4 DEF Scope!Keep
  <2>2. QED
    BY <1>1, <1>2, <2>1, GreaterOfTwo
<1>5. QED
  BY <1>3, <1>4

\* What is offered, and what is cut off: the seeds, and the m nearest of the
\* tables found.
Shown(d, m, off, dis) ==
  /\ Lists(d, Found)
  /\ \A i, j \in 1 .. Len(d) : i < j => level[d[i]] <= level[d[j]]
  /\ m \in 0 .. Len(d)
  /\ \A t : t \in off <=> t \in Elements(seeds) \/ \E i \in 1 .. m : t = d[i]
  /\ \A t \in dis : \E i \in m + 1 .. Len(d) : t = d[i]
  /\ \A i \in 1 .. Len(d) : d[i] \in off \/ d[i] \in dis
  /\ dis # {} => max_tables <= Len(seeds) + m

LEMMA CollectShows ==
  ASSUME ScopeInv, Scope!Collect
  PROVE  \E d, m : Shown(d, m, offered', discarded')
<1>1. PICK d : d = Scope!Discovered
  OBVIOUS
<1>2. PICK o : o = seeds \o d
  OBVIOUS
<1>3. PICK K : K = Scope!Keep
  OBVIOUS
<1>4. PICK p : p = Scope!First(K, o)
  OBVIOUS
<1>5. offered' = Scope!Range(p) /\ discarded' = Scope!Range(o) \ Scope!Range(p)
  BY <1>1, <1>2, <1>3, <1>4 DEF Scope!Collect
<1>6. /\ level \in [SchemaTable -> 0 .. max_levels + 1]
      /\ seeds \in Seq(SchemaTable) /\ Len(seeds) \in Nat
  BY DEF ScopeInv, ScopeTypes
<1>7. /\ Lists(d, Found)
      /\ \A i, j \in 1 .. Len(d) : i < j => level[d[i]] <= level[d[j]]
  BY <1>1, <1>6, NearestFirst
<1>8. d \in Seq(SchemaTable) /\ Len(d) \in Nat
  <2>1. d \in Seq(Found) /\ Found \in SUBSET SchemaTable
    BY <1>7 DEF Lists, Found
  <2>2. QED
    BY <2>1
<1>9. /\ o \in Seq(SchemaTable) /\ Len(o) = Len(seeds) + Len(d)
      /\ \A i \in 1 .. Len(seeds) : i \in 1 .. Len(o) /\ o[i] = seeds[i]
      /\ \A i \in 1 .. Len(d) : Len(seeds) + i \in 1 .. Len(o) /\ o[Len(seeds) + i] = d[i]
      /\ \A i \in 1 .. Len(o) : i \in 1 .. Len(seeds) \/ \E j \in 1 .. Len(d) : i = Len(seeds) + j
  BY <1>2, <1>6, <1>8, Joining
<1>10. K \in Nat /\ Len(seeds) <= K /\ max_tables <= K /\ max_tables \in Nat
  BY <1>3, KeepsTheSeeds, ScopeConstants
<1>11. /\ p \in Seq(SchemaTable)
       /\ Len(p) = IF K <= Len(o) THEN K ELSE Len(o)
       /\ \A i \in 1 .. Len(p) : i \in 1 .. Len(o) /\ p[i] = o[i]
  BY <1>4, <1>9, <1>10, FirstTakes
<1>12. offered' = Elements(p) /\ discarded' = Elements(o) \ Elements(p)
  BY <1>5, <1>9, <1>11, RangeIs
<1>13. PICK m : m = Len(p) - Len(seeds)
  OBVIOUS
<1>14. PICK n \in Nat : n = Len(seeds)
  BY <1>6
<1>15. PICK e \in Nat : e = Len(d)
  BY <1>8
<1>16. m \in 0 .. e /\ Len(p) = n + m /\ Len(o) = n + e /\ (m < e => max_tables <= n + m)
  BY <1>9, <1>10, <1>11, <1>13, <1>14, <1>15
<1>17. m \in Nat
  BY <1>15, <1>16
<1>18. \A t : t \in offered' <=> t \in Elements(seeds) \/ \E i \in 1 .. m : t = d[i]
  <2>1. ASSUME NEW t \in Elements(p) PROVE t \in Elements(seeds) \/ \E i \in 1 .. m : t = d[i]
    <3>1. PICK i \in 1 .. Len(p) : t = p[i]
      BY <2>1 DEF Elements
    <3>2. i \in 1 .. Len(o) /\ t = o[i]
      BY <1>11, <3>1
    <3>3. CASE i \in 1 .. Len(seeds)
      BY <1>9, <3>2, <3>3 DEF Elements
    <3>4. CASE \E j \in 1 .. Len(d) : i = Len(seeds) + j
      <4>1. PICK j \in 1 .. Len(d) : i = Len(seeds) + j
        BY <3>4
      <4>2. t = d[j]
        BY <1>9, <3>2, <4>1
      <4>3. j \in 1 .. m
        BY <1>14, <1>15, <1>16, <1>17, <3>1, <4>1
      <4>4. QED
        BY <4>2, <4>3
    <3>5. QED
      BY <1>9, <3>2, <3>3, <3>4
  <2>2. ASSUME NEW t \in Elements(seeds) PROVE t \in Elements(p)
    <3>1. PICK i \in 1 .. Len(seeds) : t = seeds[i]
      BY <2>2 DEF Elements
    <3>2. i \in 1 .. Len(p)
      BY <1>14, <1>16, <1>17, <3>1
    <3>3. t = p[i]
      BY <1>9, <1>11, <3>1, <3>2
    <3>4. QED
      BY <3>2, <3>3 DEF Elements
  <2>3. ASSUME NEW i \in 1 .. m PROVE d[i] \in Elements(p)
    <3>1. i \in 1 .. Len(d) /\ Len(seeds) + i \in 1 .. Len(p)
      BY <1>14, <1>15, <1>16, <1>17
    <3>2. d[i] = p[Len(seeds) + i]
      BY <1>9, <1>11, <3>1
    <3>3. QED
      BY <3>1, <3>2 DEF Elements
  <2>4. QED
    BY <1>12, <2>1, <2>2, <2>3
<1>19. \A t \in discarded' : \E i \in m + 1 .. Len(d) : t = d[i]
  <2>1. TAKE t \in discarded'
  <2>2. t \in Elements(o) /\ t \notin offered'
    BY <1>12
  <2>3. PICK i \in 1 .. Len(o) : t = o[i]
    BY <2>2 DEF Elements
  <2>4. i \notin 1 .. Len(seeds)
    <3>1. ASSUME i \in 1 .. Len(seeds) PROVE t \in Elements(seeds)
      BY <1>9, <2>3, <3>1 DEF Elements
    <3>2. QED
      BY <1>18, <2>2, <3>1
  <2>5. PICK j \in 1 .. Len(d) : i = Len(seeds) + j
    BY <1>9, <2>4
  <2>6. t = d[j]
    BY <1>9, <2>3, <2>5
  <2>7. j \notin 1 .. m
    BY <1>18, <2>2, <2>6
  <2>8. j \in m + 1 .. Len(d)
    BY <1>15, <1>17, <2>7
  <2>9. QED
    BY <2>6, <2>8
<1>20. \A i \in 1 .. Len(d) : d[i] \in offered' \/ d[i] \in discarded'
  <2>1. TAKE i \in 1 .. Len(d)
  <2>2. d[i] \in Elements(o)
    BY <1>9 DEF Elements
  <2>3. QED
    BY <1>12, <2>2
<1>21. discarded' # {} => max_tables <= Len(seeds) + m
  <2>1. SUFFICES ASSUME discarded' # {} PROVE m < e
    BY <1>14, <1>16
  <2>2. PICK i \in m + 1 .. Len(d) : TRUE
    BY <1>19, <2>1
  <2>3. QED
    BY <1>15, <1>17, <2>2
<1>22. Shown(d, m, offered', discarded')
  BY <1>7, <1>15, <1>16, <1>18, <1>19, <1>20, <1>21 DEF Shown
<1>23. QED
  BY <1>22

\* When the walks are over: what is near has been found, and near to a seed.
LEMMA WhatIsNear ==
  ASSUME ScopeInv, scoping = "walking", walked = Len(seeds)
  PROVE  /\ \A t \in SchemaTable, k \in 0 .. max_levels :
              level[t] <= k <=> \E s \in Elements(seeds) : t \in Ball[s][k]
         /\ Elements(seeds) \in SUBSET SchemaTable
         /\ \A t \in SchemaTable : level[t] \in 0 .. max_levels + 1
         /\ \A t \in Found : t \in SchemaTable /\ t \notin Elements(seeds) /\ level[t] \in 0 .. max_levels
         /\ \A t \in SchemaTable : level[t] <= max_levels => t \in Elements(seeds) \/ t \in Found
<1>1. /\ Walks /\ max_levels \in Nat /\ seeds \in Seq(SchemaTable)
      /\ level \in [SchemaTable -> 0 .. max_levels + 1]
  <2>1. Walks
    BY DEF ScopeInv
  <2>2. seeds \in Seq(SchemaTable) /\ level \in [SchemaTable -> 0 .. max_levels + 1]
    BY DEF ScopeInv, ScopeTypes
  <2>3. QED
    BY <2>1, <2>2, ScopeConstants
<1>2. \A t \in SchemaTable, k \in 0 .. max_levels :
        level[t] <= k <=> \E s \in Elements(seeds) : t \in Ball[s][k]
  <2>1. TAKE t \in SchemaTable, k \in 0 .. max_levels
  <2>2. level[t] <= k <=> \E i \in 1 .. Len(seeds) : t \in Ball[seeds[i]][k]
    BY <1>1 DEF Walks
  <2>3. QED
    BY <2>2 DEF Elements
<1>3. Elements(seeds) \in SUBSET SchemaTable
  BY <1>1 DEF Elements
<1>4. \A t \in SchemaTable : level[t] \in 0 .. max_levels + 1
  BY <1>1
<1>5. \A t \in SchemaTable : level[t] # max_levels + 1 <=> level[t] \in 0 .. max_levels
  BY <1>1, <1>4
<1>6. \A t \in SchemaTable : level[t] <= max_levels => level[t] # max_levels + 1
  BY <1>1, <1>4
<1>7. \A t : t \in Found <=> t \in SchemaTable /\ level[t] # max_levels + 1 /\ t \notin Elements(seeds)
  BY DEF Found
<1>8. \A t \in Found : t \in SchemaTable /\ t \notin Elements(seeds) /\ level[t] \in 0 .. max_levels
  BY <1>5, <1>7
<1>9. \A t \in SchemaTable : level[t] <= max_levels => t \in Elements(seeds) \/ t \in Found
  BY <1>6, <1>7
<1>10. QED
  BY <1>2, <1>3, <1>4, <1>8, <1>9

LEMMA OfferedAreJoinable ==
  ASSUME ScopeInv, scoping = "walking", walked = Len(seeds),
         NEW d, NEW m, NEW off, NEW dis, Shown(d, m, off, dis),
         NEW t \in off \ Elements(seeds)
  PROVE  \E u \in off : t \in Scope!neighbors(u) /\ level[u] < level[t]
<1>1. /\ Len(d) \in Nat /\ m \in 0 .. Len(d)
      /\ \A i \in 1 .. Len(d) : d[i] \in Found
      /\ \A u \in Found : \E i \in 1 .. Len(d) : d[i] = u
  BY DEF Shown, Lists
<1>2. PICK a \in 1 .. m : t = d[a]
  BY DEF Shown
<1>3. a \in 1 .. Len(d) /\ t \in Found
  BY <1>1, <1>2
<1>4. PICK k : k = level[t]
  OBVIOUS
<1>5. t \in SchemaTable /\ k \in 0 .. max_levels /\ max_levels \in Nat
  BY <1>3, <1>4, WhatIsNear, ScopeConstants
<1>6. k \in Nat
  BY <1>5
<1>7. PICK s \in Elements(seeds) : t \in Ball[s][k]
  BY <1>4, <1>5, <1>6, WhatIsNear
<1>8. s \in SchemaTable /\ t # s
  BY <1>3, <1>7, WhatIsNear
<1>9. PICK V : V = Ball[s]
  OBVIOUS
<1>10. Balls(V, {s}, Adjacent)
  BY <1>8, <1>9, BallsAre
<1>11. k # 0
  <2>1. V[0] = {s}
    BY <1>10 DEF Balls
  <2>2. QED
    BY <1>7, <1>8, <1>9, <2>1
<1>12. PICK h : h = k - 1
  OBVIOUS
<1>13. h \in 0 .. max_levels /\ k \in 1 .. max_levels /\ h < k /\ h \in Nat
  BY <1>5, <1>6, <1>11, <1>12
<1>14. V[k] = NextTo(Adjacent, V[h])
  BY <1>10, <1>12, <1>13 DEF Balls
<1>15. t \notin V[h]
  <2>1. ~(level[t] <= h)
    BY <1>4, <1>6, <1>13
  <2>2. t \notin Ball[s][h]
    BY <1>5, <1>7, <1>13, <2>1, WhatIsNear
  <2>3. QED
    BY <1>9, <2>2
<1>16. PICK u \in V[h] : t \in Adjacent[u]
  BY <1>7, <1>9, <1>14, <1>15 DEF NextTo
<1>17. u \in SchemaTable
  BY <1>10, <1>13, <1>16 DEF Balls
<1>18. level[u] <= h /\ level[u] \in Nat
  <2>1. level[u] <= h
    BY <1>7, <1>9, <1>13, <1>16, <1>17, WhatIsNear
  <2>2. level[u] \in 0 .. max_levels + 1
    BY <1>17, WhatIsNear
  <2>3. QED
    BY <2>1, <2>2
<1>19. level[u] < level[t] /\ level[u] <= max_levels
  BY <1>4, <1>5, <1>6, <1>13, <1>18
<1>20. t \in Scope!neighbors(u)
  BY <1>16, <1>17, AdjacentTypes
<1>21. u \in off
  <2>1. CASE u \in Elements(seeds)
    BY <2>1 DEF Shown
  <2>2. CASE u \in Found
    <3>1. PICK b \in 1 .. Len(d) : d[b] = u
      BY <1>1, <2>2
    <3>2. ~(a < b)
      <4>1. ASSUME a < b PROVE level[t] <= level[u]
        BY <1>2, <1>3, <3>1, <4>1 DEF Shown
      <4>2. QED
        BY <1>4, <1>6, <1>18, <1>19, <4>1
    <3>3. b \in 1 .. m
      BY <1>1, <3>2
    <3>4. QED
      BY <3>1, <3>3 DEF Shown
  <2>3. QED
    BY <1>17, <1>19, <2>1, <2>2, WhatIsNear
<1>22. QED
  BY <1>19, <1>20, <1>21

LEMMA OfferedAreMany ==
  ASSUME ScopeInv, scoping = "walking", walked = Len(seeds),
         NEW d, NEW m, NEW off \in SUBSET SchemaTable, NEW dis, Shown(d, m, off, dis)
  PROVE  Len(seeds) + m <= Cardinality(off)
<1>1. /\ d \in Seq(Found) /\ Len(d) \in Nat /\ m \in 0 .. Len(d)
      /\ \A i \in 1 .. Len(d) : d[i] \in Found
      /\ \A i, j \in 1 .. Len(d) : i # j => d[i] # d[j]
  BY DEF Shown, Lists
<1>2. /\ seeds \in Seq(SchemaTable) /\ Len(seeds) \in Nat
      /\ \A i, j \in 1 .. Len(seeds) : i # j => seeds[i] # seeds[j]
  BY DEF ScopeInv, ScopeTypes
<1>3. PICK n \in Nat : n = Len(seeds)
  BY <1>2
<1>4. PICK q \in Nat : q = n + m
  BY <1>1
<1>5. PICK f : f = [i \in 1 .. q |-> IF i <= n THEN seeds[i] ELSE d[i - n]]
  OBVIOUS
<1>6. \A i \in 1 .. q : \/ i \in 1 .. n /\ f[i] = seeds[i]
                        \/ i - n \in 1 .. m /\ i - n \in 1 .. Len(d) /\ f[i] = d[i - n] /\ i > n
  BY <1>1, <1>4, <1>5
<1>7. \A i \in 1 .. n : seeds[i] \in off /\ seeds[i] \in Elements(seeds)
  BY <1>3 DEF Shown, Elements
<1>8. \A i \in 1 .. m : d[i] \in off
  BY DEF Shown
<1>9. \A i \in 1 .. Len(d) : d[i] \notin Elements(seeds)
  BY <1>1 DEF Found
<1>10. \A i \in 1 .. q : f[i] \in off
  BY <1>6, <1>7, <1>8
<1>11. f \in [1 .. q -> off]
  BY <1>5, <1>10
<1>12. ASSUME NEW i \in 1 .. q, NEW j \in 1 .. q, i # j PROVE f[i] # f[j]
  <2>1. CASE i \in 1 .. n /\ f[i] = seeds[i] /\ j \in 1 .. n /\ f[j] = seeds[j]
    BY <1>2, <1>3, <1>12, <2>1
  <2>2. CASE i \in 1 .. n /\ f[i] = seeds[i] /\ j - n \in 1 .. Len(d) /\ f[j] = d[j - n]
    BY <1>7, <1>9, <2>2
  <2>3. CASE j \in 1 .. n /\ f[j] = seeds[j] /\ i - n \in 1 .. Len(d) /\ f[i] = d[i - n]
    BY <1>7, <1>9, <2>3
  <2>4. CASE /\ i - n \in 1 .. Len(d) /\ f[i] = d[i - n]
             /\ j - n \in 1 .. Len(d) /\ f[j] = d[j - n]
    <3>1. i - n # j - n
      BY <1>12
    <3>2. QED
      BY <1>1, <2>4, <3>1
  <2>5. QED
    BY <1>6, <2>1, <2>2, <2>3, <2>4
<1>13. IsFiniteSet(off)
  BY ScopeConstants, FS_Subset
<1>14. q <= Cardinality(off)
  BY <1>11, <1>12, <1>13, ListFits
<1>15. QED
  BY <1>3, <1>4, <1>14

LEMMA CoverIsFound ==
  ASSUME ScopeInv, scoping = "walking", walked = Len(seeds)
  PROVE  /\ Elements(seeds) \cup Found \subseteq Cover
         /\ Len(candidates) <= top_k => Cover \subseteq Elements(seeds) \cup Found
<1>1. /\ Elements(seeds) \subseteq Known
      /\ Len(candidates) <= top_k => Elements(seeds) = Known
  BY DEF ScopeInv, Offers
<1>2. max_levels \in Nat /\ max_levels \in 0 .. max_levels /\ 0 \in 0 .. max_levels
  BY ScopeConstants
<1>3. ASSUME NEW t \in Elements(seeds) PROVE t \in Cover
  <2>1. t \in SchemaTable
    BY <1>3, WhatIsNear
  <2>2. PICK V : V = Ball[t]
    OBVIOUS
  <2>3. Balls(V, {t}, Adjacent)
    BY <2>1, <2>2, BallsAre
  <2>4. V[0] \subseteq V[max_levels]
    <3>1. PICK j \in 0 .. max_levels : j = max_levels
      BY <1>2
    <3>2. 0 \in 0 .. j
      BY <1>2, <3>1
    <3>3. V[0] \subseteq V[j]
      BY <2>3, <3>2, BallsGrow
    <3>4. QED
      BY <3>1, <3>3
  <2>5. t \in Ball[t][max_levels]
    BY <2>2, <2>3, <2>4 DEF Balls
  <2>6. QED
    BY <1>1, <1>3, <2>1, <2>5 DEF Cover
<1>4. ASSUME NEW t \in Found PROVE t \in Cover
  <2>1. t \in SchemaTable /\ level[t] <= max_levels
    BY <1>2, <1>4, WhatIsNear
  <2>2. PICK s \in Elements(seeds) : t \in Ball[s][max_levels]
    BY <1>2, <2>1, WhatIsNear
  <2>3. QED
    BY <1>1, <2>1, <2>2 DEF Cover
<1>5. ASSUME Len(candidates) <= top_k, NEW t \in Cover PROVE t \in Elements(seeds) \cup Found
  <2>1. PICK s \in Elements(seeds) : t \in Ball[s][max_levels]
    BY <1>1, <1>5 DEF Cover
  <2>2. t \in SchemaTable
    BY <1>5 DEF Cover
  <2>3. level[t] <= max_levels
    BY <1>2, <2>1, <2>2, WhatIsNear
  <2>4. QED
    BY <2>2, <2>3, WhatIsNear
<1>6. QED
  BY <1>3, <1>4, <1>5

LEMMA CollectSteps ==
  ASSUME ScopeInv, Scope!Collect
  PROVE  /\ ScopeInv'
         /\ ~notice /\ discarded' = {} /\ Len(candidates) <= top_k => offered \subseteq offered'
<1>1. /\ scoping = "walking" /\ walked = Len(seeds) /\ notice' = FALSE /\ scoping' = "selecting"
      /\ relationships' = relationships /\ selector_retries' = selector_retries
      /\ candidates' = candidates /\ seeds' = seeds
      /\ walked' = walked /\ levels' = levels /\ queue' = queue /\ level' = level
      /\ reached_from' = reached_from
  BY DEF Scope!Collect, Scope!walk
<1>2. PICK d, m : Shown(d, m, offered', discarded')
  BY CollectShows
<1>3. PICK off : off = offered'
  OBVIOUS
<1>4. PICK dis : dis = discarded'
  OBVIOUS
<1>5. Shown(d, m, off, dis)
  BY <1>2, <1>3, <1>4
<1>6. /\ Len(d) \in Nat /\ m \in 0 .. Len(d)
      /\ \A i \in 1 .. Len(d) : d[i] \in Found
      /\ \A u \in Found : \E i \in 1 .. Len(d) : d[i] = u
  BY <1>5 DEF Shown, Lists
<1>7. \A i \in 1 .. m : i \in 1 .. Len(d)
  BY <1>6
<1>8. \A i \in m + 1 .. Len(d) : i \in 1 .. Len(d)
  BY <1>6
<1>9. Elements(seeds) \in SUBSET SchemaTable /\ Found \in SUBSET SchemaTable
  BY <1>1, WhatIsNear DEF Found
<1>10. /\ off \subseteq Elements(seeds) \cup Found /\ Elements(seeds) \subseteq off
       /\ dis \subseteq Found /\ Found \subseteq off \cup dis
  <2>1. off \subseteq Elements(seeds) \cup Found /\ Elements(seeds) \subseteq off
    BY <1>5, <1>6, <1>7 DEF Shown
  <2>2. \A t \in dis : t \in Found
    <3>1. \A t \in dis : \E i \in m + 1 .. Len(d) : t = d[i]
      BY <1>5 DEF Shown
    <3>2. QED
      BY <1>6, <1>8, <3>1
  <2>3. \A t \in Found : t \in off \/ t \in dis
    <3>1. \A i \in 1 .. Len(d) : d[i] \in off \/ d[i] \in dis
      BY <1>5 DEF Shown
    <3>2. QED
      BY <1>6, <3>1
  <2>4. QED
    BY <2>1, <2>2, <2>3
<1>11. off \in SUBSET SchemaTable /\ dis \in SUBSET SchemaTable
  BY <1>9, <1>10
<1>12. ScopeTypes'
  <2>1. ScopeTypes
    BY DEF ScopeInv
  <2>2. offered' \subseteq SchemaTable /\ discarded' \subseteq SchemaTable
    BY <1>3, <1>4, <1>11
  <2>3. QED
    BY <1>1, <2>1, <2>2 DEF ScopeTypes
<1>13. Cover' = Cover
  BY <1>1, SameGraph DEF Cover, Known
<1>14. Offers'
  <2>1. offered' \subseteq Cover
    BY <1>1, <1>3, <1>10, CoverIsFound
  <2>2. QED
    BY <1>1, <1>13, <2>1 DEF Offers
<1>15. Scope!Range(seeds) = Elements(seeds)
  BY RangeIs DEF ScopeInv, ScopeTypes
<1>16. Scope!OfferedIsJoinable'
  <2>1. \A t \in off \ Elements(seeds) : \E u \in off : t \in Scope!neighbors(u) /\ level[u] < level[t]
    BY <1>1, <1>5, OfferedAreJoinable
  <2>2. \A u : Scope!neighbors(u)' = Scope!neighbors(u)
    BY <1>1 DEF Scope!neighbors
  <2>3. Scope!Range(seeds)' = Elements(seeds)
    BY <1>1, <1>15
  <2>4. QED
    BY <1>1, <1>3, <2>1, <2>2, <2>3 DEF Scope!OfferedIsJoinable
<1>17. Scope!NearestAreKept'
  <2>1. Scope!Range(seeds)' = Elements(seeds)
    BY <1>1, <1>15
  <2>2. ASSUME NEW t \in off \ Elements(seeds), NEW u \in dis
        PROVE  level[t] <= level[u]
    <3>1. PICK a \in 1 .. m : t = d[a]
      BY <1>5 DEF Shown
    <3>2. PICK b \in m + 1 .. Len(d) : u = d[b]
      BY <1>5 DEF Shown
    <3>3. a \in 1 .. Len(d) /\ b \in 1 .. Len(d) /\ a < b
      BY <1>6
    <3>4. QED
      BY <1>5, <3>1, <3>2, <3>3 DEF Shown
  <2>3. dis # {} => Scope!Cardinality(off) >= max_tables
    <3>1. Scope!Cardinality(off) = Cardinality(off)
      BY Zenon DEF Scope!Cardinality, Cardinality
    <3>2. Len(seeds) + m <= Cardinality(off)
      BY <1>1, <1>5, <1>11, OfferedAreMany
    <3>3. Cardinality(off) \in Nat
      BY <1>11, ScopeConstants, FS_Subset, FS_CardinalityType
    <3>4. Len(seeds) \in Nat /\ m \in Nat /\ max_tables \in Nat
      BY <1>6, ScopeConstants DEF ScopeInv, ScopeTypes
    <3>5. dis # {} => max_tables <= Len(seeds) + m
      BY <1>5 DEF Shown
    <3>6. PICK c \in Nat : c = Cardinality(off)
      BY <3>3
    <3>7. dis # {} => c >= max_tables
      BY <3>2, <3>4, <3>5, <3>6
    <3>8. QED
      BY <3>1, <3>6, <3>7
  <2>4. QED
    BY <1>1, <1>3, <1>4, <1>10, <2>1, <2>2, <2>3 DEF Scope!NearestAreKept
<1>18. ScopeInv'
  <2>1. queue = <<>> \/ walked < Len(seeds)
    BY <1>1 DEF ScopeInv, Walks
  <2>2. Len(seeds) \in Nat
    BY DEF ScopeInv, ScopeTypes
  <2>3. queue' = <<>>
    BY <1>1, <2>1, <2>2
  <2>4. QED
    BY <1>1, <1>12, <1>14, <1>16, <1>17, <2>3 DEF ScopeInv
<1>19. ASSUME ~notice, discarded' = {}, Len(candidates) <= top_k PROVE offered \subseteq offered'
  <2>1. offered \subseteq Cover
    BY <1>19 DEF ScopeInv, Offers
  <2>2. Cover \subseteq Elements(seeds) \cup Found
    BY <1>1, <1>19, CoverIsFound
  <2>3. QED
    BY <1>3, <1>4, <1>10, <1>19, <2>1, <2>2
<1>20. QED
  BY <1>18, <1>19

LEMMA ScopeSteps ==
  ASSUME ScopeInv, Scope!Next
  PROVE  ScopeInv'
  BY SeedSteps, WidenSteps, SeedFailsSteps, WidenFailsSteps, StartWalkSteps, VisitSteps,
     EndWalkSteps, CollectSteps, RetrySteps, ProceedSteps DEF Scope!Next

\* Only a fallback and the end of an attempt change what is offered.
LEMMA WidensAtOnce ==
  ASSUME ScopeInv, Scope!Next, offered' # offered, ~notice, discarded' = {}, Len(candidates) <= top_k
  PROVE  offered \subseteq offered'
<1>1. CASE Scope!Collect
  BY <1>1, CollectSteps
<1>2. ASSUME NEW found, Scope!BeginWalks(found) PROVE Scope!FallBack
  BY <1>2 DEF Scope!BeginWalks
<1>3. CASE Scope!FallBack
  <2>1. offered' = SchemaTable
    BY <1>3 DEF Scope!FallBack
  <2>2. QED
    BY <2>1 DEF ScopeInv, ScopeTypes
<1>4. ~Scope!StartWalk /\ ~Scope!Visit /\ ~Scope!EndWalk /\ ~Scope!Retry /\ ~Scope!Proceed
  BY DEF Scope!StartWalk, Scope!Visit, Scope!EndWalk, Scope!Retry, Scope!Proceed
<1>5. ASSUME NEW similarity, Scope!Seed(similarity) \/ Scope!Widen(similarity) PROVE Scope!FallBack
  BY <1>2, <1>5 DEF Scope!Seed, Scope!Widen
<1>6. Scope!SeedFails \/ Scope!WidenFails => Scope!FallBack
  BY <1>2 DEF Scope!SeedFails, Scope!WidenFails
<1>7. QED
  BY <1>1, <1>3, <1>4, <1>5, <1>6 DEF Scope!Next

-----------------------------------------------------------------------------
(* Spelling: texts and their parts                                         *)

Letter == Word \cup Separator
Outcome == Letter \cup {Checker!Hole}

\* What the text is made of.
Atom == {Checker!Plain(a) : a \in Letter} \cup {Checker!Placeholder(j) : j \in Elements(jargons)}

LEMMA CheckerConstants ==
  /\ Word \cap Separator = {} /\ Technical \subseteq Word /\ Stopword \subseteq Word
  /\ Dictionary \in [Word -> Word] /\ MaxLength \in Nat /\ MaxJargons \in Nat
  /\ \A j \in Jargon :
       /\ Spelled[j] \in Seq(Letter) /\ Len(Spelled[j]) \in Nat \ {0} /\ Length[j] \in Nat
       /\ DOMAIN Spelled[j] = 1 .. Len(Spelled[j])
       /\ \A k \in 1 .. Len(Spelled[j]) : Spelled[j][k] \in Letter
       /\ \A i, k \in 1 .. Len(Spelled[j]) :
            i # k => Checker!Folded(Spelled[j][i]) # Checker!Folded(Spelled[j][k])
<1>1. Checker!Parameters
  BY StagesAssumption
<1>2. /\ Word \cap Separator = {} /\ Technical \subseteq Word /\ Stopword \subseteq Word
      /\ Dictionary \in [Word -> Word] /\ MaxLength \in Nat /\ MaxJargons \in Nat
  BY <1>1 DEF Checker!Parameters
<1>3. ASSUME NEW j \in Jargon
      PROVE  /\ Spelled[j] \in Seq(Letter) /\ Spelled[j] # <<>> /\ Length[j] \in Nat
  BY <1>1 DEF Checker!Parameters, Letter
<1>4. ASSUME NEW j \in Jargon
      PROVE  /\ Len(Spelled[j]) \in Nat \ {0} /\ DOMAIN Spelled[j] = 1 .. Len(Spelled[j])
             /\ \A k \in 1 .. Len(Spelled[j]) : Spelled[j][k] \in Letter
  BY <1>3
<1>5. ASSUME NEW j \in Jargon, NEW i \in 1 .. Len(Spelled[j]), NEW k \in 1 .. Len(Spelled[j]), i # k
      PROVE  Checker!Folded(Spelled[j][i]) # Checker!Folded(Spelled[j][k])
  <2>1. Checker!IsInjective([n \in DOMAIN Spelled[j] |-> Checker!Folded(Spelled[j][n])])
    BY <1>1 DEF Checker!Parameters
  <2>2. i \in DOMAIN Spelled[j] /\ k \in DOMAIN Spelled[j]
    BY <1>4
  <2>3. QED
    BY <1>5, <2>1, <2>2 DEF Checker!IsInjective
<1>6. QED
  BY <1>2, <1>3, <1>4, <1>5

LEMMA Atoms ==
  /\ \A a \in Letter : /\ Checker!Plain(a) \in Atom /\ Checker!Plain(a).text = a
                       /\ Checker!Plain(a).is # "placeholder"
                       /\ Checker!Plain(a).is = "word" => a \in Word
                       /\ a \in Word => Checker!Plain(a).is = "word"
  /\ \A j \in Elements(jargons) : /\ Checker!Placeholder(j) \in Atom
                                  /\ Checker!Placeholder(j).is = "placeholder"
                                  /\ Checker!Placeholder(j).text = j
  /\ \A x \in Atom : /\ x.is \in {"word", "separator", "placeholder"}
                     /\ x.is = "placeholder" => x.text \in Elements(jargons)
                     /\ x.is # "placeholder" => x.text \in Letter /\ x = Checker!Plain(x.text)
                     /\ x.is = "word" => x.text \in Word
<1>1. \A a \in Letter : /\ Checker!Plain(a) \in Atom /\ Checker!Plain(a).text = a
                        /\ Checker!Plain(a).is \in {"word", "separator"}
                        /\ Checker!Plain(a).is = "word" => a \in Word
                        /\ a \in Word => Checker!Plain(a).is = "word"
  BY DEF Atom, Checker!Plain
<1>2. \A j \in Elements(jargons) : /\ Checker!Placeholder(j) \in Atom
                                   /\ Checker!Placeholder(j).is = "placeholder"
                                   /\ Checker!Placeholder(j).text = j
  BY DEF Atom, Checker!Placeholder
<1>3. ASSUME NEW x \in Atom
      PROVE  \/ \E a \in Letter : x = Checker!Plain(a)
             \/ \E j \in Elements(jargons) : x = Checker!Placeholder(j)
  BY DEF Atom
<1>4. QED
  BY <1>1, <1>2, <1>3

\* A part stays a part of what goes on.
LEMMA PartsStay ==
  ASSUME NEW A, NEW t \in Seq(A), NEW u \in Seq(A), NEW s \in Seq(A), Checker!HasPart(t, s)
  PROVE  Checker!HasPart(t \o u, s)
<1>0. DOMAIN t = 1 .. Len(t) /\ DOMAIN s = 1 .. Len(s)
  OBVIOUS
<1>1. PICK i \in 1 .. Len(t) : i + Len(s) - 1 <= Len(t) /\ \A k \in 1 .. Len(s) : t[i + k - 1] = s[k]
  BY <1>0, Zenon DEF Checker!HasPart
<1>2. /\ t \o u \in Seq(A) /\ Len(t \o u) = Len(t) + Len(u) /\ Len(s) \in Nat
      /\ \A k \in 1 .. Len(t) : (t \o u)[k] = t[k]
  BY Joining
<1>3. \A k \in 1 .. Len(s) : i + k - 1 \in 1 .. Len(t)
  BY <1>1, <1>2
<1>4. i \in DOMAIN (t \o u) /\ i + Len(s) - 1 <= Len(t \o u) /\ DOMAIN s = 1 .. Len(s)
  BY <1>1, <1>2
<1>5. QED
  BY <1>1, <1>2, <1>3, <1>4 DEF Checker!HasPart

\* One element.
LEMMA PartOfOne ==
  ASSUME NEW A, NEW t \in Seq(A), NEW x \in A, NEW i \in 1 .. Len(t), t[i] = x
  PROVE  Checker!HasPart(t, <<x>>)
<1>1. i \in DOMAIN t /\ Len(<<x>>) = 1 /\ DOMAIN <<x>> = 1 .. 1 /\ <<x>>[1] = x /\ i + 1 - 1 = i
  OBVIOUS
<1>2. \A k \in 1 .. 1 : k = 1
  OBVIOUS
<1>3. i + 1 - 1 <= Len(t)
  OBVIOUS
<1>4. QED
  BY <1>1, <1>2, <1>3 DEF Checker!HasPart

\* The positions from p to q where t has x.
Places(t, p, q, x) == {i \in p .. q : t[i] = x}
Times(t, p, q, x) == Cardinality(Places(t, p, q, x))

LEMMA PlacesAreFinite ==
  ASSUME NEW t, NEW p \in Int, NEW q \in Int, NEW x
  PROVE  IsFiniteSet(Places(t, p, q, x)) /\ Times(t, p, q, x) \in Nat
<1>1. IsFiniteSet(p .. q)
  BY FS_Interval
<1>2. QED
  BY <1>1, FS_Subset, FS_CardinalityType DEF Places, Times

LEMMA TimesOfNone ==
  ASSUME NEW t, NEW p \in Int, NEW q \in Int, NEW x, \A i \in p .. q : t[i] # x
  PROVE  Times(t, p, q, x) = 0
<1>1. Places(t, p, q, x) = {}
  BY DEF Places
<1>2. QED
  BY <1>1, FS_EmptySet DEF Times

LEMMA TimesSplit ==
  ASSUME NEW t, NEW p \in Int, NEW q \in Int, NEW m \in Int, p - 1 <= m, m <= q, NEW x
  PROVE  Times(t, p, q, x) = Times(t, p, m, x) + Times(t, m + 1, q, x)
<1> DEFINE P == Places(t, p, m, x)
           Q == Places(t, m + 1, q, x)
<1>1. Places(t, p, q, x) = P \cup Q /\ P \cap Q = {}
  BY DEF Places
<1>2. /\ IsFiniteSet(P) /\ IsFiniteSet(Q) /\ Cardinality(P) \in Nat /\ Cardinality(Q) \in Nat
  BY PlacesAreFinite DEF Times
<1>3. Cardinality(P \cup Q) = Cardinality(P) + Cardinality(Q) - Cardinality(P \cap Q)
  <2> HIDE DEF P, Q
  <2> QED
    BY <1>2, FS_Union
<1>4. Cardinality(P \cap Q) = 0
  BY <1>1, FS_EmptySet
<1>5. QED
  <2>1. Times(t, p, q, x) = Cardinality(P \cup Q)
    BY <1>1 DEF Times
  <2>2. Times(t, p, m, x) = Cardinality(P) /\ Times(t, m + 1, q, x) = Cardinality(Q)
    BY DEF Times
  <2> HIDE DEF P, Q
  <2>3. QED
    BY <1>2, <1>3, <1>4, <2>1, <2>2

\* Where t has x, u has y so many places further on.
LEMMA TimesMoved ==
  ASSUME NEW t, NEW p \in Int, NEW q \in Int, NEW x, NEW d \in Int,
         NEW u, NEW l \in Int, NEW r \in Int, NEW y,
         \A i \in p .. q : t[i] = x => i + d \in l .. r /\ u[i + d] = y
  PROVE  Times(t, p, q, x) <= Times(u, l, r, y)
<1> DEFINE P == Places(t, p, q, x)
           Q == Places(u, l, r, y)
           f == [i \in P |-> i + d]
<1>1. \A i \in P : i \in Int /\ i + d \in Q
  BY DEF Places
<1>2. IsFiniteSet(P) /\ IsFiniteSet(Q)
  BY PlacesAreFinite
<1>3. f \in Injection(P, Q)
  <2> HIDE DEF P, Q
  <2>1. f \in [P -> Q] /\ \A i \in P : f[i] = i + d
    BY <1>1
  <2>2. \A i, j \in P : f[i] = f[j] => i = j
    BY <1>1, <2>1
  <2> HIDE DEF f
  <2>3. QED
    BY <2>1, <2>2 DEF Injection, IsInjective
<1>4. Cardinality(P) <= Cardinality(Q)
  <2> HIDE DEF P, Q, f
  <2> QED
    BY <1>2, <1>3, FS_Injection
<1>5. QED
  BY <1>4 DEF Times

LEMMA TimesAreCounted ==
  ASSUME NEW A, NEW t \in Seq(A), NEW x
  PROVE  Checker!Count(t, x) = Times(t, 1, Len(t), x)
<1>1. DOMAIN t = 1 .. Len(t)
  OBVIOUS
<1>2. Checker!Cardinality({i \in DOMAIN t : t[i] = x}) = Cardinality({i \in DOMAIN t : t[i] = x})
  BY Zenon DEF Checker!Cardinality, Cardinality
<1>3. QED
  BY <1>1, <1>2, Zenon DEF Checker!Count, Times, Places

LEMMA GreatestPlace ==
  ASSUME NEW S \in SUBSET Nat, NEW N \in Nat, \A x \in S : x <= N, S # {}
  PROVE  Checker!Max(S) \in S /\ \A x \in S : x <= Checker!Max(S)
<1> DEFINE T == {N - x : x \in S}
<1>1. T \in SUBSET Nat /\ T # {}
  <2>1. \A x \in S : N - x \in Nat
    OBVIOUS
  <2>2. QED
    BY <2>1
<1>2. PICK n \in T : \A m \in T : n <= m
  <2> HIDE DEF T
  <2> QED
    BY <1>1, LeastNumber
<1>3. PICK x \in S : n = N - x
  BY <1>2
<1>4. ASSUME NEW y \in S PROVE x >= y
  <2>1. N - y \in T
    OBVIOUS
  <2>2. n <= N - y
    <3> HIDE DEF T
    <3> QED
      BY <1>2, <2>1
  <2>3. x \in Nat /\ y \in Nat
    OBVIOUS
  <2>4. QED
    BY <1>3, <2>2, <2>3
<1>5. PICK g : g = CHOOSE z \in S : \A y \in S : z >= y
  OBVIOUS
<1>6. g \in S /\ \A y \in S : g >= y
  BY <1>4, <1>5
<1>7. \A y \in S : y <= g
  BY <1>6
<1>8. QED
  BY <1>5, <1>6, <1>7 DEF Checker!Max

LEMMA LeastPlace ==
  ASSUME NEW S \in SUBSET Nat, S # {}
  PROVE  Checker!Min(S) \in S
<1>1. PICK n \in S : \A m \in S : n <= m
  BY LeastNumber
<1>2. QED
  BY <1>1 DEF Checker!Min

-----------------------------------------------------------------------------
(* Spelling: the terms, longest first                                      *)

IsLongest(j) ==
  j \in Elements(jargons) /\ \A k \in Elements(jargons) \ {j} : Length[k] < Length[j]

LEMMA TermsSorted ==
  ASSUME jargons \in Seq(Jargon)
  PROVE  /\ \A k \in 1 .. Len(jargons) : Checker!Sorted[k] \in Elements(jargons)
         /\ \A j : IsLongest(j) => 1 \in 1 .. Len(jargons) /\ Checker!Sorted[1] = j
<1> DEFINE Before(a, b) == \/ Length[jargons[a]] > Length[jargons[b]]
                           \/ Length[jargons[a]] = Length[jargons[b]] /\ a < b
           Up(s) == \A a, b \in DOMAIN s : a < b => Before(s[a], s[b])
           D == 1 .. Len(jargons)
           R == {p \in D \X D : Before(p[1], p[2])}
<1>1. /\ Len(jargons) \in Nat /\ DOMAIN jargons = D
      /\ \A a \in D : a \in Nat /\ jargons[a] \in Jargon /\ Length[jargons[a]] \in Nat
  BY CheckerConstants
<1>2. IsFiniteSet(D) /\ Cardinality(D) = Len(jargons)
  BY <1>1, CountUpTo
<1>3. Orders(R, D)
  <2>1. \A a, b \in D : <<a, b>> \in R <=> Before(a, b)
    OBVIOUS
  <2> HIDE DEF R
  <2>2. \A a \in D : <<a, a>> \notin R
    BY <1>1, <2>1
  <2>3. \A a, b \in D : a = b \/ <<a, b>> \in R \/ <<b, a>> \in R
    <3>1. TAKE a, b \in D
    <3>2. a = b \/ Before(a, b) \/ Before(b, a)
      BY <1>1
    <3> HIDE DEF Before
    <3>3. QED
      BY <2>1, <3>2
  <2>4. \A a, b, c \in D : <<a, b>> \in R /\ <<b, c>> \in R => <<a, c>> \in R
    <3>1. TAKE a, b, c \in D
    <3>2. Before(a, b) /\ Before(b, c) => Before(a, c)
      BY <1>1
    <3> HIDE DEF Before
    <3>3. QED
      BY <2>1, <3>2
  <2> HIDE DEF D
  <2>5. QED
    BY <2>2, <2>3, <2>4 DEF Orders
<1>4. PICK o : Lists(o, D) /\ Follows(o, R)
  <2> HIDE DEF R, D
  <2> QED
    BY <1>2, <1>3, SortedExists
<1>5. Checker!SetToSeqs(D) = Scope!SetToSeqs(D)
  <2>1. Checker!Cardinality(D) = Scope!Cardinality(D)
    BY Zenon DEF Checker!Cardinality, Scope!Cardinality
  <2> HIDE DEF D
  <2>2. QED
    BY <2>1 DEF Checker!SetToSeqs, Scope!SetToSeqs
<1>6. o \in Checker!SetToSeqs(D) /\ Up(o)
  <2>1. \A i, j : <<i, j>> \in R => Before(i, j)
    OBVIOUS
  <2> HIDE DEF R, Before, D
  <2>2. QED
    BY <1>2, <1>4, <1>5, <2>1, ToSeqs DEF Follows
<1>7. PICK order : order = CHOOSE s \in Checker!SetToSeqs(D) : Up(s)
  OBVIOUS
<1>8. order \in Checker!SetToSeqs(D) /\ Up(order)
  <2> HIDE DEF Up, D
  <2> QED
    BY <1>6, <1>7
<1>9. Checker!Sorted = [i \in D |-> jargons[order[i]]]
  BY <1>1, <1>7 DEF Checker!Sorted
<1>10. Lists(order, D)
  <2> HIDE DEF D, Up
  <2> QED
    BY <1>2, <1>5, <1>8, ToSeqs
<1>11. /\ Len(order) = Len(jargons) /\ DOMAIN order = D
       /\ \A i \in D : order[i] \in D
       /\ \A x \in D : \E i \in D : order[i] = x
  BY <1>2, <1>10 DEF Lists
<1>12. ASSUME NEW k \in D PROVE Checker!Sorted[k] \in Elements(jargons)
  <2>1. Checker!Sorted[k] = jargons[order[k]] /\ order[k] \in D
    BY <1>9, <1>11, <1>12
  <2>2. QED
    BY <2>1 DEF Elements
<1>13. ASSUME NEW j, IsLongest(j) PROVE 1 \in D /\ Checker!Sorted[1] = j
  <2>1. PICK a \in D : jargons[a] = j
    BY <1>13 DEF IsLongest, Elements
  <2>2. 1 \in D
    BY <1>1, <2>1
  <2>3. PICK k \in D : order[k] = a
    BY <1>11, <2>1
  <2>4. order[1] \in D /\ Checker!Sorted[1] = jargons[order[1]]
    BY <1>9, <1>11, <2>2
  <2>5. k = 1 \/ 1 < k
    BY <1>1
  <2>6. CASE 1 < k
    <3>1. Before(order[1], a)
      BY <1>8, <1>11, <2>2, <2>3, <2>6
    <3>2. Length[jargons[order[1]]] >= Length[j]
      BY <1>1, <2>1, <2>4, <3>1
    <3>3. jargons[order[1]] \in Elements(jargons)
      BY <2>4 DEF Elements
    <3>4. jargons[order[1]] # j => Length[jargons[order[1]]] < Length[j]
      BY <1>13, <3>3 DEF IsLongest
    <3>5. Length[j] \in Nat /\ Length[jargons[order[1]]] \in Nat
      BY <1>1, <2>1, <2>4
    <3>6. QED
      BY <2>2, <2>4, <3>2, <3>4, <3>5
  <2>7. QED
    BY <2>1, <2>2, <2>3, <2>4, <2>5, <2>6
<1>14. QED
  BY <1>12, <1>13

-----------------------------------------------------------------------------
(* Spelling: what every step keeps                                         *)

Correction == [original : Seq(Outcome), corrected : Seq(Outcome)]

SpellingTypes ==
  /\ question \in Seq(Letter) /\ jargons \in Seq(Jargon) /\ text \in Seq(Atom)
  /\ checking \in {"find", "replace", "words", "done"}
  /\ term \in 1 .. Len(jargons) + 1 /\ matches \in SUBSET (1 .. Len(text))
  /\ position \in 1 .. Len(text) + 1
  /\ corrected \in Seq(Outcome) /\ corrections \in Seq(Correction)
  /\ checking = "replace" => term \in 1 .. Len(jargons)
  /\ checking \in {"find", "replace"} => position = 1
  /\ checking = "done" => position = Len(text) + 1

\* What is no placeholder stands in the question as it stands in the text.
Stretch(i, k) == \A m \in i .. k : text[m].is # "placeholder"
IsWritten(i, k) ==
  \E d \in Int : \A m \in i .. k : m + d \in 1 .. Len(question) /\ text[m] = Checker!Plain(question[m + d])
Stretches == \A i, k \in 1 .. Len(text) : Stretch(i, k) => IsWritten(i, k)

\* A term that is still to be replaced still stands there.
Fits(j, i) ==
  /\ i + Len(Spelled[j]) - 1 <= Len(text)
  /\ \A k \in 1 .. Len(Spelled[j]) :
       /\ text[i + k - 1].is # "placeholder"
       /\ Checker!Folded(text[i + k - 1].text) = Checker!Folded(Spelled[j][k])
Fitting == checking = "replace" => \A i \in matches : Fits(Checker!Sorted[term], i)

\* The corrected question has s, or will have it.
Awaited(s) == \E i \in position .. Len(text) : text[i].is = "placeholder" /\ Spelled[text[i].text] = s
Visible(s) == \/ Checker!HasPart(corrected, s)
              \/ Checker!HasPart(corrected, <<Checker!Hole>>)
              \/ Awaited(s)

CorrectionsShow ==
  \A i \in 1 .. Len(corrections) :
    /\ Checker!HasPart(question, corrections[i].original)
    /\ Visible(corrections[i].corrected)

IsUsed(j) ==
  IsLongest(j) /\ \E i \in 1 .. Len(question) :
                    Checker!Occurs([n \in DOMAIN question |-> Checker!Plain(question[n])], j, i)
LongestShows ==
  \A j : IsUsed(j) =>
    \/ checking = "find" /\ term = 1 /\ text = [n \in DOMAIN question |-> Checker!Plain(question[n])]
    \/ checking = "replace" /\ term = 1 /\ matches # {}
    \/ Visible(Spelled[j])

\* The words that are left as they are, in the question and in what comes of it.
Left == {w \in Technical \cup Stopword : ~Checker!InJargon(w)}
ExemptCounted ==
  \A w \in Left :
    Times(question, 1, Len(question), w)
      <= Times(corrected, 1, Len(corrected), w) + Times(text, position, Len(text), Checker!Plain(w))

SpellingInv == SpellingTypes /\ Stretches /\ Fitting /\ CorrectionsShow /\ LongestShows /\ ExemptCounted

LEMMA SpellingInit == Checker!Init => SpellingInv
<1> SUFFICES ASSUME Checker!Init PROVE SpellingInv
  OBVIOUS
<1>1. /\ checking = "find" /\ term = 1 /\ matches = {} /\ position = 1 /\ corrected = <<>>
      /\ corrections = <<>> /\ text = [i \in DOMAIN question |-> Checker!Plain(question[i])]
  BY DEF Checker!Init
<1>2. question \in Seq(Letter)
  <2>1. PICK n \in 0 .. MaxLength : question \in [1 .. n -> Letter]
    BY DEF Checker!Init, Letter
  <2>2. n \in Nat
    BY CheckerConstants
  <2>3. QED
    BY <2>1, <2>2, ListOf
<1>3. jargons \in Seq(Jargon)
  <2>1. PICK n \in 0 .. MaxJargons : jargons \in [1 .. n -> Jargon]
    BY DEF Checker!Init
  <2>2. n \in Nat
    BY CheckerConstants
  <2>3. QED
    BY <2>1, <2>2, ListOf
<1>4. /\ Len(question) \in Nat /\ Len(jargons) \in Nat /\ DOMAIN question = 1 .. Len(question)
      /\ \A i \in 1 .. Len(question) : question[i] \in Letter
  BY <1>2, <1>3
<1>5. /\ text \in [1 .. Len(question) -> Atom]
      /\ \A i \in 1 .. Len(question) : text[i] = Checker!Plain(question[i])
  BY <1>1, <1>4, Atoms
<1>6. text \in Seq(Atom) /\ Len(text) = Len(question)
  BY <1>4, <1>5, ListOf
<1>7. SpellingTypes
  BY <1>1, <1>2, <1>3, <1>4, <1>6 DEF SpellingTypes
<1>8. ASSUME NEW i \in 1 .. Len(text), NEW k \in 1 .. Len(text) PROVE IsWritten(i, k)
  <2>1. \A m \in i .. k : m + 0 \in 1 .. Len(question) /\ text[m] = Checker!Plain(question[m + 0])
    BY <1>4, <1>5, <1>6
  <2>2. 0 \in Int
    OBVIOUS
  <2>3. QED
    BY ONLY <2>1, <2>2 DEF IsWritten
<1>9. Fitting /\ CorrectionsShow
  BY <1>1 DEF Fitting, CorrectionsShow
<1>10. LongestShows
  BY <1>1 DEF LongestShows
<1>11. ASSUME NEW w \in Left
       PROVE  Times(question, 1, Len(question), w)
                <= Times(corrected, 1, Len(corrected), w)
                     + Times(text, position, Len(text), Checker!Plain(w))
  <2>1. \A i \in 1 .. Len(question) :
          question[i] = w => i + 0 \in 1 .. Len(text) /\ text[i + 0] = Checker!Plain(w)
    BY <1>4, <1>5, <1>6
  <2>2. /\ 1 \in Int /\ 0 \in Int /\ Len(question) \in Int /\ Len(text) \in Int
        /\ Len(corrected) \in Int
    BY <1>1, <1>4, <1>6
  <2>3. Times(question, 1, Len(question), w) <= Times(text, 1, Len(text), Checker!Plain(w))
    BY ONLY <2>1, <2>2, TimesMoved
  <2>4. /\ Times(corrected, 1, Len(corrected), w) \in Nat
        /\ Times(question, 1, Len(question), w) \in Nat
        /\ Times(text, 1, Len(text), Checker!Plain(w)) \in Nat
    BY ONLY <2>2, PlacesAreFinite
  <2>5. QED
    BY ONLY <1>1, <2>3, <2>4
<1>12. QED
  BY <1>7, <1>8, <1>9, <1>10, <1>11 DEF SpellingInv, Stretches, ExemptCounted

-----------------------------------------------------------------------------
(* Spelling: one occurrence is replaced                                    *)

\* t with x for its n elements at i.
With(t, i, n, x) == SubSeq(t, 1, i - 1) \o <<x>> \o SubSeq(t, i + n, Len(t))

LEMMA Replacing ==
  ASSUME NEW A, NEW t \in Seq(A), NEW x \in A, NEW i \in 1 .. Len(t), NEW n \in Nat \ {0},
         i + n - 1 <= Len(t)
  PROVE  /\ With(t, i, n, x) \in Seq(A) /\ Len(With(t, i, n, x)) = Len(t) - n + 1
         /\ With(t, i, n, x)[i] = x /\ i \in 1 .. Len(With(t, i, n, x))
         /\ \A m \in 1 .. i - 1 : With(t, i, n, x)[m] = t[m]
         /\ \A m \in i + 1 .. Len(With(t, i, n, x)) : With(t, i, n, x)[m] = t[m + n - 1]
<1>0. PICK u : u = With(t, i, n, x)
  OBVIOUS
<1> DEFINE a == SubSeq(t, 1, i - 1)
           b == <<x>>
           c == SubSeq(t, i + n, Len(t))
<1>1. Len(t) \in Nat /\ i \in Nat /\ n \in Nat /\ i + n - 1 <= Len(t) /\ 1 <= i /\ 1 <= n /\ i <= Len(t)
  OBVIOUS
<1>2. a \in Seq(A) /\ Len(a) = i - 1 /\ \A m \in 1 .. i - 1 : a[m] = t[m]
  BY <1>1
<1>3. b \in Seq(A) /\ Len(b) = 1 /\ b[1] = x
  OBVIOUS
<1>4. c \in Seq(A) /\ Len(c) = Len(t) - (i + n) + 1 /\ \A m \in 1 .. Len(c) : c[m] = t[m + (i + n) - 1]
  BY <1>1
<1> HIDE DEF a, b, c
<1>5. /\ a \o b \in Seq(A) /\ Len(a \o b) = i
      /\ \A m \in 1 .. i - 1 : (a \o b)[m] = a[m]
      /\ (a \o b)[i] = x
  <2>1. a \in Seq(A) /\ b \in Seq(A)
    BY <1>2, <1>3
  <2>2. /\ a \o b \in Seq(A) /\ Len(a \o b) = Len(a) + Len(b)
        /\ \A m \in 1 .. Len(a) : (a \o b)[m] = a[m]
        /\ \A m \in 1 .. Len(b) : (a \o b)[Len(a) + m] = b[m]
    BY ONLY <2>1, Joining
  <2>3. 1 \in 1 .. Len(b) /\ Len(a) + 1 = i /\ Len(a) = i - 1 /\ Len(b) = 1 /\ b[1] = x
    BY <1>1, <1>2, <1>3
  <2>4. QED
    BY ONLY <2>2, <2>3
<1>6. /\ u \in Seq(A) /\ Len(u) = i + Len(c)
      /\ \A m \in 1 .. i : u[m] = (a \o b)[m]
      /\ \A m \in 1 .. Len(c) : u[i + m] = c[m]
  <2>1. u = (a \o b) \o c
    BY <1>0 DEF With, a, b, c
  <2>2. a \o b \in Seq(A) /\ c \in Seq(A) /\ Len(a \o b) = i
    BY <1>4, <1>5
  <2>3. PICK ab : ab = a \o b
    OBVIOUS
  <2>5. ab \in Seq(A) /\ c \in Seq(A)
    BY ONLY <2>2, <2>3
  <2>4. /\ ab \o c \in Seq(A) /\ Len(ab \o c) = Len(ab) + Len(c)
        /\ \A m \in 1 .. Len(ab) : (ab \o c)[m] = ab[m]
        /\ \A m \in 1 .. Len(c) : (ab \o c)[Len(ab) + m] = c[m]
    BY ONLY <2>5, Joining
  <2>6. QED
    BY ONLY <2>1, <2>2, <2>3, <2>4
<1>7. Len(u) = Len(t) - n + 1 /\ i \in 1 .. Len(u)
  BY ONLY <1>1, <1>4, <1>6
<1>8. \A m \in 1 .. i - 1 : u[m] = t[m]
  <2>1. \A m \in 1 .. i - 1 : m \in 1 .. i
    BY ONLY <1>1
  <2>2. QED
    BY ONLY <1>2, <1>5, <1>6, <2>1
<1>9. u[i] = x
  <2>1. i \in 1 .. i
    BY ONLY <1>1
  <2>2. QED
    BY ONLY <1>5, <1>6, <2>1
<1>10. ASSUME NEW m \in i + 1 .. Len(u) PROVE u[m] = t[m + n - 1]
  <2>1. m - i \in 1 .. Len(c) /\ i + (m - i) = m /\ (m - i) + (i + n) - 1 = m + n - 1
    <3>1. Len(u) = i + Len(c) /\ Len(c) \in Nat
      <4>1. c \in Seq(A)
        BY ONLY <1>4
      <4>2. QED
        BY ONLY <1>6, <4>1
    <3>2. m \in i + 1 .. i + Len(c)
      BY ONLY <1>10, <3>1
    <3>3. QED
      BY ONLY <1>1, <3>1, <3>2
  <2>2. u[i + (m - i)] = c[m - i] /\ c[m - i] = t[(m - i) + (i + n) - 1]
    BY <1>4, <1>6, <2>1
  <2>3. QED
    BY <2>1, <2>2
<1>11. QED
  BY <1>0, <1>6, <1>7, <1>8, <1>9, <1>10

\* The occurrence that is replaced next, the term and its size.
Last == Checker!Max(matches)
Term == Checker!Sorted[term]
Size == Len(Spelled[Term])

LEMMA LastMatch ==
  ASSUME SpellingInv, checking = "replace", matches # {}
  PROVE  /\ Last \in matches /\ Last \in 1 .. Len(text) /\ Len(text) \in Nat
         /\ Term \in Jargon /\ Term \in Elements(jargons)
         /\ Size \in Nat \ {0} /\ Last + Size - 1 <= Len(text) /\ Fits(Term, Last)
         /\ \A m \in matches \ {Last} : m + Size - 1 < Last /\ m \in 1 .. Len(text) /\ Fits(Term, m)
<1>1. SpellingTypes /\ \A m \in matches : Fits(Term, m)
  BY DEF SpellingInv, Fitting, Term
<1>2. /\ matches \in SUBSET (1 .. Len(text)) /\ Len(text) \in Nat
      /\ jargons \in Seq(Jargon) /\ term \in 1 .. Len(jargons)
  BY <1>1 DEF SpellingTypes
<1>3. Last \in matches /\ \A m \in matches : m <= Last
  <2>1. matches \in SUBSET Nat /\ \A m \in matches : m <= Len(text)
    BY <1>2
  <2>2. QED
    BY <1>2, <2>1, GreatestPlace DEF Last
<1>4. Term \in Elements(jargons) /\ Term \in Jargon
  <2>1. Term \in Elements(jargons)
    BY <1>2, TermsSorted DEF Term
  <2>2. \A x \in Elements(jargons) : x \in Jargon
    BY <1>2 DEF Elements
  <2>3. QED
    BY <2>1, <2>2
<1>5. /\ Size \in Nat \ {0}
      /\ \A a, k \in 1 .. Size :
           a # k => Checker!Folded(Spelled[Term][a]) # Checker!Folded(Spelled[Term][k])
  BY <1>4, CheckerConstants DEF Size
<1>6. Last \in 1 .. Len(text) /\ Fits(Term, Last) /\ Last + Size - 1 <= Len(text)
  BY <1>1, <1>2, <1>3 DEF Fits, Size
<1>7. ASSUME NEW m \in matches \ {Last}
      PROVE  m + Size - 1 < Last /\ m \in 1 .. Len(text) /\ Fits(Term, m)
  <2>1. Fits(Term, m) /\ m \in 1 .. Len(text) /\ m < Last
    BY <1>1, <1>2, <1>3
  <2>2. CASE m + Size - 1 >= Last
    <3>1. /\ Last - m + 1 \in 1 .. Size /\ 1 \in 1 .. Size /\ Last - m + 1 # 1
          /\ m + (Last - m + 1) - 1 = Last /\ Last + 1 - 1 = Last
      BY <1>2, <1>5, <1>6, <2>1, <2>2
    <3>2. Checker!Folded(text[m + (Last - m + 1) - 1].text) = Checker!Folded(Spelled[Term][Last - m + 1])
      BY <2>1, <3>1 DEF Fits, Size
    <3>3. Checker!Folded(text[Last + 1 - 1].text) = Checker!Folded(Spelled[Term][1])
      BY <1>6, <3>1 DEF Fits, Size
    <3>4. QED
      BY <1>5, <3>1, <3>2, <3>3
  <2>3. QED
    BY <1>2, <1>5, <1>6, <2>1, <2>2
<1>8. QED
  BY <1>2, <1>3, <1>4, <1>5, <1>6, <1>7

Putting ==
  checking = "replace" /\ matches # {} /\ Checker!Replace

\* The text after it is replaced.
LEMMA TextReplaced ==
  ASSUME SpellingInv, Putting
  PROVE  /\ UNCHANGED <<question, jargons, checking, term, position, corrected>>
         /\ matches' = matches \ {Last} /\ Atom' = Atom
         /\ text' \in Seq(Atom) /\ Len(text') = Len(text) - Size + 1 /\ Len(text') \in Nat
         /\ Last \in 1 .. Len(text') /\ text'[Last] = Checker!Placeholder(Term)
         /\ \A m \in 1 .. Last - 1 : text'[m] = text[m]
         /\ \A m \in Last + 1 .. Len(text') : text'[m] = text[m + Size - 1]
<1>1. /\ Last \in 1 .. Len(text) /\ Term \in Elements(jargons)
      /\ Size \in Nat \ {0} /\ Last + Size - 1 <= Len(text)
  BY LastMatch DEF Putting
<1>2. PICK x : x = Checker!Placeholder(Term)
  OBVIOUS
<1>3. /\ UNCHANGED <<question, jargons, checking, term, position, corrected>>
      /\ matches' = matches \ {Last}
      /\ text' = SubSeq(text, 1, Last - 1) \o <<x>> \o SubSeq(text, Last + Size, Len(text))
  BY <1>2 DEF Putting, Checker!Replace, Checker!Replaced, Last, Size, Term
<1>4. text \in Seq(Atom) /\ x \in Atom
  BY <1>1, <1>2, Atoms DEF SpellingInv, SpellingTypes
<1>5. Atom' = Atom
  BY <1>3 DEF Atom, Elements
<1>6. text' = With(text, Last, Size, x)
  BY <1>3 DEF With
<1>7. /\ With(text, Last, Size, x) \in Seq(Atom)
      /\ Len(With(text, Last, Size, x)) = Len(text) - Size + 1
      /\ With(text, Last, Size, x)[Last] = x /\ Last \in 1 .. Len(With(text, Last, Size, x))
      /\ \A m \in 1 .. Last - 1 : With(text, Last, Size, x)[m] = text[m]
      /\ \A m \in Last + 1 .. Len(With(text, Last, Size, x)) :
           With(text, Last, Size, x)[m] = text[m + Size - 1]
  <2>1. Last \in 1 .. Len(text) /\ Size \in Nat \ {0} /\ Last + Size - 1 <= Len(text)
    BY <1>1
  <2>2. text \in Seq(Atom) /\ x \in Atom
    BY <1>4
  <2>3. QED
    BY ONLY <2>1, <2>2, Replacing
<1>8. Len(With(text, Last, Size, x)) \in Nat
  BY <1>7
<1>9. QED
  BY <1>2, <1>3, <1>5, <1>6, <1>7, <1>8

\* What was written beside the occurrence is still there.
LEMMA StretchesStay ==
  ASSUME SpellingInv, Putting
  PROVE  Stretches'
<1>1. /\ Last \in 1 .. Len(text) /\ Len(text) \in Nat /\ Term \in Elements(jargons)
      /\ Size \in Nat \ {0} /\ Last + Size - 1 <= Len(text)
  BY LastMatch DEF Putting
<1>2. /\ question' = question /\ Len(text') = Len(text) - Size + 1 /\ Len(text') \in Nat
      /\ Last \in 1 .. Len(text') /\ text'[Last] = Checker!Placeholder(Term)
      /\ \A m \in 1 .. Last - 1 : text'[m] = text[m]
      /\ \A m \in Last + 1 .. Len(text') : text'[m] = text[m + Size - 1]
  BY TextReplaced
<1>3. ASSUME NEW l \in 1 .. Len(text'), NEW k \in 1 .. Len(text'), Stretch(l, k)'
      PROVE  IsWritten(l, k)'
  <2>1. Last \notin l .. k
    <3>1. text'[Last].is = "placeholder"
      BY <1>1, <1>2, Atoms
    <3>2. QED
      BY <1>3, <3>1 DEF Stretch
  <2>2. CASE k < Last
    <3>1. l \in 1 .. Len(text) /\ k \in 1 .. Len(text) /\ \A m \in l .. k : m \in 1 .. Last - 1
      BY <1>1, <1>2, <2>2
    <3>2. Stretch(l, k)
      BY <1>2, <1>3, <3>1 DEF Stretch
    <3>3. PICK d \in Int : \A m \in l .. k : m + d \in 1 .. Len(question)
                                             /\ text[m] = Checker!Plain(question[m + d])
      BY <3>1, <3>2 DEF SpellingInv, Stretches, IsWritten
    <3>4. \A m \in l .. k : m + d \in 1 .. Len(question') /\ text'[m] = Checker!Plain(question'[m + d])
      BY <1>2, <3>1, <3>3
    <3>5. QED
      BY <3>4 DEF IsWritten
  <2>3. CASE Last < l
    <3>1. /\ l + Size - 1 \in 1 .. Len(text) /\ k + Size - 1 \in 1 .. Len(text)
          /\ \A m \in l .. k : m \in Last + 1 .. Len(text') /\ m + Size - 1 \in l + Size - 1 .. k + Size - 1
                               /\ m \in Int
          /\ \A m \in l + Size - 1 .. k + Size - 1 : m - Size + 1 \in l .. k /\ (m - Size + 1) + Size - 1 = m
      BY <1>1, <1>2, <2>3
    <3>2. ASSUME NEW m \in l + Size - 1 .. k + Size - 1 PROVE text[m].is # "placeholder"
      <4>1. text'[m - Size + 1] = text[m]
        BY <1>2, <3>1
      <4>2. text'[m - Size + 1].is # "placeholder"
        BY <1>3, <3>1 DEF Stretch
      <4>3. QED
        BY <4>1, <4>2
    <3>3. PICK d \in Int : \A m \in l + Size - 1 .. k + Size - 1 :
                             /\ m + d \in 1 .. Len(question)
                             /\ text[m] = Checker!Plain(question[m + d])
      BY <3>1, <3>2 DEF SpellingInv, Stretches, Stretch, IsWritten
    <3>4. \A m \in l .. k : (m + Size - 1) + d = m + (d + Size - 1)
      BY <1>1, <3>1, <3>3
    <3>5. \A m \in l .. k : /\ m + (d + Size - 1) \in 1 .. Len(question')
                            /\ text'[m] = Checker!Plain(question'[m + (d + Size - 1)])
      BY <1>2, <3>1, <3>3, <3>4
    <3>6. d + Size - 1 \in Int
      BY <1>1
    <3>7. QED
      BY ONLY <3>5, <3>6 DEF IsWritten
  <2>4. CASE k < l
    <3>1. \A m \in l .. k : FALSE
      BY <1>2, <2>4
    <3>2. 0 \in Int
      OBVIOUS
    <3>3. QED
      BY <3>1, <3>2 DEF IsWritten
  <2>5. QED
    BY <1>1, <1>2, <2>1, <2>2, <2>3, <2>4
<1>4. QED
  BY <1>3 DEF Stretches

LEMMA SameTerms == ASSUME jargons' = jargons PROVE Checker!Sorted' = Checker!Sorted
  BY DEF Checker!Sorted

LEMMA FittingStays ==
  ASSUME SpellingInv, Putting
  PROVE  Fitting'
<1>1. /\ term' = term /\ jargons' = jargons /\ matches' = matches \ {Last}
      /\ \A m \in 1 .. Last - 1 : text'[m] = text[m]
      /\ Len(text') = Len(text) - Size + 1 /\ Last \in 1 .. Len(text')
  BY TextReplaced
<1>2. /\ Last \in 1 .. Len(text) /\ Len(text) \in Nat /\ Size \in Nat \ {0}
      /\ \A m \in matches \ {Last} : m + Size - 1 < Last /\ m \in 1 .. Len(text) /\ Fits(Term, m)
  BY LastMatch DEF Putting
<1>3. ASSUME NEW m \in matches' PROVE Fits(Term, m)'
  <2>1. /\ m + Size - 1 < Last /\ m \in 1 .. Len(text) /\ Fits(Term, m)
    BY <1>1, <1>2
  <2>2. \A k \in 1 .. Size : m + k - 1 \in 1 .. Last - 1 /\ text'[m + k - 1] = text[m + k - 1]
    BY <1>1, <1>2, <2>1
  <2>3. m + Size - 1 <= Len(text')
    BY <1>1, <1>2, <2>1
  <2>4. Term' = Term
    BY <1>1, SameTerms DEF Term
  <2>5. \A k \in 1 .. Size : /\ text[m + k - 1].is # "placeholder"
                             /\ Checker!Folded(text[m + k - 1].text) = Checker!Folded(Spelled[Term][k])
    BY <2>1 DEF Fits, Size
  <2>6. \A k \in 1 .. Size : /\ text'[m + k - 1].is # "placeholder"
                             /\ Checker!Folded(text'[m + k - 1].text) = Checker!Folded(Spelled[Term][k])
    BY <2>2, <2>5
  <2>7. QED
    BY <2>3, <2>4, <2>6 DEF Fits, Size
<1>4. QED
  BY <1>3 DEF Fitting, Term

LEMMA SeenStays ==
  ASSUME SpellingInv, Putting, NEW s, Visible(s)
  PROVE  Visible(s)'
<1>1. /\ corrected' = corrected /\ position' = position
      /\ \A m \in 1 .. Last - 1 : text'[m] = text[m]
      /\ \A m \in Last + 1 .. Len(text') : text'[m] = text[m + Size - 1]
      /\ Len(text') = Len(text) - Size + 1 /\ Last \in 1 .. Len(text')
  BY TextReplaced
<1>2. /\ Last \in 1 .. Len(text) /\ Len(text) \in Nat /\ Size \in Nat \ {0} /\ Fits(Term, Last)
  BY LastMatch DEF Putting
<1>3. position = 1
  BY DEF SpellingInv, SpellingTypes, Putting
<1>4. CASE Awaited(s)
  <2>1. PICK i \in 1 .. Len(text) : text[i].is = "placeholder" /\ Spelled[text[i].text] = s
    BY <1>3, <1>4 DEF Awaited
  <2>2. \A m \in Last .. Last + Size - 1 : text[m].is # "placeholder"
    <3>1. TAKE m \in Last .. Last + Size - 1
    <3>2. m - Last + 1 \in 1 .. Size /\ Last + (m - Last + 1) - 1 = m
      BY <1>2
    <3>3. text[Last + (m - Last + 1) - 1].is # "placeholder"
      BY <1>2, <3>2 DEF Fits, Size
    <3>4. QED
      BY <3>2, <3>3
  <2>3. i < Last \/ i > Last + Size - 1
    BY <1>2, <2>1, <2>2
  <2>4. CASE i < Last
    <3>1. text'[i] = text[i] /\ i \in 1 .. Len(text')
      BY <1>1, <1>2, <2>1, <2>4
    <3>2. QED
      BY <1>1, <1>3, <2>1, <3>1 DEF Visible, Awaited
  <2>5. CASE i > Last + Size - 1
    <3>1. i - Size + 1 \in Last + 1 .. Len(text') /\ (i - Size + 1) + Size - 1 = i
      BY <1>1, <1>2, <2>1, <2>5
    <3>2. text'[i - Size + 1] = text[i] /\ i - Size + 1 \in 1 .. Len(text')
      BY <1>1, <1>2, <3>1
    <3>3. QED
      BY <1>1, <1>3, <2>1, <3>2 DEF Visible, Awaited
  <2>6. QED
    BY <2>3, <2>4, <2>5
<1>5. CASE Checker!HasPart(corrected, s) \/ Checker!HasPart(corrected, <<Checker!Hole>>)
  BY <1>1, <1>5 DEF Visible
<1>6. QED
  BY <1>4, <1>5 DEF Visible

LEMMA TermIsSeen ==
  ASSUME SpellingInv, Putting
  PROVE  Visible(Spelled[Term])'
<1>1. /\ position' = position /\ Last \in 1 .. Len(text') /\ text'[Last] = Checker!Placeholder(Term)
  BY TextReplaced
<1>2. Term \in Elements(jargons)
  BY LastMatch DEF Putting
<1>3. text'[Last].is = "placeholder" /\ text'[Last].text = Term
  BY <1>1, <1>2, Atoms
<1>4. position = 1
  BY DEF SpellingInv, SpellingTypes, Putting
<1>5. PICK s : s = Spelled[Term]
  OBVIOUS
<1>6. Visible(s)'
  BY <1>1, <1>3, <1>4, <1>5 DEF Visible, Awaited
<1>7. Term' = Term
  <2>1. jargons' = jargons /\ term' = term
    BY TextReplaced
  <2>2. QED
    BY <2>1, SameTerms DEF Term
<1>8. QED
  BY <1>5, <1>6, <1>7

\* What was found is what the user wrote.
LEMMA FoundIsWritten ==
  ASSUME SpellingInv, Putting, NEW f, f = Checker!Found(text, Last, Term)
  PROVE  /\ f \in Seq(Letter) /\ f # <<>>
         /\ Checker!HasPart(question, f)
<1>1. /\ Last \in 1 .. Len(text) /\ Len(text) \in Nat /\ Term \in Jargon
      /\ Size \in Nat \ {0} /\ Last + Size - 1 <= Len(text) /\ Fits(Term, Last)
  BY LastMatch DEF Putting
<1>2. text \in Seq(Atom) /\ question \in Seq(Letter)
  BY DEF SpellingInv, SpellingTypes
<1>3. f = [k \in 1 .. Size |-> text[Last + k - 1].text]
  BY <1>1, CheckerConstants DEF Checker!Found, Size
<1>4. \A k \in 1 .. Size : /\ Last + k - 1 \in 1 .. Len(text) /\ text[Last + k - 1] \in Atom
                           /\ text[Last + k - 1].is # "placeholder"
  BY <1>1, <1>2 DEF Fits, Size
<1>5. f \in [1 .. Size -> Letter]
  BY <1>3, <1>4, Atoms
<1>6. f \in Seq(Letter) /\ Len(f) = Size
  BY <1>1, <1>5, ListOf
<1>7. f # <<>> /\ DOMAIN f = 1 .. Size /\ 1 \in 1 .. Size
  BY <1>1, <1>6
<1>8. PICK d \in Int : \A m \in Last .. Last + Size - 1 :
                         /\ m + d \in 1 .. Len(question)
                         /\ text[m] = Checker!Plain(question[m + d])
  <2>1. Last + Size - 1 \in 1 .. Len(text)
    BY <1>1
  <2>2. ASSUME NEW m \in Last .. Last + Size - 1 PROVE text[m].is # "placeholder"
    <3>1. m - Last + 1 \in 1 .. Size /\ Last + (m - Last + 1) - 1 = m
      BY <1>1, <2>2
    <3>2. QED
      BY <1>4, <3>1
  <2>3. Stretch(Last, Last + Size - 1)
    BY <2>2 DEF Stretch
  <2>4. IsWritten(Last, Last + Size - 1)
    BY <1>1, <2>1, <2>3 DEF SpellingInv, Stretches
  <2>5. QED
    BY <2>4 DEF IsWritten
<1>9. ASSUME NEW k \in 1 .. Size
      PROVE  (Last + d) + k - 1 \in 1 .. Len(question) /\ question[(Last + d) + k - 1] = f[k]
  <2>1. /\ Last + k - 1 \in Last .. Last + Size - 1 /\ (Last + k - 1) + d = (Last + d) + k - 1
        /\ (Last + d) + k - 1 \in Int
    BY <1>1, <1>8, <1>9
  <2>2. /\ (Last + d) + k - 1 \in 1 .. Len(question)
        /\ text[Last + k - 1] = Checker!Plain(question[(Last + d) + k - 1])
    BY <1>8, <2>1
  <2>3. question[(Last + d) + k - 1] \in Letter
    BY <1>2, <2>2
  <2>4. f[k] = text[Last + k - 1].text
    BY <1>3, <1>9
  <2>5. QED
    BY <2>2, <2>3, <2>4, Atoms
<1>10. /\ Last + d \in 1 .. Len(question) /\ (Last + d) + Size - 1 <= Len(question)
  <2>1. Size \in 1 .. Size /\ (Last + d) + 1 - 1 = Last + d
    BY <1>1, <1>8
  <2>2. (Last + d) + Size - 1 \in 1 .. Len(question) /\ Last + d \in 1 .. Len(question)
    BY <1>7, <1>9, <2>1
  <2>3. QED
    BY <2>2
<1>11. DOMAIN question = 1 .. Len(question)
  BY <1>2
<1>12. QED
  BY <1>6, <1>7, <1>9, <1>10, <1>11, Zenon DEF Checker!HasPart

\* What Correct adds to the corrections.
LEMMA Corrects ==
  ASSUME SpellingInv, NEW f \in Seq(Outcome), NEW s \in Seq(Outcome), Checker!Correct(f, s)
  PROVE  /\ corrections' \in Seq(Correction)
         /\ \A i \in 1 .. Len(corrections') :
              \/ i \in 1 .. Len(corrections) /\ corrections'[i] = corrections[i]
              \/ corrections'[i].original = f /\ corrections'[i].corrected = s
<1>1. corrections \in Seq(Correction)
  BY DEF SpellingInv, SpellingTypes
<1>2. PICK c : c = [original |-> f, corrected |-> s]
  OBVIOUS
<1>3. c \in Correction /\ c.original = f /\ c.corrected = s
  BY <1>2 DEF Correction
<1>4. CASE f = s
  BY <1>1, <1>4 DEF Checker!Correct
<1>5. CASE f # s
  <2>1. corrections' = Append(corrections, c)
    BY <1>2, <1>5 DEF Checker!Correct
  <2>2. corrections' \in Seq(Correction) /\ Len(corrections') = Len(corrections) + 1
        /\ corrections'[Len(corrections) + 1] = c
        /\ \A i \in 1 .. Len(corrections) : corrections'[i] = corrections[i]
    BY <1>1, <1>3, <2>1
  <2>3. \A i \in 1 .. Len(corrections) + 1 : i \in 1 .. Len(corrections) \/ i = Len(corrections) + 1
    BY <1>1
  <2>4. QED
    BY <1>3, <2>2, <2>3
<1>6. QED
  BY <1>4, <1>5

\* The corrections that were shown still are, and so is a new one.
LEMMA CorrectionsStayShown ==
  ASSUME SpellingInv, question' = question,
         \A s : Visible(s) => Visible(s)',
         \A i \in 1 .. Len(corrections') :
           \/ i \in 1 .. Len(corrections) /\ corrections'[i] = corrections[i]
           \/ /\ Checker!HasPart(question, corrections'[i].original)
              /\ \E s : corrections'[i].corrected = s /\ Visible(s)'
  PROVE  CorrectionsShow'
<1>1. ASSUME NEW i \in 1 .. Len(corrections')
      PROVE  /\ Checker!HasPart(question, corrections'[i].original)
             /\ \E s : corrections'[i].corrected = s /\ Visible(s)'
  <2>1. CASE i \in 1 .. Len(corrections) /\ corrections'[i] = corrections[i]
    BY <2>1 DEF SpellingInv, CorrectionsShow
  <2>2. QED
    BY <1>1, <2>1
<1>2. ASSUME NEW i \in 1 .. Len(corrections')
      PROVE  Checker!HasPart(question', corrections'[i].original) /\ Visible(corrections[i].corrected)'
  <2>1. PICK s : corrections'[i].corrected = s /\ Visible(s)'
    BY <1>1
  <2>2. Visible(corrections[i].corrected)'
    BY <2>1 DEF Visible, Awaited
  <2>3. QED
    BY <1>1, <2>2
<1>3. QED
  BY <1>2 DEF CorrectionsShow, Checker!HasPart

LEMMA LetterOutcome == \A s \in Seq(Letter) : s \in Seq(Outcome)
  BY DEF Outcome

\* Nothing that was left is in an occurrence.
LEMMA LeftOutside ==
  ASSUME SpellingInv, Putting, NEW w \in Left, NEW m \in Last .. Last + Size - 1
  PROVE  text[m] # Checker!Plain(w)
<1>1. /\ Last \in 1 .. Len(text) /\ Len(text) \in Nat /\ Term \in Elements(jargons)
      /\ Size \in Nat \ {0} /\ Fits(Term, Last) /\ Term \in Jargon
  BY LastMatch DEF Putting
<1>2. m - Last + 1 \in 1 .. Size /\ Last + (m - Last + 1) - 1 = m
  BY <1>1
<1>3. Checker!Folded(text[m].text) = Checker!Folded(Spelled[Term][m - Last + 1])
  BY <1>1, <1>2 DEF Fits, Size
<1>4. w \in Word /\ w \in Letter /\ ~Checker!InJargon(w)
  BY CheckerConstants DEF Left, Letter
<1>5. Checker!Plain(w).text = w
  BY <1>4, Atoms
<1>6. Checker!Range(jargons) = Elements(jargons)
  <2>1. jargons \in Seq(Jargon)
    BY DEF SpellingInv, SpellingTypes
  <2>2. DOMAIN jargons = 1 .. Len(jargons)
    BY <2>1
  <2>3. QED
    BY <2>2 DEF Checker!Range, Elements
<1>7. m - Last + 1 \in DOMAIN Spelled[Term]
  BY <1>1, <1>2, CheckerConstants DEF Size
<1>8. Checker!Folded(Spelled[Term][m - Last + 1]) # Lower[w]
  BY <1>1, <1>4, <1>6, <1>7 DEF Checker!InJargon
<1>9. Checker!Folded(w) = Lower[w]
  BY <1>4 DEF Checker!Folded
<1>10. QED
  BY <1>3, <1>5, <1>8, <1>9

LEMMA LeftStaysInText ==
  ASSUME SpellingInv, Putting, NEW w \in Left, NEW x, x = Checker!Plain(w)
  PROVE  Times(text, 1, Len(text), x) <= Times(text', 1, Len(text'), x)
<1>1. /\ Len(text') = Len(text) - Size + 1 /\ Len(text') \in Nat
      /\ Last \in 1 .. Len(text')
      /\ \A m \in 1 .. Last - 1 : text'[m] = text[m]
      /\ \A m \in Last + 1 .. Len(text') : text'[m] = text[m + Size - 1]
  BY TextReplaced
<1>2. /\ Last \in 1 .. Len(text) /\ Len(text) \in Nat /\ Size \in Nat \ {0}
      /\ Last + Size - 1 <= Len(text)
  BY LastMatch DEF Putting
<1>3. PICK l : l = Last
  OBVIOUS
<1>4. PICK e : e = Last + Size - 1
  OBVIOUS
<1>5. PICK L : L = Len(text)
  OBVIOUS
<1>6. PICK M : M = Len(text')
  OBVIOUS
<1>7. /\ l \in Int /\ e \in Int /\ L \in Int /\ M \in Int /\ 1 \in Int /\ 0 \in Int /\ l - 1 \in Int
      /\ l + 1 \in Int /\ 1 - 1 <= l - 1 /\ l - 1 <= L /\ (l - 1) + 1 = l /\ l - 1 <= e /\ e <= L
      /\ M = L - e + l /\ l <= M /\ e + 1 \in Int /\ l - e \in Int /\ l - 1 <= M /\ l - 1 <= l
  BY <1>1, <1>2, <1>3, <1>4, <1>5, <1>6
<1>8. Times(text, 1, L, x) = Times(text, 1, l - 1, x) + Times(text, l, L, x)
  <2>1. PICK b : b = l - 1
    OBVIOUS
  <2>2. b \in Int /\ 1 - 1 <= b /\ b <= L /\ b + 1 = l
    BY ONLY <1>7, <2>1
  <2>3. Times(text, 1, L, x) = Times(text, 1, b, x) + Times(text, b + 1, L, x)
    BY ONLY <1>7, <2>2, TimesSplit
  <2>4. QED
    BY ONLY <2>1, <2>2, <2>3
<1>9. Times(text, l, L, x) = Times(text, l, e, x) + Times(text, e + 1, L, x)
  BY ONLY <1>7, TimesSplit
<1>10. Times(text, l, e, x) = 0
  <2>1. \A m \in l .. e : text[m] # x
    BY <1>3, <1>4, LeftOutside
  <2>2. QED
    BY ONLY <1>7, <2>1, TimesOfNone
<1>11. Times(text, 1, l - 1, x) <= Times(text', 1, l - 1, x)
  <2>1. \A m \in 1 .. l - 1 : text[m] = x => m + 0 \in 1 .. l - 1 /\ text'[m + 0] = x
    BY <1>1, <1>3
  <2>2. QED
    BY ONLY <1>7, <2>1, TimesMoved
<1>12. Times(text, e + 1, L, x) <= Times(text', l, M, x)
  <2>1. ASSUME NEW m \in e + 1 .. L PROVE m + (l - e) \in l .. M /\ text'[m + (l - e)] = text[m]
    <3>1. /\ m + (l - e) \in l + 1 .. M /\ m + (l - e) \in l .. M
          /\ (m + (l - e)) + Size - 1 = m
      BY <1>2, <1>3, <1>4, <1>7
    <3>2. QED
      BY <1>1, <1>3, <1>6, <3>1
  <2>2. \A m \in e + 1 .. L : text[m] = x => m + (l - e) \in l .. M /\ text'[m + (l - e)] = x
    BY <2>1
  <2>3. QED
    BY ONLY <1>7, <2>2, TimesMoved
<1>13. Times(text', 1, M, x) = Times(text', 1, l - 1, x) + Times(text', l, M, x)
  <2>1. PICK b : b = l - 1
    OBVIOUS
  <2>2. b \in Int /\ 1 - 1 <= b /\ b <= M /\ b + 1 = l
    BY ONLY <1>7, <2>1
  <2>3. Times(text', 1, M, x) = Times(text', 1, b, x) + Times(text', b + 1, M, x)
    BY ONLY <1>7, <2>2, TimesSplit
  <2>4. QED
    BY ONLY <2>1, <2>2, <2>3
<1>14. /\ Times(text, 1, l - 1, x) \in Nat /\ Times(text, e + 1, L, x) \in Nat
       /\ Times(text', 1, l - 1, x) \in Nat /\ Times(text', l, M, x) \in Nat
  BY ONLY <1>7, PlacesAreFinite
<1>15. QED
  <2>1. Times(text, 1, L, x) <= Times(text', 1, M, x)
    BY ONLY <1>8, <1>9, <1>10, <1>11, <1>12, <1>13, <1>14
  <2>2. QED
    BY ONLY <1>5, <1>6, <2>1

LEMMA PutSteps ==
  ASSUME SpellingInv, Putting
  PROVE  SpellingInv'
<1>1. /\ question' = question /\ jargons' = jargons /\ checking' = checking /\ term' = term
      /\ position' = position /\ corrected' = corrected
      /\ matches' = matches \ {Last} /\ Atom' = Atom
      /\ text' \in Seq(Atom) /\ Len(text') = Len(text) - Size + 1 /\ Len(text') \in Nat
      /\ Last \in 1 .. Len(text')
  BY TextReplaced
<1>2. /\ Last \in matches /\ Last \in 1 .. Len(text) /\ Len(text) \in Nat
      /\ Term \in Jargon /\ Size \in Nat \ {0}
      /\ \A m \in matches \ {Last} : m + Size - 1 < Last /\ m \in 1 .. Len(text)
  BY LastMatch DEF Putting
<1>3. SpellingTypes /\ checking = "replace"
  BY DEF SpellingInv, Putting
<1>4. PICK f : f = Checker!Found(text, Last, Term)
  OBVIOUS
<1>5. f \in Seq(Letter) /\ f # <<>> /\ Checker!HasPart(question, f)
  BY <1>4, FoundIsWritten
<1>6. Spelled[Term] \in Seq(Letter)
  BY <1>2, CheckerConstants
<1>7. Checker!Correct(f, Spelled[Term])
  BY <1>4 DEF Putting, Checker!Replace, Last, Term
<1>8. /\ corrections' \in Seq(Correction)
      /\ \A i \in 1 .. Len(corrections') :
           \/ i \in 1 .. Len(corrections) /\ corrections'[i] = corrections[i]
           \/ corrections'[i].original = f /\ corrections'[i].corrected = Spelled[Term]
  BY <1>5, <1>6, <1>7, LetterOutcome, Corrects
<1>9. SpellingTypes'
  <2>1. matches' \in SUBSET (1 .. Len(text'))
    BY <1>1, <1>2
  <2>2. position' \in 1 .. Len(text') + 1
    BY <1>1, <1>3 DEF SpellingTypes
  <2>3. QED
    BY <1>1, <1>3, <1>8, <2>1, <2>2 DEF SpellingTypes
<1>10. \A s : Visible(s) => Visible(s)'
  BY SeenStays
<1>11. CorrectionsShow'
  <2>1. PICK s : s = Spelled[Term]
    OBVIOUS
  <2>2. Visible(s)'
    <3>1. Term' = Term
      BY <1>1, SameTerms DEF Term
    <3>2. QED
      BY <2>1, <3>1, TermIsSeen
  <2>3. \A i \in 1 .. Len(corrections') :
          \/ i \in 1 .. Len(corrections) /\ corrections'[i] = corrections[i]
          \/ /\ Checker!HasPart(question, corrections'[i].original)
             /\ \E z : corrections'[i].corrected = z /\ Visible(z)'
    BY <1>5, <1>8, <2>1, <2>2
  <2>4. QED
    BY <1>1, <1>10, <2>3, CorrectionsStayShown
<1>12. LongestShows'
  <2>1. ASSUME NEW j, IsUsed(j)' PROVE Visible(Spelled[j])'
    <3>1. IsUsed(j)
      BY <1>1, <2>1 DEF IsUsed, IsLongest, Elements, Checker!Occurs
    <3>2. term = 1 \/ Visible(Spelled[j])
      BY <1>3, <3>1 DEF SpellingInv, LongestShows
    <3>3. CASE term = 1
      <4>1. Term = j
        BY <1>3, <3>1, <3>3, TermsSorted DEF IsUsed, SpellingTypes, Term
      <4>2. Term' = Term
        BY <1>1, SameTerms DEF Term
      <4>3. QED
        BY <4>1, <4>2, TermIsSeen
    <3>4. CASE Visible(Spelled[j])
      BY <1>10, <3>4
    <3>5. QED
      BY <3>2, <3>3, <3>4
  <2>2. QED
    BY <2>1 DEF LongestShows
<1>13. ExemptCounted'
  <2>1. Left' = Left
    BY <1>1 DEF Left, Checker!InJargon, Checker!Range
  <2>2. ASSUME NEW w \in Left
        PROVE  Times(question, 1, Len(question), w)
                 <= Times(corrected, 1, Len(corrected), w)
                      + Times(text', position, Len(text'), Checker!Plain(w))
    <3>1. position = 1
      BY <1>3 DEF SpellingTypes
    <3>2. PICK x : x = Checker!Plain(w)
      OBVIOUS
    <3>3. Times(text, 1, Len(text), x) <= Times(text', 1, Len(text'), x)
      BY <3>2, LeftStaysInText
    <3>4. Times(question, 1, Len(question), w)
            <= Times(corrected, 1, Len(corrected), w) + Times(text, 1, Len(text), x)
      BY <3>1, <3>2 DEF SpellingInv, ExemptCounted
    <3>5. 1 \in Int /\ Len(question) \in Int /\ Len(corrected) \in Int /\ Len(text) \in Int /\ Len(text') \in Int
      BY <1>1, <1>3 DEF SpellingTypes
    <3>6. /\ Times(question, 1, Len(question), w) \in Nat /\ Times(corrected, 1, Len(corrected), w) \in Nat
          /\ Times(text, 1, Len(text), x) \in Nat /\ Times(text', 1, Len(text'), x) \in Nat
      BY ONLY <3>5, PlacesAreFinite
    <3>7. QED
      BY ONLY <3>1, <3>2, <3>3, <3>4, <3>6
  <2>3. QED
    BY <1>1, <2>1, <2>2 DEF ExemptCounted, Times, Places
<1>14. QED
  BY <1>9, <1>11, <1>12, <1>13, StretchesStay, FittingStays DEF SpellingInv

-----------------------------------------------------------------------------
(* Spelling: the other steps                                               *)

\* A step that changes neither the text nor what comes of it.
LEMMA SameTexts ==
  ASSUME SpellingInv, UNCHANGED <<question, jargons, text, position, corrected, corrections>>
  PROVE  /\ Stretches' /\ CorrectionsShow' /\ ExemptCounted' /\ Atom' = Atom
         /\ \A j : IsUsed(j)' => IsUsed(j)
         /\ \A s : Visible(s)' <=> Visible(s)
<1>1. Atom' = Atom
  BY DEF Atom, Elements
<1>2. Stretches'
  <2>1. ASSUME NEW i \in 1 .. Len(text), NEW k \in 1 .. Len(text), Stretch(i, k)'
        PROVE  IsWritten(i, k)'
    <3>1. Stretch(i, k)
      BY <2>1 DEF Stretch
    <3>2. IsWritten(i, k)
      BY <3>1 DEF SpellingInv, Stretches
    <3>3. QED
      BY <3>2 DEF IsWritten
  <2>2. QED
    BY <2>1 DEF Stretches
<1>3. CorrectionsShow'
  BY DEF SpellingInv, CorrectionsShow, Visible, Awaited
<1>4. ExemptCounted'
  <2>1. Left' = Left
    BY DEF Left, Checker!InJargon, Checker!Range
  <2>2. QED
    BY <2>1 DEF SpellingInv, ExemptCounted
<1>5. \A j : IsUsed(j)' => IsUsed(j)
  BY DEF IsUsed, IsLongest, Elements
<1>6. \A s : Visible(s)' <=> Visible(s)
  BY DEF Visible, Awaited
<1>7. QED
  BY <1>1, <1>2, <1>3, <1>4, <1>5, <1>6

LEMMA FindSteps ==
  ASSUME SpellingInv, Checker!Find
  PROVE  SpellingInv'
<1>1. /\ question' = question /\ jargons' = jargons /\ term' = term /\ text' = text
      /\ position' = position /\ corrected' = corrected /\ corrections' = corrections
      /\ checking = "find"
  BY DEF Checker!Find
<1>2. \/ term > Len(jargons) /\ checking' = "words" /\ matches' = matches
      \/ /\ ~(term > Len(jargons)) /\ checking' = "replace"
         /\ matches' = {i \in DOMAIN text : Checker!Occurs(text, Term, i)}
  BY DEF Checker!Find, Term
<1>3. SpellingTypes
  BY DEF SpellingInv
<1>4. DOMAIN text = 1 .. Len(text) /\ Len(jargons) \in Nat /\ DOMAIN question = 1 .. Len(question)
  BY <1>3 DEF SpellingTypes
<1>5. /\ Stretches' /\ CorrectionsShow' /\ ExemptCounted' /\ Atom' = Atom
      /\ \A j : IsUsed(j)' => IsUsed(j)
      /\ \A s : Visible(s)' <=> Visible(s)
  BY <1>1, SameTexts
<1>6. SpellingTypes'
  <2>1. matches' \in SUBSET (1 .. Len(text))
    BY <1>2, <1>3, <1>4 DEF SpellingTypes
  <2>2. checking' = "replace" => term \in 1 .. Len(jargons)
    BY <1>2, <1>3, <1>4 DEF SpellingTypes
  <2>3. checking' \in {"words", "replace"} /\ position = 1
    BY <1>1, <1>2, <1>3 DEF SpellingTypes
  <2>4. QED
    BY <1>1, <1>3, <1>5, <2>1, <2>2, <2>3 DEF SpellingTypes
<1>7. Fitting'
  <2>1. Term' = Term
    BY <1>1, SameTerms DEF Term
  <2>2. ASSUME checking' = "replace", NEW i \in matches' PROVE Fits(Term, i)'
    <3>1. Checker!Occurs(text, Term, i)
      BY <1>2, <2>2
    <3>2. Term \in Jargon
      <4>1. term \in 1 .. Len(jargons)
        BY <1>2, <1>3, <1>4, <2>2 DEF SpellingTypes
      <4>2. Term \in Elements(jargons)
        BY <1>3, <4>1, TermsSorted DEF SpellingTypes, Term
      <4>3. QED
        BY <1>3, <4>2 DEF SpellingTypes, Elements
    <3>3. Fits(Term, i)
      BY <3>1 DEF Checker!Occurs, Fits
    <3>4. QED
      BY <1>1, <2>1, <3>3 DEF Fits
  <2>3. QED
    BY <2>2 DEF Fitting, Term
<1>8. LongestShows'
  <2>1. ASSUME NEW j, IsUsed(j)', ~Visible(Spelled[j])'
        PROVE  checking' = "replace" /\ term' = 1 /\ matches' # {}
    <3>1. IsUsed(j) /\ ~Visible(Spelled[j])
      BY <1>5, <2>1
    <3>2. term = 1 /\ text = [n \in DOMAIN question |-> Checker!Plain(question[n])]
      BY <1>1, <3>1 DEF SpellingInv, LongestShows
    <3>3. 1 \in 1 .. Len(jargons) /\ Term = j
      BY <1>3, <3>1, <3>2, TermsSorted DEF IsUsed, SpellingTypes, Term
    <3>4. PICK i \in 1 .. Len(question) : Checker!Occurs(text, j, i)
      BY <3>1, <3>2 DEF IsUsed
    <3>5. i \in DOMAIN text
      BY <1>4, <3>2
    <3>6. QED
      BY <1>1, <1>2, <3>2, <3>3, <3>4, <3>5
  <2>2. QED
    BY <2>1 DEF LongestShows
<1>9. QED
  BY <1>5, <1>6, <1>7, <1>8 DEF SpellingInv

\* No occurrence is left.
LEMMA NextTermSteps ==
  ASSUME SpellingInv, Checker!Replace, matches = {}
  PROVE  SpellingInv'
<1>1. /\ question' = question /\ jargons' = jargons /\ term' = term + 1 /\ text' = text
      /\ position' = position /\ corrected' = corrected /\ corrections' = corrections
      /\ checking = "replace" /\ checking' = "find" /\ matches' = matches
  BY DEF Checker!Replace
<1>2. SpellingTypes
  BY DEF SpellingInv
<1>3. /\ Stretches' /\ CorrectionsShow' /\ ExemptCounted' /\ Atom' = Atom
      /\ \A j : IsUsed(j)' => IsUsed(j)
      /\ \A s : Visible(s)' <=> Visible(s)
  BY <1>1, SameTexts
<1>4. SpellingTypes'
  <2>1. term + 1 \in 1 .. Len(jargons) + 1
    BY <1>1, <1>2 DEF SpellingTypes
  <2>2. QED
    BY <1>1, <1>2, <1>3, <2>1 DEF SpellingTypes
<1>5. Fitting'
  BY <1>1 DEF Fitting
<1>6. LongestShows'
  <2>1. ASSUME NEW j, IsUsed(j)' PROVE Visible(Spelled[j])'
    <3>1. Visible(Spelled[j])
      BY <1>1, <1>3, <2>1 DEF SpellingInv, LongestShows
    <3>2. QED
      BY <1>3, <3>1
  <2>2. QED
    BY <2>1 DEF LongestShows
<1>7. QED
  BY <1>3, <1>4, <1>5, <1>6 DEF SpellingInv

LEMMA ReturnSteps ==
  ASSUME SpellingInv, Checker!Return
  PROVE  SpellingInv'
<1>1. /\ question' = question /\ jargons' = jargons /\ term' = term /\ text' = text
      /\ position' = position /\ corrected' = corrected /\ corrections' = corrections
      /\ matches' = matches /\ position > Len(text) /\ checking = "words" /\ checking' = "done"
  BY DEF Checker!Return
<1>2. SpellingTypes
  BY DEF SpellingInv
<1>3. /\ Stretches' /\ CorrectionsShow' /\ ExemptCounted' /\ Atom' = Atom
      /\ \A j : IsUsed(j)' => IsUsed(j)
      /\ \A s : Visible(s)' <=> Visible(s)
  BY <1>1, SameTexts
<1>4. SpellingTypes'
  <2>1. position = Len(text) + 1
    BY <1>1, <1>2 DEF SpellingTypes
  <2>2. QED
    BY <1>1, <1>2, <1>3, <2>1 DEF SpellingTypes
<1>5. Fitting'
  BY <1>1 DEF Fitting
<1>6. LongestShows'
  <2>1. ASSUME NEW j, IsUsed(j)' PROVE Visible(Spelled[j])'
    <3>1. Visible(Spelled[j])
      BY <1>1, <1>3, <2>1 DEF SpellingInv, LongestShows
    <3>2. QED
      BY <1>3, <3>1
  <2>2. QED
    BY <2>1 DEF LongestShows
<1>7. QED
  BY <1>3, <1>4, <1>5, <1>6 DEF SpellingInv

LEMMA SpellingStutter ==
  ASSUME SpellingInv, UNCHANGED spelling
  PROVE  SpellingInv'
<1>1. /\ question' = question /\ jargons' = jargons /\ term' = term /\ text' = text
      /\ position' = position /\ corrected' = corrected /\ corrections' = corrections
      /\ matches' = matches /\ checking' = checking
  BY DEF spelling
<1>2. /\ Stretches' /\ CorrectionsShow' /\ ExemptCounted' /\ Atom' = Atom
      /\ \A j : IsUsed(j)' => IsUsed(j)
      /\ \A s : Visible(s)' <=> Visible(s)
  BY <1>1, SameTexts
<1>3. SpellingTypes'
  BY <1>1, <1>2 DEF SpellingInv, SpellingTypes
<1>4. Fitting'
  <2>1. Checker!Sorted' = Checker!Sorted
    BY <1>1, SameTerms
  <2>2. QED
    BY <1>1, <2>1 DEF SpellingInv, Fitting, Fits
<1>5. LongestShows'
  BY <1>1, <1>2 DEF SpellingInv, LongestShows
<1>6. QED
  BY <1>2, <1>3, <1>4, <1>5 DEF SpellingInv

-----------------------------------------------------------------------------
(* Spelling: a token                                                       *)

LEMMA PartsFollow ==
  ASSUME NEW A, NEW t \in Seq(A), NEW u \in Seq(A), NEW s \in Seq(A), Checker!HasPart(u, s)
  PROVE  Checker!HasPart(t \o u, s)
<1>1. DOMAIN u = 1 .. Len(u) /\ DOMAIN s = 1 .. Len(s) /\ DOMAIN (t \o u) = 1 .. Len(t \o u)
  OBVIOUS
<1>2. PICK i \in 1 .. Len(u) : i + Len(s) - 1 <= Len(u) /\ \A k \in 1 .. Len(s) : u[i + k - 1] = s[k]
  BY <1>1, Zenon DEF Checker!HasPart
<1>3. /\ Len(t \o u) = Len(t) + Len(u) /\ Len(s) \in Nat /\ Len(t) \in Nat /\ Len(u) \in Nat
      /\ \A k \in 1 .. Len(u) : (t \o u)[Len(t) + k] = u[k]
  BY Joining
<1>4. \A k \in 1 .. Len(s) : i + k - 1 \in 1 .. Len(u) /\ (Len(t) + i) + k - 1 = Len(t) + (i + k - 1)
  BY <1>2, <1>3
<1>5. Len(t) + i \in 1 .. Len(t \o u) /\ (Len(t) + i) + Len(s) - 1 <= Len(t \o u)
  BY <1>2, <1>3
<1>6. \A k \in 1 .. Len(s) : (t \o u)[(Len(t) + i) + k - 1] = s[k]
  BY <1>2, <1>3, <1>4
<1>7. QED
  BY <1>1, <1>5, <1>6, Zenon DEF Checker!HasPart

LEMMA PartOfItself ==
  ASSUME NEW A, NEW s \in Seq(A), s # <<>>
  PROVE  Checker!HasPart(s, s)
<1>1. DOMAIN s = 1 .. Len(s) /\ Len(s) \in Nat \ {0}
  OBVIOUS
<1>2. 1 \in 1 .. Len(s) /\ 1 + Len(s) - 1 <= Len(s) /\ \A k \in 1 .. Len(s) : 1 + k - 1 = k
  BY <1>1
<1>3. \A k \in 1 .. Len(s) : s[1 + k - 1] = s[k]
  BY <1>2
<1>4. QED
  BY <1>1, <1>2, <1>3, Zenon DEF Checker!HasPart

\* Where the token ends.
TokenEnd == Checker!End(position)

LEMMA TokenEnds ==
  ASSUME SpellingInv, Checker!Token
  PROVE  /\ position \in 1 .. Len(text) /\ Len(text) \in Nat
         /\ TokenEnd \in position .. Len(text)
         /\ TokenEnd > position => \A m \in position .. TokenEnd : text[m].is # "separator"
<1>1. position \in 1 .. Len(text) /\ Len(text) \in Nat
  <2>1. SpellingTypes /\ position <= Len(text)
    <3>1. SpellingTypes
      BY DEF SpellingInv
    <3>2. position <= Len(text)
      BY Zenon DEF Checker!Token
    <3>3. QED
      BY <3>1, <3>2
  <2>2. position \in 1 .. Len(text) + 1 /\ text \in Seq(Atom)
    BY <2>1 DEF SpellingTypes
  <2>3. Len(text) \in Nat
    BY ONLY <2>2
  <2>4. QED
    BY ONLY <2>1, <2>2, <2>3
<1>2. CASE ~Checker!Joins(text[position])
  BY <1>1, <1>2 DEF TokenEnd, Checker!End
<1>3. CASE Checker!Joins(text[position])
  <2> DEFINE S == {n \in position .. Len(text) : \A k \in position .. n : Checker!Joins(text[k])}
  <2>1. TokenEnd = Checker!Max(S)
    BY <1>3 DEF TokenEnd, Checker!End
  <2>2. S \in SUBSET Nat /\ (\A n \in S : n <= Len(text)) /\ position \in S
    BY <1>1, <1>3
  <2>3. TokenEnd \in S
    <3> HIDE DEF S
    <3> QED
      BY <1>1, <2>1, <2>2, GreatestPlace
  <2>4. TokenEnd \in position .. Len(text) /\ \A m \in position .. TokenEnd : Checker!Joins(text[m])
    BY <2>3
  <2>5. \A m \in position .. TokenEnd : text[m].is # "separator"
    BY <2>4, Zenon DEF Checker!Joins
  <2>6. QED
    BY <1>1, <2>4, <2>5
<1>4. QED
  BY <1>2, <1>3

\* What the words become.
LEMMA Chooses ==
  ASSUME SpellingInv, NEW w \in Word
  PROVE  /\ Checker!Chosen(w) \in Seq(Letter) /\ Checker!Chosen(w) # <<>>
         /\ w \in Left => Checker!Chosen(w) = <<w>>
<1>1. jargons \in Seq(Jargon)
  BY DEF SpellingInv, SpellingTypes
<1>2. /\ DOMAIN jargons = 1 .. Len(jargons) /\ Len(jargons) \in Nat
      /\ \A i \in 1 .. Len(jargons) : jargons[i] \in Jargon
  BY <1>1
<1>3. \A i \in 1 .. Len(jargons) : Spelled[jargons[i]] \in Seq(Letter) /\ Spelled[jargons[i]] # <<>>
  BY <1>2, CheckerConstants
<1>4. Checker!Equal(w) \in SUBSET (1 .. Len(jargons)) /\ Checker!Meant(w) \in SUBSET (1 .. Len(jargons))
  BY <1>2 DEF Checker!Equal, Checker!Meant
<1>5. ASSUME Checker!Equal(w) # {} PROVE Checker!Max(Checker!Equal(w)) \in 1 .. Len(jargons)
  <2>1. Checker!Equal(w) \in SUBSET Nat /\ \A i \in Checker!Equal(w) : i <= Len(jargons)
    BY <1>2, <1>4
  <2>2. QED
    BY <1>2, <1>4, <1>5, <2>1, GreatestPlace
<1>6. ASSUME Checker!Meant(w) # {} PROVE Checker!Min(Checker!Meant(w)) \in 1 .. Len(jargons)
  <2>1. Checker!Meant(w) \in SUBSET Nat
    BY <1>2, <1>4
  <2>2. QED
    BY <1>4, <1>6, <2>1, LeastPlace
<1>7. w \in Letter /\ Dictionary[w] \in Letter
  BY CheckerConstants DEF Letter
<1>8. \A a \in Letter : <<a>> \in Seq(Letter) /\ <<a>> # <<>>
  OBVIOUS
<1>9. Checker!Chosen(w) \in Seq(Letter) /\ Checker!Chosen(w) # <<>>
  BY <1>3, <1>5, <1>6, <1>7, <1>8 DEF Checker!Chosen
<1>10. ASSUME w \in Left PROVE Checker!Chosen(w) = <<w>>
  <2>1. ASSUME NEW i \in Checker!Equal(w) PROVE FALSE
    <3>1. /\ i \in 1 .. Len(jargons) /\ Len(Spelled[jargons[i]]) = 1
          /\ Checker!Folded(Spelled[jargons[i]][1]) = Lower[w]
      BY <1>2, <2>1 DEF Checker!Equal
    <3>2. 1 \in DOMAIN Spelled[jargons[i]]
      BY <1>3, <3>1
    <3>3. jargons[i] \in Checker!Range(jargons)
      BY <1>2, <3>1 DEF Checker!Range
    <3>4. QED
      BY <1>10, <3>1, <3>2, <3>3 DEF Left, Checker!InJargon
  <2>2. Checker!Equal(w) = {}
    BY <2>1
  <2>3. w \in Technical \cup Stopword
    BY <1>10 DEF Left
  <2>4. QED
    BY <2>2, <2>3 DEF Checker!Chosen
<1>11. QED
  BY <1>9, <1>10

\* What a token adds to the corrected question, and which correction it is.
Emits(out) ==
  /\ out \in Seq(Outcome) /\ corrected' = corrected \o out
  /\ \A m \in position .. TokenEnd : text[m].is = "placeholder" =>
       \/ Checker!HasPart(out, Spelled[text[m].text])
       \/ Checker!HasPart(out, <<Checker!Hole>>)
  /\ \A w \in Left : \A m \in position .. TokenEnd : text[m] = Checker!Plain(w) =>
       m - position + 1 \in 1 .. Len(out) /\ out[m - position + 1] = w
  /\ corrections' \in Seq(Correction)
  /\ \A i \in 1 .. Len(corrections') :
       \/ i \in 1 .. Len(corrections) /\ corrections'[i] = corrections[i]
       \/ /\ Checker!HasPart(question, corrections'[i].original)
          /\ corrections'[i].corrected \in Seq(Outcome)
          /\ Checker!HasPart(out, corrections'[i].corrected)

LEMMA SameCorrections ==
  ASSUME SpellingInv, corrections' = corrections
  PROVE  /\ corrections' \in Seq(Correction)
         /\ \A i \in 1 .. Len(corrections') : i \in 1 .. Len(corrections) /\ corrections'[i] = corrections[i]
  BY DEF SpellingInv, SpellingTypes

LEMMA LeftIsWord ==
  ASSUME NEW w \in Left
  PROVE  /\ w \in Word /\ w \in Letter
         /\ Checker!Plain(w).is = "word" /\ Checker!Plain(w).text = w
  BY CheckerConstants, Atoms DEF Left, Letter

LEMMA ManyEmit ==
  ASSUME SpellingInv, Checker!Token, TokenEnd > position
  PROVE  \E out : Emits(out)
<1>1. /\ position \in 1 .. Len(text) /\ Len(text) \in Nat /\ TokenEnd \in position .. Len(text)
  BY TokenEnds
<1> DEFINE N == TokenEnd - position + 1
<1>2. N \in Nat /\ \A k \in 1 .. N : position + k - 1 \in 1 .. Len(text)
  BY <1>1
<1>3. PICK out : out = [k \in 1 .. N |-> Checker!Kept(text[position + k - 1])]
  OBVIOUS
<1>4. corrected' = corrected \o out /\ corrections' = corrections
  <2>1. ~(TokenEnd = position)
    BY <1>1
  <2>2. /\ corrected' = corrected \o [k \in 1 .. N |-> Checker!Kept(text[position + k - 1])]
        /\ corrections' = corrections
    BY <2>1, Zenon DEF Checker!Token, TokenEnd
  <2>3. QED
    BY <1>3, <2>2, Zenon
<1> HIDE DEF N
<1>5. text \in Seq(Atom)
  BY DEF SpellingInv, SpellingTypes
<1>6. ASSUME NEW k \in 1 .. N
      PROVE  /\ Checker!Kept(text[position + k - 1]) \in Outcome
             /\ text[position + k - 1].is = "placeholder" => out[k] = Checker!Hole
             /\ text[position + k - 1].is # "placeholder" => out[k] = text[position + k - 1].text
  <2>1. text[position + k - 1] \in Atom /\ out[k] = Checker!Kept(text[position + k - 1])
    BY <1>2, <1>3, <1>5
  <2>2. QED
    BY <2>1, Atoms DEF Checker!Kept, Outcome
<1>7. out \in Seq(Outcome) /\ Len(out) = N
  <2>1. out \in [1 .. N -> Outcome]
    BY <1>3, <1>6
  <2>2. QED
    BY <1>2, <2>1, ListOf
<1>8. \A m \in position .. TokenEnd : m - position + 1 \in 1 .. N /\ position + (m - position + 1) - 1 = m
  BY <1>1 DEF N
<1>9. ASSUME NEW m \in position .. TokenEnd, text[m].is = "placeholder"
      PROVE  Checker!HasPart(out, <<Checker!Hole>>)
  <2>1. m - position + 1 \in 1 .. Len(out) /\ out[m - position + 1] = Checker!Hole
    BY <1>6, <1>7, <1>8, <1>9
  <2>2. Checker!Hole \in Outcome
    BY DEF Outcome
  <2>3. QED
    BY <1>7, <2>1, <2>2, PartOfOne
<1>10. ASSUME NEW w \in Left, NEW m \in position .. TokenEnd, text[m] = Checker!Plain(w)
       PROVE  m - position + 1 \in 1 .. Len(out) /\ out[m - position + 1] = w
  BY <1>6, <1>7, <1>8, <1>10, LeftIsWord
<1>11. Emits(out)
  BY <1>4, <1>7, <1>9, <1>10, SameCorrections DEF Emits
<1>12. QED
  BY <1>11

LEMMA OneEmits ==
  ASSUME SpellingInv, Checker!Token, TokenEnd = position
  PROVE  \E out : Emits(out)
<1>1. position \in 1 .. Len(text) /\ Len(text) \in Nat
  BY TokenEnds
<1>2. text \in Seq(Atom) /\ corrected \in Seq(Outcome) /\ jargons \in Seq(Jargon)
  BY DEF SpellingInv, SpellingTypes
<1>3. PICK atom : atom = text[position]
  OBVIOUS
<1>4. atom \in Atom
  BY <1>1, <1>2, <1>3
<1>5. \A m \in position .. TokenEnd : m = position /\ m - position + 1 = 1
  BY <1>1
<1>6. ~(TokenEnd > position)
  BY <1>1
<1>7. \/ atom.is = "separator" /\ corrected' = Append(corrected, atom.text) /\ corrections' = corrections
      \/ atom.is = "placeholder" /\ corrected' = corrected \o Spelled[atom.text] /\ corrections' = corrections
      \/ /\ atom.is = "word" /\ corrected' = corrected \o Checker!Chosen(atom.text)
         /\ corrections' = corrections \/ Checker!Correct(<<atom.text>>, Checker!Chosen(atom.text))
  BY <1>3, <1>6 DEF Checker!Token, TokenEnd
<1>8. CASE /\ atom.is = "separator" /\ corrected' = Append(corrected, atom.text)
           /\ corrections' = corrections
  <2>1. PICK a : a = atom.text
    OBVIOUS
  <2>2. a \in Outcome
    BY <1>4, <1>8, <2>1, Atoms DEF Outcome
  <2>3. PICK out : out = <<a>>
    OBVIOUS
  <2>4. out \in Seq(Outcome) /\ Append(corrected, a) = corrected \o out
    BY <1>2, <2>2, <2>3
  <2>5. \A m \in position .. TokenEnd : text[m].is = "separator"
    BY <1>3, <1>5, <1>8
  <2>6. \A w \in Left : \A m \in position .. TokenEnd : text[m] # Checker!Plain(w)
    BY <2>5, LeftIsWord
  <2>7. Emits(out)
    BY <1>8, <2>1, <2>4, <2>5, <2>6, SameCorrections DEF Emits
  <2>8. QED
    BY <2>7
<1>9. CASE /\ atom.is = "placeholder" /\ corrected' = corrected \o Spelled[atom.text]
           /\ corrections' = corrections
  <2>1. PICK out : out = Spelled[atom.text]
    OBVIOUS
  <2>2. atom.text \in Jargon
    <3>1. atom.text \in Elements(jargons)
      BY <1>4, <1>9, Atoms
    <3>2. QED
      BY <1>2, <3>1 DEF Elements
  <2>3. out \in Seq(Letter) /\ out # <<>>
    BY <2>1, <2>2, CheckerConstants
  <2>4. out \in Seq(Outcome)
    BY <2>3, LetterOutcome
  <2>5. Checker!HasPart(out, out)
    BY <2>3, PartOfItself
  <2>6. \A w \in Left : \A m \in position .. TokenEnd : text[m] # Checker!Plain(w)
    BY <1>3, <1>5, <1>9, LeftIsWord
  <2>7. \A m \in position .. TokenEnd : Checker!HasPart(out, Spelled[text[m].text])
    BY <1>3, <1>5, <2>1, <2>5
  <2>8. Emits(out)
    BY <1>9, <2>1, <2>4, <2>6, <2>7, SameCorrections DEF Emits
  <2>9. QED
    BY <2>8
<1>10. CASE /\ atom.is = "word" /\ corrected' = corrected \o Checker!Chosen(atom.text)
            /\ corrections' = corrections \/ Checker!Correct(<<atom.text>>, Checker!Chosen(atom.text))
  <2>1. PICK a : a = atom.text
    OBVIOUS
  <2>2. a \in Word /\ a \in Letter /\ atom = Checker!Plain(a)
    BY <1>4, <1>10, <2>1, Atoms
  <2>3. PICK out : out = Checker!Chosen(a)
    OBVIOUS
  <2>4. out \in Seq(Letter) /\ out # <<>> /\ (a \in Left => out = <<a>>)
    BY <2>2, <2>3, Chooses
  <2>5. out \in Seq(Outcome) /\ Checker!HasPart(out, out)
    BY <2>4, LetterOutcome, PartOfItself
  <2>6. \A m \in position .. TokenEnd : text[m].is # "placeholder"
    BY <1>3, <1>5, <1>10
  <2>7. ASSUME NEW w \in Left, NEW m \in position .. TokenEnd, text[m] = Checker!Plain(w)
        PROVE  m - position + 1 \in 1 .. Len(out) /\ out[m - position + 1] = w
    <3>1. w = a
      BY <1>3, <1>5, <2>1, <2>7, LeftIsWord
    <3>2. out = <<w>>
      BY <2>4, <2>7, <3>1
    <3>3. QED
      BY <1>5, <2>7, <3>2
  <2>8. Checker!HasPart(question, <<a>>)
    <3>1. question \in Seq(Letter)
      BY DEF SpellingInv, SpellingTypes
    <3>2. Stretch(position, position)
      BY <1>1, <1>3, <1>10 DEF Stretch
    <3>3. IsWritten(position, position)
      BY <1>1, <3>2 DEF SpellingInv, Stretches
    <3>4. PICK d \in Int : /\ position + d \in 1 .. Len(question)
                           /\ text[position] = Checker!Plain(question[position + d])
      <4>1. position \in position .. position
        BY <1>1
      <4>2. QED
        BY <3>3, <4>1, Zenon DEF IsWritten
    <3>5. question[position + d] \in Letter
      BY <3>1, <3>4
    <3>6. question[position + d] = a
      BY <1>3, <2>1, <3>4, <3>5, Atoms
    <3>7. QED
      BY <2>2, <3>1, <3>4, <3>6, PartOfOne
  <2>9. PICK f : f = <<a>>
    OBVIOUS
  <2>10. f \in Seq(Outcome)
    <3>1. f \in Seq(Letter)
      BY <2>2, <2>9
    <3>2. QED
      BY <3>1, LetterOutcome
  <2>11. /\ corrections' \in Seq(Correction)
         /\ \A i \in 1 .. Len(corrections') :
              \/ i \in 1 .. Len(corrections) /\ corrections'[i] = corrections[i]
              \/ corrections'[i].original = f /\ corrections'[i].corrected = out
    <3>1. CASE corrections' = corrections
      BY <3>1, SameCorrections
    <3>2. CASE Checker!Correct(f, out)
      BY <2>5, <2>10, <3>2, Corrects
    <3>3. QED
      BY <1>10, <2>1, <2>3, <2>9, <3>1, <3>2
  <2>12. Emits(out)
    BY <1>10, <2>1, <2>3, <2>5, <2>6, <2>7, <2>8, <2>9, <2>11 DEF Emits
  <2>13. QED
    BY <2>12
<1>11. QED
  BY <1>7, <1>8, <1>9, <1>10

\* The steps of the two kinds of token.
LEMMA TokenEmits ==
  ASSUME SpellingInv, Checker!Token
  PROVE  /\ \E out : Emits(out)
         /\ question' = question /\ jargons' = jargons /\ checking' = checking /\ term' = term
         /\ matches' = matches /\ text' = text /\ checking = "words" /\ position' = TokenEnd + 1
         /\ Atom' = Atom
<1>1. /\ question' = question /\ jargons' = jargons /\ checking' = checking /\ term' = term
      /\ matches' = matches /\ text' = text /\ checking = "words" /\ position' = TokenEnd + 1
  BY DEF Checker!Token, TokenEnd
<1>2. TokenEnd \in position .. Len(text) /\ position \in Nat /\ Len(text) \in Nat
  BY TokenEnds
<1>3. TokenEnd > position \/ TokenEnd = position
  BY <1>2
<1>4. \E out : Emits(out)
  BY <1>3, ManyEmit, OneEmits
<1>5. Atom' = Atom
  BY <1>1 DEF Atom, Elements
<1>6. QED
  BY <1>1, <1>4, <1>5

\* What the corrected question has or will have, it still has or will have.
LEMMA TokenShows ==
  ASSUME SpellingInv, Checker!Token, NEW out, Emits(out), NEW s \in Seq(Outcome), Visible(s)
  PROVE  Visible(s)'
<1>1. /\ text' = text /\ position' = TokenEnd + 1 /\ position \in 1 .. Len(text)
      /\ TokenEnd \in position .. Len(text) /\ Len(text) \in Nat
  BY TokenEmits, TokenEnds
<1>2. PICK c : c = corrected
  OBVIOUS
<1>3. c \in Seq(Outcome) /\ out \in Seq(Outcome) /\ corrected' = c \o out
  BY <1>2 DEF SpellingInv, SpellingTypes, Emits
<1>4. PICK h : h = <<Checker!Hole>>
  OBVIOUS
<1>5. h \in Seq(Outcome)
  BY <1>4 DEF Outcome
<1>6. ASSUME NEW z \in Seq(Outcome), Checker!HasPart(c, z) \/ Checker!HasPart(out, z)
      PROVE  Checker!HasPart(corrected', z)
  BY <1>3, <1>6, PartsStay, PartsFollow
<1>7. ASSUME NEW z, z = s \/ z = h, Checker!HasPart(corrected', z)
      PROVE  Visible(s)'
  BY <1>4, <1>7 DEF Visible, Checker!HasPart
<1>8. CASE Checker!HasPart(corrected, s)
  BY <1>2, <1>6, <1>7, <1>8
<1>9. CASE Checker!HasPart(corrected, <<Checker!Hole>>)
  BY <1>2, <1>4, <1>5, <1>6, <1>7, <1>9
<1>10. CASE Awaited(s)
  <2>1. PICK m \in position .. Len(text) : text[m].is = "placeholder" /\ Spelled[text[m].text] = s
    BY <1>10 DEF Awaited
  <2>2. CASE m \in position .. TokenEnd
    <3>1. Checker!HasPart(out, s) \/ Checker!HasPart(out, h)
      BY <1>4, <2>1, <2>2 DEF Emits
    <3>2. QED
      BY <1>5, <1>6, <1>7, <3>1
  <2>3. CASE m \in TokenEnd + 1 .. Len(text)
    BY <1>1, <2>1, <2>3 DEF Visible, Awaited
  <2>4. QED
    BY <1>1, <2>1, <2>2, <2>3
<1>11. QED
  BY <1>8, <1>9, <1>10 DEF Visible

LEMMA TokenKeeps ==
  ASSUME SpellingInv, Checker!Token, NEW out, Emits(out), NEW w \in Left
  PROVE  Times(corrected, 1, Len(corrected), w) + Times(text, position, Len(text), Checker!Plain(w))
           <= Times(corrected', 1, Len(corrected'), w)
                + Times(text, position', Len(text), Checker!Plain(w))
<1>1. /\ position' = TokenEnd + 1 /\ position \in 1 .. Len(text)
      /\ TokenEnd \in position .. Len(text) /\ Len(text) \in Nat
  BY TokenEmits, TokenEnds
<1>2. PICK c : c = corrected
  OBVIOUS
<1>3. PICK d : d = corrected'
  OBVIOUS
<1>4. PICK x : x = Checker!Plain(w)
  OBVIOUS
<1>5. PICK p : p = position
  OBVIOUS
<1>6. PICK e : e = TokenEnd
  OBVIOUS
<1>7. PICK C : C = Len(corrected)
  OBVIOUS
<1>8. PICK D : D = Len(corrected')
  OBVIOUS
<1>9. PICK O : O = Len(out)
  OBVIOUS
<1>10. PICK L : L = Len(text)
  OBVIOUS
<1>11. /\ c \in Seq(Outcome) /\ out \in Seq(Outcome) /\ d = c \o out /\ C = Len(c) /\ D = Len(d)
  BY <1>2, <1>3, <1>7, <1>8 DEF SpellingInv, SpellingTypes, Emits
<1>12. /\ D = C + O /\ C \in Nat /\ O \in Nat
       /\ \A k \in 1 .. C : d[k] = c[k]
       /\ \A k \in 1 .. O : d[C + k] = out[k]
  <2>1. /\ Len(c \o out) = Len(c) + Len(out)
        /\ \A k \in 1 .. Len(c) : (c \o out)[k] = c[k]
        /\ \A k \in 1 .. Len(out) : (c \o out)[Len(c) + k] = out[k]
    BY ONLY <1>11, Joining
  <2>2. Len(c) \in Nat /\ Len(out) \in Nat
    BY ONLY <1>11
  <2>3. QED
    BY ONLY <1>9, <1>11, <2>1, <2>2
<1>13. \A m \in p .. e : text[m] = x => m - p + 1 \in 1 .. O /\ out[m - p + 1] = w
  BY <1>4, <1>5, <1>6, <1>9 DEF Emits
<1>14. /\ p \in Int /\ e \in Int /\ L \in Int /\ C \in Int /\ D \in Int /\ 1 \in Int /\ 0 \in Int
       /\ p - 1 <= e /\ e <= L /\ 1 - 1 <= C /\ C <= D /\ C + 1 \in Int /\ C - p + 1 \in Int
       /\ e + 1 \in Int
  BY <1>1, <1>5, <1>6, <1>10, <1>12
<1>15. Times(text, p, L, x) = Times(text, p, e, x) + Times(text, e + 1, L, x)
  BY ONLY <1>14, TimesSplit
<1>16. Times(d, 1, D, w) = Times(d, 1, C, w) + Times(d, C + 1, D, w)
  BY ONLY <1>14, TimesSplit
<1>17. Times(c, 1, C, w) <= Times(d, 1, C, w)
  <2>1. \A k \in 1 .. C : c[k] = w => k + 0 \in 1 .. C /\ d[k + 0] = w
    BY ONLY <1>12
  <2>2. QED
    BY ONLY <1>14, <2>1, TimesMoved
<1>18. Times(text, p, e, x) <= Times(d, C + 1, D, w)
  <2>1. ASSUME NEW m \in p .. e, text[m] = x
        PROVE  m + (C - p + 1) \in C + 1 .. D /\ d[m + (C - p + 1)] = w
    <3>1. m - p + 1 \in 1 .. O /\ out[m - p + 1] = w
      BY ONLY <1>13, <2>1
    <3>2. d[C + (m - p + 1)] = w
      BY ONLY <1>12, <3>1
    <3>3. m + (C - p + 1) = C + (m - p + 1) /\ m + (C - p + 1) \in C + 1 .. D
      BY ONLY <1>12, <1>14, <2>1, <3>1
    <3>4. QED
      BY ONLY <3>2, <3>3
  <2>2. \A m \in p .. e : text[m] = x => m + (C - p + 1) \in C + 1 .. D /\ d[m + (C - p + 1)] = w
    BY ONLY <2>1
  <2>3. QED
    BY ONLY <1>14, <2>2, TimesMoved
<1>19. /\ Times(text, p, e, x) \in Nat /\ Times(text, e + 1, L, x) \in Nat /\ Times(c, 1, C, w) \in Nat
       /\ Times(d, 1, C, w) \in Nat /\ Times(d, C + 1, D, w) \in Nat
  BY ONLY <1>14, PlacesAreFinite
<1>20. Times(c, 1, C, w) + Times(text, p, L, x) <= Times(d, 1, D, w) + Times(text, e + 1, L, x)
  BY ONLY <1>15, <1>16, <1>17, <1>18, <1>19
<1>21. QED
  BY <1>1, <1>2, <1>3, <1>4, <1>5, <1>6, <1>7, <1>8, <1>10, <1>20

LEMMA TokenSteps ==
  ASSUME SpellingInv, Checker!Token
  PROVE  SpellingInv'
<1>1. /\ question' = question /\ jargons' = jargons /\ checking' = checking /\ term' = term
      /\ matches' = matches /\ text' = text /\ checking = "words" /\ position' = TokenEnd + 1
      /\ Atom' = Atom
  BY TokenEmits
<1>2. PICK out : Emits(out)
  BY TokenEmits
<1>3. SpellingTypes
  BY DEF SpellingInv
<1>4. SpellingTypes'
  <2>1. position \in 1 .. Len(text) /\ TokenEnd \in position .. Len(text) /\ Len(text) \in Nat
    BY TokenEnds
  <2>2. TokenEnd + 1 \in 1 .. Len(text) + 1
    BY <2>1
  <2>3. corrected' \in Seq(Outcome) /\ corrections' \in Seq(Correction)
    BY <1>2, <1>3 DEF SpellingTypes, Emits
  <2>4. QED
    BY <1>1, <1>3, <2>2, <2>3 DEF SpellingTypes
<1>5. Stretches'
  <2>1. ASSUME NEW i \in 1 .. Len(text), NEW k \in 1 .. Len(text), Stretch(i, k)'
        PROVE  IsWritten(i, k)'
    <3>1. Stretch(i, k)
      BY <1>1, <2>1 DEF Stretch
    <3>2. IsWritten(i, k)
      BY <3>1 DEF SpellingInv, Stretches
    <3>3. QED
      BY <1>1, <3>2 DEF IsWritten
  <2>2. QED
    BY <1>1, <2>1 DEF Stretches
<1>6. Fitting'
  BY <1>1 DEF Fitting
<1>7. ASSUME NEW s \in Seq(Outcome), Visible(s) PROVE Visible(s)'
  BY <1>2, <1>7, TokenShows
<1>8. CorrectionsShow'
  <2>1. ASSUME NEW i \in 1 .. Len(corrections')
        PROVE  /\ Checker!HasPart(question, corrections'[i].original)
               /\ \E s : corrections'[i].corrected = s /\ Visible(s)'
    <3>1. PICK s : s = corrections'[i].corrected
      OBVIOUS
    <3>2. CASE i \in 1 .. Len(corrections) /\ corrections'[i] = corrections[i]
      <4>1. Checker!HasPart(question, corrections[i].original) /\ Visible(corrections[i].corrected)
        BY <3>2 DEF SpellingInv, CorrectionsShow
      <4>2. corrections[i].corrected \in Seq(Outcome)
        <5>1. corrections \in Seq(Correction) /\ i \in 1 .. Len(corrections)
          BY <1>3, <3>2 DEF SpellingTypes
        <5>2. corrections[i] \in Correction
          BY ONLY <5>1
        <5>3. QED
          BY ONLY <5>2 DEF Correction
      <4>3. Visible(s)'
        BY <1>7, <3>1, <3>2, <4>1, <4>2
      <4>4. QED
        BY <3>1, <3>2, <4>1, <4>3
    <3>3. CASE /\ Checker!HasPart(question, corrections'[i].original)
               /\ corrections'[i].corrected \in Seq(Outcome)
               /\ Checker!HasPart(out, corrections'[i].corrected)
      <4>1. s \in Seq(Outcome) /\ Checker!HasPart(out, s)
        BY <3>1, <3>3
      <4>2. corrected \in Seq(Outcome) /\ out \in Seq(Outcome) /\ corrected' = corrected \o out
        BY <1>2, <1>3 DEF SpellingTypes, Emits
      <4>3. Checker!HasPart(corrected', s)
        BY <4>1, <4>2, PartsFollow
      <4>4. Visible(s)'
        BY <4>3 DEF Visible, Checker!HasPart
      <4>5. QED
        BY <3>1, <3>3, <4>4
    <3>4. QED
      BY <1>2, <3>2, <3>3 DEF Emits
  <2>2. ASSUME NEW i \in 1 .. Len(corrections')
        PROVE  Checker!HasPart(question', corrections'[i].original) /\ Visible(corrections[i].corrected)'
    <3>1. PICK s : corrections'[i].corrected = s /\ Visible(s)'
      BY <2>1
    <3>2. Visible(corrections[i].corrected)'
      BY <3>1 DEF Visible, Awaited
    <3>3. QED
      BY <1>1, <2>1, <3>2
  <2>3. QED
    BY <2>2 DEF CorrectionsShow, Checker!HasPart
<1>9. LongestShows'
  <2>1. ASSUME NEW j, IsUsed(j)' PROVE Visible(Spelled[j])'
    <3>1. IsUsed(j)
      BY <1>1, <2>1 DEF IsUsed, IsLongest, Elements, Checker!Occurs
    <3>2. Visible(Spelled[j])
      BY <1>1, <3>1 DEF SpellingInv, LongestShows
    <3>3. j \in Jargon
      BY <1>3, <3>1 DEF IsUsed, IsLongest, SpellingTypes, Elements
    <3>4. Spelled[j] \in Seq(Outcome)
      BY <3>3, CheckerConstants, LetterOutcome
    <3>5. QED
      BY <1>7, <3>2, <3>4
  <2>2. QED
    BY <2>1 DEF LongestShows
<1>10. ExemptCounted'
  <2>1. Left' = Left
    BY <1>1 DEF Left, Checker!InJargon, Checker!Range
  <2>2. ASSUME NEW w \in Left
        PROVE  Times(question, 1, Len(question), w)
                 <= Times(corrected', 1, Len(corrected'), w)
                      + Times(text, position', Len(text), Checker!Plain(w))
    <3>1. Times(question, 1, Len(question), w)
            <= Times(corrected, 1, Len(corrected), w) + Times(text, position, Len(text), Checker!Plain(w))
      BY DEF SpellingInv, ExemptCounted
    <3>2. Times(corrected, 1, Len(corrected), w) + Times(text, position, Len(text), Checker!Plain(w))
            <= Times(corrected', 1, Len(corrected'), w)
                 + Times(text, position', Len(text), Checker!Plain(w))
      BY <1>2, TokenKeeps
    <3>3. /\ Len(question) \in Int /\ Len(corrected) \in Int /\ Len(corrected') \in Int
          /\ Len(text) \in Int /\ position \in Int /\ position' \in Int /\ 1 \in Int
      BY <1>1, <1>3, <1>4 DEF SpellingTypes
    <3>4. PICK x : x = Checker!Plain(w)
      OBVIOUS
    <3>5. /\ Times(question, 1, Len(question), w) \in Nat /\ Times(corrected, 1, Len(corrected), w) \in Nat
          /\ Times(corrected', 1, Len(corrected'), w) \in Nat
          /\ Times(text, position, Len(text), x) \in Nat /\ Times(text, position', Len(text), x) \in Nat
      BY ONLY <3>3, PlacesAreFinite
    <3>6. QED
      BY ONLY <3>1, <3>2, <3>4, <3>5
  <2>3. QED
    BY <1>1, <2>1, <2>2 DEF ExemptCounted, Times, Places
<1>11. QED
  BY <1>4, <1>5, <1>6, <1>8, <1>9, <1>10 DEF SpellingInv

LEMMA SpellingSteps ==
  ASSUME SpellingInv, Checker!Next \/ UNCHANGED spelling
  PROVE  SpellingInv'
<1>1. CASE Checker!Find
  BY <1>1, FindSteps
<1>2. CASE Checker!Replace
  <2>1. CASE matches = {}
    BY <1>2, <2>1, NextTermSteps
  <2>2. CASE matches # {}
    <3>1. Putting
      BY <1>2, <2>2 DEF Putting, Checker!Replace
    <3>2. QED
      BY <3>1, PutSteps
  <2>3. QED
    BY <2>1, <2>2
<1>3. CASE Checker!Token
  BY <1>3, TokenSteps
<1>4. CASE Checker!Return
  BY <1>4, ReturnSteps
<1>5. CASE Checker!Over
  BY <1>5, SpellingStutter DEF Checker!Over, Checker!vars, spelling
<1>6. CASE UNCHANGED spelling
  BY <1>6, SpellingStutter
<1>7. QED
  BY <1>1, <1>2, <1>3, <1>4, <1>5, <1>6 DEF Checker!Next

\* When it is over, nothing is awaited any more.
LEMMA SpellingSound ==
  ASSUME SpellingInv
  PROVE  /\ Checker!TypeOK
         /\ Checker!CorrectionsAreReal /\ Checker!LongestTermIsKept /\ Checker!ExemptAreKept
<1>1. SpellingTypes
  BY DEF SpellingInv
<1>2. /\ question \in Seq(Letter) /\ jargons \in Seq(Jargon) /\ text \in Seq(Atom)
      /\ corrected \in Seq(Outcome) /\ corrections \in Seq(Correction)
  BY <1>1 DEF SpellingTypes
<1>3. /\ DOMAIN text = 1 .. Len(text) /\ DOMAIN question = 1 .. Len(question)
      /\ DOMAIN corrections = 1 .. Len(corrections)
      /\ Len(text) \in Nat /\ Len(question) \in Nat /\ Len(corrected) \in Nat
  BY <1>2
<1>4. Checker!Range(jargons) = Elements(jargons)
  <2>1. DOMAIN jargons = 1 .. Len(jargons)
    BY <1>2
  <2>2. QED
    BY <2>1 DEF Checker!Range, Elements
<1>5. Checker!Text = Seq(Outcome)
  BY DEF Checker!Text, Outcome, Letter
<1>6. Checker!TypeOK
  <2>1. ASSUME NEW i \in 1 .. Len(text), text[i].is = "placeholder"
        PROVE  text[i].text \in Checker!Range(jargons)
    <3>1. text[i] \in Atom
      BY <1>2, <2>1
    <3>2. QED
      BY <1>4, <2>1, <3>1, Atoms
  <2>2. ASSUME NEW i \in 1 .. Len(corrections)
        PROVE  corrections[i].original \in Checker!Text /\ corrections[i].corrected \in Checker!Text
    <3>1. corrections[i] \in Correction
      BY <1>2, <2>2
    <3>2. QED
      BY <1>5, <3>1 DEF Correction
  <2>3. /\ checking \in {"find", "replace", "words", "done"} /\ term \in 1 .. Len(jargons) + 1
        /\ matches \in SUBSET (1 .. Len(text)) /\ position \in 1 .. Len(text) + 1
        /\ corrected \in Seq(Outcome)
    BY <1>1 DEF SpellingTypes
  <2>4. QED
    BY <1>3, <1>5, <2>1, <2>2, <2>3 DEF Checker!TypeOK
<1>7. ASSUME checking = "done", Checker!Restored, NEW s, Visible(s)
      PROVE  Checker!HasPart(corrected, s)
  <2>1. position = Len(text) + 1 /\ ~Checker!HasPart(corrected, <<Checker!Hole>>)
    BY <1>1, <1>7 DEF Checker!Restored, SpellingTypes
  <2>2. position .. Len(text) = {}
    BY <1>3, <2>1
  <2>3. ~Awaited(s)
    BY <2>2 DEF Awaited
  <2>4. QED
    BY <1>7, <2>1, <2>3 DEF Visible
<1>8. Checker!CorrectionsAreReal
  <2>1. ASSUME checking = "done", Checker!Restored, NEW i \in 1 .. Len(corrections)
        PROVE  /\ Checker!HasPart(question, corrections[i].original)
               /\ Checker!HasPart(corrected, corrections[i].corrected)
    BY <1>7, <2>1 DEF SpellingInv, CorrectionsShow
  <2>2. QED
    BY <1>3, <2>1 DEF Checker!CorrectionsAreReal
<1>9. Checker!LongestTermIsKept
  <2>1. ASSUME checking = "done", Checker!Restored, NEW j \in Elements(jargons),
               \A k \in Elements(jargons) \ {j} : Length[k] < Length[j],
               \E i \in 1 .. Len(question) :
                 Checker!Occurs([n \in DOMAIN question |-> Checker!Plain(question[n])], j, i)
        PROVE  Checker!HasPart(corrected, Spelled[j])
    <3>1. IsUsed(j)
      BY <2>1 DEF IsUsed, IsLongest
    <3>2. checking = "done"
      BY <2>1
    <3>3. Visible(Spelled[j])
      BY <3>1, <3>2 DEF SpellingInv, LongestShows
    <3>4. QED
      BY <1>7, <2>1, <3>3
  <2>2. QED
    BY <1>3, <1>4, <2>1 DEF Checker!LongestTermIsKept
<1>10. Checker!ExemptAreKept
  <2>1. ASSUME checking = "done", NEW w \in Technical \cup Stopword, ~Checker!InJargon(w)
        PROVE  Checker!Count(corrected, w) >= Checker!Count(question, w)
    <3>1. w \in Left
      BY <2>1 DEF Left
    <3>2. position = Len(text) + 1
      BY <1>1, <2>1 DEF SpellingTypes
    <3>3. PICK x : x = Checker!Plain(w)
      OBVIOUS
    <3>4. position \in Int /\ Len(text) \in Int /\ \A i \in position .. Len(text) : text[i] # x
      BY <1>3, <3>2
    <3>5. Times(text, position, Len(text), x) = 0
      BY ONLY <3>4, TimesOfNone
    <3>6. Times(question, 1, Len(question), w)
            <= Times(corrected, 1, Len(corrected), w) + Times(text, position, Len(text), x)
      BY <3>1, <3>3 DEF SpellingInv, ExemptCounted
    <3>7. /\ Checker!Count(corrected, w) = Times(corrected, 1, Len(corrected), w)
          /\ Checker!Count(question, w) = Times(question, 1, Len(question), w)
      BY <1>2, TimesAreCounted
    <3>8. 1 \in Int /\ Len(corrected) \in Int /\ Len(question) \in Int
      BY <1>3
    <3>9. /\ Times(corrected, 1, Len(corrected), w) \in Nat
          /\ Times(question, 1, Len(question), w) \in Nat
      BY ONLY <3>8, PlacesAreFinite
    <3>10. QED
      BY ONLY <3>5, <3>6, <3>7, <3>9
  <2>2. QED
    BY <2>1 DEF Checker!ExemptAreKept
<1>11. QED
  BY <1>6, <1>8, <1>9, <1>10

-----------------------------------------------------------------------------
(* Spelling: no placeholder beside a word                                  *)

AllClosed == \A j \in Elements(jargons) : Checker!Closed(j)

\* A placeholder stands alone.
Alone ==
  \A i \in 1 .. Len(text) : text[i].is = "placeholder" =>
    /\ i > 1 => ~Checker!Joins(text[i - 1])
    /\ i < Len(text) => ~Checker!Joins(text[i + 1])

\* Beside an occurrence that is still to be replaced no word goes on.
FencedAt(i) ==
  /\ i > 1 => ~Checker!Bounded(text[i - 1])
  /\ i + Size <= Len(text) => ~Checker!Bounded(text[i + Size])
Fenced == checking = "replace" => \A i \in matches : FencedAt(i)

Unmixed == AllClosed => Alone /\ Fenced /\ corrected \in Seq(Letter)

LEMMA EdgesOf ==
  ASSUME NEW j \in Jargon, Checker!Closed(j)
  PROVE  /\ Checker!Bounded(Checker!Plain(Spelled[j][1]))
         /\ Checker!Bounded(Checker!Plain(Spelled[j][Len(Spelled[j])]))
<1>1. Spelled[j] \in Seq(Letter) /\ Len(Spelled[j]) \in Nat \ {0}
  BY CheckerConstants
<1>2. Head(Spelled[j]) = Spelled[j][1]
  BY <1>1
<1>3. QED
  BY <1>2 DEF Checker!Closed, Checker!Last

\* An atom that reads like one of a word goes on like it.
LEMMA ReadsAlike ==
  ASSUME NEW x \in Atom, x.is # "placeholder", NEW b \in Letter,
         Checker!Folded(x.text) = Checker!Folded(b), Checker!Bounded(Checker!Plain(b))
  PROVE  Checker!Bounded(x)
<1>1. Word \cap Separator = {} /\ Lower \in [Word -> Word]
  BY StagesAssumption DEF Checker!Parameters
<1>2. PICK a : a = x.text
  OBVIOUS
<1>3. a \in Letter /\ x = Checker!Plain(a)
  BY <1>2, Atoms
<1>4. \A c : /\ Checker!Plain(c).text = c
             /\ Checker!Plain(c).is = IF c \in Word THEN "word" ELSE "separator"
  BY DEF Checker!Plain
<1>5. \A c : Checker!Bounded(Checker!Plain(c)) <=> (c \in Word \/ c = "-")
  BY <1>4 DEF Checker!Bounded, Checker!Joins
<1>6. (IF a \in Word THEN Lower[a] ELSE a) = (IF b \in Word THEN Lower[b] ELSE b)
  BY <1>2 DEF Checker!Folded
<1>7. b \in Word \/ b = "-"
  BY <1>5
<1>8. a \in Word \/ a = "-"
  BY <1>1, <1>6, <1>7
<1>9. QED
  BY <1>3, <1>5, <1>8

LEMMA UnmixedInit == ASSUME Checker!Init, SpellingInv PROVE Unmixed
<1>1. checking = "find" /\ corrected = <<>>
  BY DEF Checker!Init
<1>2. text = [i \in DOMAIN question |-> Checker!Plain(question[i])] /\ question \in Seq(Letter)
  BY DEF Checker!Init, SpellingInv, SpellingTypes
<1>3. DOMAIN question = 1 .. Len(question) /\ \A i \in 1 .. Len(question) : question[i] \in Letter
  BY <1>2
<1>4. text \in Seq(Atom)
  BY DEF SpellingInv, SpellingTypes
<1>5. DOMAIN text = 1 .. Len(text) /\ DOMAIN text = DOMAIN question
  BY <1>2, <1>4
<1>6. \A i \in 1 .. Len(text) : text[i].is # "placeholder"
  BY <1>2, <1>3, <1>5, Atoms
<1>7. QED
  BY <1>1, <1>6 DEF Unmixed, Alone, Fenced

\* An occurrence is replaced.
LEMMA UnmixedPut ==
  ASSUME SpellingInv, Unmixed, Putting
  PROVE  Unmixed'
<1>1. /\ Last \in matches /\ Last \in 1 .. Len(text) /\ Len(text) \in Nat
      /\ Term \in Jargon /\ Term \in Elements(jargons)
      /\ Size \in Nat \ {0} /\ Last + Size - 1 <= Len(text) /\ Fits(Term, Last)
      /\ \A m \in matches \ {Last} : m + Size - 1 < Last /\ m \in 1 .. Len(text)
  BY LastMatch DEF Putting
<1>2. /\ jargons' = jargons /\ checking' = checking /\ term' = term /\ corrected' = corrected
      /\ matches' = matches \ {Last} /\ Len(text') = Len(text) - Size + 1 /\ Len(text') \in Nat
      /\ Last \in 1 .. Len(text') /\ text'[Last] = Checker!Placeholder(Term)
      /\ \A m \in 1 .. Last - 1 : text'[m] = text[m]
      /\ \A m \in Last + 1 .. Len(text') : text'[m] = text[m + Size - 1]
  BY TextReplaced
<1>3. SUFFICES ASSUME AllClosed PROVE Alone' /\ Fenced' /\ corrected' \in Seq(Letter)
  BY <1>2 DEF Unmixed, AllClosed, Elements
<1>4. Alone /\ (\A m \in matches : FencedAt(m)) /\ corrected \in Seq(Letter)
  BY <1>3 DEF Unmixed, Fenced, Putting
<1>5. Size' = Size
  BY <1>2, SameTerms DEF Size, Term
<1>6. \A x : ~Checker!Bounded(x) => ~Checker!Joins(x)
  BY DEF Checker!Bounded
<1>7. \A x : x.is = "placeholder" => Checker!Joins(x)
  BY DEF Checker!Joins
<1>8. FencedAt(Last)
  BY <1>1, <1>4
<1>9. /\ Last > 1 => ~Checker!Joins(text[Last - 1])
      /\ Last + Size <= Len(text) => ~Checker!Joins(text[Last + Size])
  BY <1>6, <1>8 DEF FencedAt
<1>10. ASSUME NEW i \in 1 .. Len(text'), text'[i].is = "placeholder"
       PROVE  /\ i > 1 => ~Checker!Joins(text'[i - 1])
              /\ i < Len(text') => ~Checker!Joins(text'[i + 1])
  <2>1. CASE i < Last
    <3>1. i \in 1 .. Len(text) /\ i < Len(text) /\ text'[i] = text[i] /\ text[i].is = "placeholder"
      BY <1>1, <1>2, <1>10, <2>1
    <3>2. i + 1 # Last
      <4>1. ASSUME i + 1 = Last PROVE FALSE
        <5>1. Last > 1 /\ Last - 1 = i
          BY <1>10, <4>1
        <5>2. QED
          BY <1>7, <1>9, <3>1, <5>1
      <4>2. QED
        BY <4>1
    <3>3. i > 1 => text'[i - 1] = text[i - 1]
      BY <1>1, <1>2, <1>10, <2>1
    <3>4. text'[i + 1] = text[i + 1]
      <4>1. i + 1 \in 1 .. Last - 1
        BY <1>1, <1>10, <2>1, <3>2
      <4>2. QED
        BY <1>2, <4>1
    <3>5. QED
      BY <1>4, <3>1, <3>3, <3>4 DEF Alone
  <2>2. CASE i = Last
    <3>1. i > 1 => text'[i - 1] = text[i - 1]
      BY <1>1, <1>2, <2>2
    <3>2. i < Len(text') => text'[i + 1] = text[i + Size] /\ Last + Size <= Len(text)
      BY <1>1, <1>2, <2>2
    <3>3. QED
      BY <1>9, <2>2, <3>1, <3>2
  <2>3. CASE i > Last
    <3>1. PICK p \in Int : p = i + Size - 1
      BY <1>1, <1>10
    <3>2. p \in 1 .. Len(text) /\ text'[i] = text[p] /\ p > 1 /\ text[p].is = "placeholder"
      <4>1. i \in Last + 1 .. Len(text') /\ p \in 1 .. Len(text) /\ p > 1
        BY <1>1, <1>2, <1>10, <2>3, <3>1
      <4>2. text'[i] = text[p]
        BY <1>2, <3>1, <4>1
      <4>3. QED
        BY <1>10, <4>1, <4>2
    <3>3. i - 1 # Last
      <4>1. ASSUME i - 1 = Last PROVE FALSE
        <5>1. Last + Size = p /\ Last + Size <= Len(text)
          BY <1>1, <1>10, <3>1, <3>2, <4>1
        <5>2. QED
          BY <1>7, <1>9, <3>2, <5>1
      <4>2. QED
        BY <4>1
    <3>4. text'[i - 1] = text[p - 1]
      <4>1. i - 1 \in Last + 1 .. Len(text') /\ (i - 1) + Size - 1 = p - 1
        BY <1>1, <1>2, <1>10, <2>3, <3>1, <3>3
      <4>2. QED
        BY <1>2, <4>1
    <3>5. i < Len(text') => p < Len(text) /\ text'[i + 1] = text[p + 1]
      <4>1. ASSUME i < Len(text')
            PROVE  i + 1 \in Last + 1 .. Len(text') /\ (i + 1) + Size - 1 = p + 1 /\ p < Len(text)
        BY <1>1, <1>2, <1>10, <2>3, <3>1, <4>1
      <4>2. QED
        BY <1>2, <4>1
    <3>6. QED
      BY <1>4, <3>2, <3>4, <3>5 DEF Alone
  <2>4. QED
    BY <1>1, <1>10, <2>1, <2>2, <2>3
<1>11. ASSUME NEW m \in matches \ {Last} PROVE FencedAt(m)'
  <2>1. m + Size - 1 < Last /\ m \in 1 .. Len(text) /\ FencedAt(m)
    BY <1>1, <1>4
  <2>2. m > 1 => text'[m - 1] = text[m - 1]
    BY <1>1, <1>2, <2>1
  <2>3. m + Size # Last
    <3>1. ASSUME m + Size = Last PROVE FALSE
      <4>1. ~Checker!Bounded(text[Last])
        BY <1>1, <2>1, <3>1 DEF FencedAt
      <4>2. text[Last] \in Atom
        BY <1>1 DEF SpellingInv, SpellingTypes
      <4>3. 1 \in 1 .. Size /\ Last + 1 - 1 = Last /\ 1 \in 1 .. Len(Spelled[Term])
        BY <1>1 DEF Size
      <4>4. /\ text[Last].is # "placeholder"
            /\ Checker!Folded(text[Last].text) = Checker!Folded(Spelled[Term][1])
        BY <1>1, <4>3 DEF Fits
      <4>5. Spelled[Term][1] \in Letter
        BY <1>1, <4>3, CheckerConstants
      <4>6. Checker!Bounded(Checker!Plain(Spelled[Term][1]))
        BY <1>1, <1>3, EdgesOf DEF AllClosed
      <4>7. QED
        BY <4>1, <4>2, <4>4, <4>5, <4>6, ReadsAlike
    <3>2. QED
      BY <3>1
  <2>4. m + Size \in 1 .. Last - 1 /\ m + Size <= Len(text)
    BY <1>1, <2>1, <2>3
  <2>5. text'[m + Size] = text[m + Size]
    BY <1>2, <2>4
  <2>6. QED
    BY <1>5, <2>1, <2>2, <2>4, <2>5 DEF FencedAt
<1>12. Fenced'
  BY <1>2, <1>11 DEF Fenced
<1>13. QED
  BY <1>2, <1>4, <1>10, <1>12 DEF Alone

\* The occurrences of the next term are looked for.
LEMMA UnmixedFind ==
  ASSUME SpellingInv, Unmixed, Checker!Find
  PROVE  Unmixed'
<1>1. /\ jargons' = jargons /\ term' = term /\ text' = text /\ corrected' = corrected
      /\ checking = "find"
  BY DEF Checker!Find
<1>2. \/ checking' = "words"
      \/ /\ ~(term > Len(jargons)) /\ checking' = "replace"
         /\ matches' = {i \in DOMAIN text : Checker!Occurs(text, Term, i)}
  BY DEF Checker!Find, Term
<1>3. SUFFICES ASSUME AllClosed PROVE Alone' /\ Fenced' /\ corrected' \in Seq(Letter)
  BY <1>1 DEF Unmixed, AllClosed, Elements
<1>4. Alone' /\ corrected' \in Seq(Letter)
  BY <1>1, <1>3 DEF Unmixed, Alone
<1>5. ASSUME checking' = "replace", NEW i \in matches' PROVE FencedAt(i)'
  <2>1. ~(term > Len(jargons)) /\ Checker!Occurs(text, Term, i)
    BY <1>2, <1>5
  <2>2. Term \in Jargon /\ Term \in Elements(jargons)
    <3>1. jargons \in Seq(Jargon) /\ term \in 1 .. Len(jargons) + 1 /\ Len(jargons) \in Nat
      BY DEF SpellingInv, SpellingTypes
    <3>2. term \in 1 .. Len(jargons)
      BY <2>1, <3>1
    <3>3. Term \in Elements(jargons)
      BY <3>1, <3>2, TermsSorted DEF Term
    <3>4. QED
      BY <3>1, <3>3 DEF Elements
  <2>3. /\ Checker!Bounded(Checker!Plain(Spelled[Term][1]))
        /\ Checker!Bounded(Checker!Plain(Spelled[Term][Size]))
    BY <1>3, <2>2, EdgesOf DEF AllClosed, Size
  <2>4. FencedAt(i)
    BY <2>1, <2>3 DEF Checker!Occurs, FencedAt, Size
  <2>5. Size' = Size
    BY <1>1, SameTerms DEF Size, Term
  <2>6. QED
    BY <1>1, <2>4, <2>5 DEF FencedAt
<1>6. QED
  BY <1>4, <1>5 DEF Fenced

\* What a token leaves is made of words and separators.
LEMMA UnmixedToken ==
  ASSUME SpellingInv, Unmixed, Checker!Token
  PROVE  Unmixed'
<1>1. /\ jargons' = jargons /\ checking' = checking /\ term' = term /\ matches' = matches
      /\ text' = text /\ checking = "words"
  BY TokenEmits
<1>2. SUFFICES ASSUME AllClosed PROVE Alone' /\ Fenced' /\ corrected' \in Seq(Letter)
  BY <1>1 DEF Unmixed, AllClosed, Elements
<1>3. Alone /\ corrected \in Seq(Letter)
  BY <1>2 DEF Unmixed
<1>4. /\ position \in 1 .. Len(text) /\ Len(text) \in Nat /\ TokenEnd \in position .. Len(text)
      /\ TokenEnd > position => \A m \in position .. TokenEnd : text[m].is # "separator"
  BY TokenEnds
<1>5. text \in Seq(Atom) /\ jargons \in Seq(Jargon)
  BY DEF SpellingInv, SpellingTypes
<1>6. \A m \in 1 .. Len(text) : text[m] \in Atom
  BY <1>5
<1>7. CASE TokenEnd > position
  <2>1. ASSUME NEW m \in position .. TokenEnd PROVE text[m].is # "placeholder"
    <3>1. m \in 1 .. Len(text) /\ (m < TokenEnd \/ m > position)
      BY <1>4, <1>7
    <3>2. CASE m < TokenEnd
      <4>1. m + 1 \in position .. TokenEnd /\ m < Len(text)
        BY <1>4, <3>2
      <4>2. Checker!Joins(text[m + 1])
        BY <1>4, <1>7, <4>1 DEF Checker!Joins
      <4>3. QED
        BY <1>3, <3>1, <4>1, <4>2 DEF Alone
    <3>3. CASE m > position
      <4>1. m - 1 \in position .. TokenEnd /\ m > 1
        BY <1>4, <3>3
      <4>2. Checker!Joins(text[m - 1])
        BY <1>4, <1>7, <4>1 DEF Checker!Joins
      <4>3. QED
        BY <1>3, <3>1, <4>1, <4>2 DEF Alone
    <3>4. QED
      BY <3>1, <3>2, <3>3
  <2>2. PICK N \in Nat : N = TokenEnd - position + 1
    BY <1>4
  <2>3. PICK out : out = [k \in 1 .. N |-> Checker!Kept(text[position + k - 1])]
    OBVIOUS
  <2>4. ASSUME NEW k \in 1 .. N PROVE Checker!Kept(text[position + k - 1]) \in Letter
    <3>1. position + k - 1 \in position .. TokenEnd /\ position + k - 1 \in 1 .. Len(text)
      BY <1>4, <2>2
    <3>2. QED
      BY <1>6, <2>1, <3>1, Atoms DEF Checker!Kept
  <2>5. out \in Seq(Letter)
    <3>1. out \in [1 .. N -> Letter]
      BY <2>3, <2>4
    <3>2. QED
      BY <2>2, <3>1, ListOf
  <2>6. corrected' = corrected \o out
    <3>1. ~(TokenEnd = position)
      BY <1>4, <1>7
    <3>2. corrected' = corrected \o [k \in 1 .. TokenEnd - position + 1 |->
                                       Checker!Kept(text[position + k - 1])]
      BY <3>1, Zenon DEF Checker!Token, TokenEnd
    <3>3. QED
      BY <2>2, <2>3, <3>2, Zenon
  <2>7. corrected' \in Seq(Letter)
    BY <1>3, <2>5, <2>6
  <2>8. QED
    BY <1>1, <1>3, <2>7 DEF Alone, Fenced
<1>8. CASE TokenEnd = position
  <2>1. PICK atom \in Atom : atom = text[position]
    BY <1>4, <1>6
  <2>2. ~(TokenEnd > position)
    BY <1>4, <1>8
  <2>3. \/ atom.is = "separator" /\ corrected' = Append(corrected, atom.text)
        \/ atom.is = "placeholder" /\ corrected' = corrected \o Spelled[atom.text]
        \/ atom.is = "word" /\ corrected' = corrected \o Checker!Chosen(atom.text)
    BY <2>1, <2>2 DEF Checker!Token, TokenEnd
  <2>4. CASE atom.is = "separator" /\ corrected' = Append(corrected, atom.text)
    <3>1. atom.text \in Letter
      BY <2>4, Atoms
    <3>2. QED
      BY <1>1, <1>3, <2>4, <3>1 DEF Alone, Fenced
  <2>5. CASE atom.is = "placeholder" /\ corrected' = corrected \o Spelled[atom.text]
    <3>1. atom.text \in Jargon
      BY <1>5, <2>5, Atoms DEF Elements
    <3>2. Spelled[atom.text] \in Seq(Letter)
      BY <3>1, CheckerConstants
    <3>3. corrected' \in Seq(Letter)
      BY <1>3, <2>5, <3>2
    <3>4. QED
      BY <1>1, <1>3, <3>3 DEF Alone, Fenced
  <2>6. CASE atom.is = "word" /\ corrected' = corrected \o Checker!Chosen(atom.text)
    <3>1. Checker!Chosen(atom.text) \in Seq(Letter)
      BY <2>6, Atoms, Chooses
    <3>2. corrected' \in Seq(Letter)
      BY <1>3, <2>6, <3>1
    <3>3. QED
      BY <1>1, <1>3, <3>2 DEF Alone, Fenced
  <2>7. QED
    BY <2>3, <2>4, <2>5, <2>6
<1>9. QED
  BY <1>4, <1>7, <1>8

LEMMA UnmixedSteps ==
  ASSUME SpellingInv, Unmixed, Checker!Next \/ UNCHANGED spelling
  PROVE  Unmixed'
<1>1. CASE Checker!Find
  BY <1>1, UnmixedFind
<1>2. CASE Checker!Token
  BY <1>2, UnmixedToken
<1>3. CASE Putting
  BY <1>3, UnmixedPut
<1>4. CASE \/ Checker!Replace /\ matches = {}
           \/ Checker!Return \/ Checker!Over \/ UNCHANGED spelling
  <2>1. /\ jargons' = jargons /\ text' = text /\ corrected' = corrected
        /\ \/ checking' # "replace"
           \/ checking' = checking /\ matches' = matches /\ term' = term
    BY <1>4 DEF Checker!Replace, Checker!Return, Checker!Over, Checker!vars, spelling
  <2>2. Alone' <=> Alone
    BY <2>1 DEF Alone
  <2>3. Fenced => Fenced'
    <3>1. CASE checking' # "replace"
      BY <3>1 DEF Fenced
    <3>2. CASE checking' = checking /\ matches' = matches /\ term' = term
      <4>1. Size' = Size
        BY <2>1, <3>2, SameTerms DEF Size, Term
      <4>2. \A i : FencedAt(i)' <=> FencedAt(i)
        BY <2>1, <4>1 DEF FencedAt
      <4>3. QED
        BY <3>2, <4>2 DEF Fenced
    <3>3. QED
      BY <2>1, <3>1, <3>2
  <2>4. AllClosed' <=> AllClosed
    BY <2>1 DEF AllClosed, Elements
  <2>5. QED
    BY <2>1, <2>2, <2>3, <2>4 DEF Unmixed
<1>5. QED
  BY <1>1, <1>2, <1>3, <1>4 DEF Checker!Next, Checker!Replace, Putting

LEMMA NothingLeft ==
  ASSUME SpellingInv, Unmixed
  PROVE  Checker!NothingIsLeft
<1>1. SUFFICES ASSUME \A j \in Checker!Range(jargons) : Checker!Closed(j),
                      Checker!HasPart(corrected, <<Checker!Hole>>)
               PROVE  FALSE
  BY DEF Checker!NothingIsLeft, Checker!Restored
<1>2. Checker!Range(jargons) = Elements(jargons)
  <2>1. jargons \in Seq(Jargon)
    BY DEF SpellingInv, SpellingTypes
  <2>2. DOMAIN jargons = 1 .. Len(jargons)
    BY <2>1
  <2>3. QED
    BY <2>2 DEF Checker!Range, Elements
<1>3. corrected \in Seq(Letter)
  BY <1>1, <1>2 DEF Unmixed, AllClosed
<1>4. PICK i \in DOMAIN corrected :
        \A k \in DOMAIN <<Checker!Hole>> : corrected[i + k - 1] = <<Checker!Hole>>[k]
  BY <1>1 DEF Checker!HasPart
<1>5. i \in 1 .. Len(corrected) /\ corrected[i] \in Letter /\ i + 1 - 1 = i
  BY <1>3
<1>6. 1 \in DOMAIN <<Checker!Hole>> /\ <<Checker!Hole>>[1] = Checker!Hole
  OBVIOUS
<1>7. corrected[i] = Checker!Hole
  BY <1>4, <1>5, <1>6
<1>8. Checker!Hole \notin Letter
  BY StagesAssumption DEF Checker!Parameters, Letter
<1>9. QED
  BY <1>5, <1>7, <1>8

-----------------------------------------------------------------------------
(* The repair: groups                                                      *)

\* The tables next to t, and those that walks from S through M reach.
Beside(E, t) == {u \in SchemaTable : u # t /\ {t, u} \in E}
Stays(E, M, R) == \A t \in R : Beside(E, t) \cap M \subseteq R
From(E, S, M) ==
  {x \in S \cup M : \A R \in SUBSET (S \cup M) : S \subseteq R /\ Stays(E, M, R) => x \in R}

LEMMA FromStays ==
  ASSUME NEW E, NEW S, NEW M
  PROVE  S \subseteq From(E, S, M) /\ From(E, S, M) \subseteq S \cup M /\ Stays(E, M, From(E, S, M))
<1>1. S \subseteq From(E, S, M) /\ From(E, S, M) \subseteq S \cup M
  BY DEF From
<1>2. ASSUME NEW t \in From(E, S, M), NEW u \in Beside(E, t) \cap M
      PROVE  u \in From(E, S, M)
  <2>1. ASSUME NEW R \in SUBSET (S \cup M), S \subseteq R, Stays(E, M, R) PROVE u \in R
    <3>1. t \in R
      BY <1>2, <2>1 DEF From
    <3>2. QED
      BY <1>2, <2>1, <3>1 DEF Stays
  <2>2. QED
    BY <1>2, <2>1 DEF From
<1>3. QED
  BY <1>1, <1>2 DEF Stays

\* Nothing is reached that a set lacks which such walks do not leave.
LEMMA FromLeast ==
  ASSUME NEW E, NEW S, NEW M, NEW R, S \subseteq R, Stays(E, M, R)
  PROVE  From(E, S, M) \subseteq R
<1> DEFINE Q == R \cap (S \cup M)
<1>1. Q \in SUBSET (S \cup M) /\ S \subseteq Q
  OBVIOUS
<1>2. Stays(E, M, Q)
  BY DEF Stays
<1>3. From(E, S, M) \subseteq Q
  <2> HIDE DEF Q
  <2> QED
    BY <1>1, <1>2 DEF From
<1>4. QED
  BY <1>3

LEMMA FromGrows ==
  ASSUME NEW E, NEW S, NEW M, NEW T, NEW N, S \subseteq T, M \subseteq N
  PROVE  From(E, S, M) \subseteq From(E, T, N)
<1>1. T \subseteq From(E, T, N) /\ Stays(E, N, From(E, T, N))
  BY FromStays
<1>2. Stays(E, M, From(E, T, N))
  BY <1>1 DEF Stays
<1>3. S \subseteq From(E, T, N)
  BY <1>1
<1>4. QED
  BY <1>2, <1>3, FromLeast

LEMMA FromBack ==
  ASSUME NEW E, NEW M \in SUBSET SchemaTable, NEW t \in M, NEW x \in From(E, {t}, M)
  PROVE  t \in From(E, {x}, M) /\ x \in M
<1> DEFINE R == From(E, {t}, M) \ From(E, {x}, M)
<1>1. x \in M
  BY FromStays
<1>2. SUFFICES ASSUME t \notin From(E, {x}, M) PROVE FALSE
  BY <1>1
<1>3. /\ {t} \subseteq From(E, {t}, M) /\ Stays(E, M, From(E, {t}, M)) /\ From(E, {t}, M) \subseteq {t} \cup M
      /\ {x} \subseteq From(E, {x}, M) /\ Stays(E, M, From(E, {x}, M))
  BY FromStays
<1>4. Stays(E, M, R)
  <2>1. ASSUME NEW u \in R, NEW v \in Beside(E, u) \cap M PROVE v \in R
    <3>1. v \in From(E, {t}, M)
      BY <1>3, <2>1 DEF Stays
    <3>2. ASSUME v \in From(E, {x}, M) PROVE FALSE
      <4>1. u \in M /\ u \in SchemaTable /\ v \in SchemaTable
        BY <1>3, <2>1
      <4>2. {v, u} = {u, v}
        OBVIOUS
      <4>3. u \in Beside(E, v)
        BY <2>1, <4>1, <4>2 DEF Beside
      <4>4. u \in From(E, {x}, M)
        BY <1>3, <3>2, <4>1, <4>3 DEF Stays
      <4>5. QED
        BY <2>1, <4>4
    <3>3. QED
      BY <3>1, <3>2
  <2> HIDE DEF R
  <2>2. QED
    BY <2>1 DEF Stays
<1>5. {t} \subseteq R
  BY <1>2, <1>3
<1>6. From(E, {t}, M) \subseteq R
  <2> HIDE DEF R
  <2> QED
    BY <1>4, <1>5, FromLeast
<1>7. QED
  BY <1>3, <1>6

\* What is reached from a table is reached from all that it reaches.
LEMMA FromSame ==
  ASSUME NEW E, NEW M \in SUBSET SchemaTable, NEW t \in M, NEW x \in From(E, {t}, M)
  PROVE  From(E, {x}, M) = From(E, {t}, M)
<1>1. ASSUME NEW a \in M, NEW b \in From(E, {a}, M) PROVE From(E, {b}, M) \subseteq From(E, {a}, M)
  <2>1. Stays(E, M, From(E, {a}, M)) /\ {b} \subseteq From(E, {a}, M)
    BY FromStays
  <2>2. QED
    BY <2>1, FromLeast
<1>2. t \in From(E, {x}, M) /\ x \in M
  BY FromBack
<1>3. QED
  BY <1>1, <1>2

\* And within what it reaches.
LEMMA FromWithin ==
  ASSUME NEW E, NEW M \in SUBSET SchemaTable, NEW t \in M
  PROVE  From(E, {t}, From(E, {t}, M)) = From(E, {t}, M)
<1> DEFINE G == From(E, {t}, M)
           H == From(E, {t}, G)
<1>1. {t} \subseteq G /\ G \subseteq M /\ Stays(E, M, G)
  BY FromStays
<1>2. {t} \subseteq H /\ H \subseteq {t} \cup G /\ Stays(E, G, H)
  <2> HIDE DEF G
  <2> QED
    BY FromStays
<1>3. Stays(E, M, H)
  <2> HIDE DEF G, H
  <2>1. ASSUME NEW u \in H, NEW v \in Beside(E, u) \cap M PROVE v \in H
    <3>1. u \in G
      BY <1>1, <1>2
    <3>2. v \in G
      BY <1>1, <2>1, <3>1 DEF Stays
    <3>3. QED
      BY <1>2, <2>1, <3>2 DEF Stays
  <2>2. QED
    BY <2>1 DEF Stays
<1>4. G \subseteq H
  <2>1. ASSUME NEW R, {t} \subseteq R, Stays(E, M, R) PROVE G \subseteq R
    BY <2>1, FromLeast
  <2> HIDE DEF G, H
  <2>2. QED
    BY <1>2, <1>3, <2>1
<1>5. H \subseteq G
  <2> HIDE DEF G, H
  <2> QED
    BY <1>1, <1>2
<1>6. QED
  BY <1>4, <1>5

\* gs are the groups of M: each of what its members reach.
Groups(E, M, gs) ==
  /\ \A i \in 1 .. Len(gs) : gs[i] # {} /\ gs[i] \in SUBSET M
  /\ \A i \in 1 .. Len(gs) : \A t \in gs[i] : gs[i] = From(E, {t}, M)
  /\ \A t \in M : \E i \in 1 .. Len(gs) : t \in gs[i]
  /\ \A i, j \in 1 .. Len(gs) : i # j => gs[i] \cap gs[j] = {}

\* No two elements are the same.
Distinct(s) == \A i, j \in 1 .. Len(s) : i # j => s[i] # s[j]

LEMMA ThoseAt ==
  ASSUME NEW A, NEW s \in Seq(A), NEW S
  PROVE  Repair!Those(s, S) = Scope!At(s, {i \in 1 .. Len(s) : s[i] \in S})
<1>1. PICK I : I = {i \in 1 .. Len(s) : s[i] \in S}
  OBVIOUS
<1>2. {i \in DOMAIN s : s[i] \in S} = I
  <2>1. DOMAIN s = 1 .. Len(s)
    OBVIOUS
  <2>2. QED
    BY <1>1, <2>1
<1>3. Repair!Cardinality(I) = Scope!Cardinality(I)
  BY Zenon DEF Repair!Cardinality, Scope!Cardinality
<1>4. Repair!SetToSeqs(I) = Scope!SetToSeqs(I)
  BY <1>3, Zenon DEF Repair!SetToSeqs, Scope!SetToSeqs
<1>5. PICK at : at = Scope!Sorted(I, <)
  OBVIOUS
<1>6. at = CHOOSE f \in Scope!SetToSeqs(I) : \A i, j \in DOMAIN f : i < j => f[i] < f[j]
  BY <1>5 DEF Scope!Sorted
<1>7. Scope!At(s, I) = [i \in DOMAIN at |-> s[at[i]]]
  BY <1>5 DEF Scope!At
<1>8. Repair!Those(s, S) = [i \in DOMAIN at |-> s[at[i]]]
  <2>1. Repair!InOrder(I) = at
    BY <1>4, <1>6 DEF Repair!InOrder
  <2>2. QED
    BY <1>2, <2>1 DEF Repair!Those
<1>9. QED
  BY <1>1, <1>7, <1>8

LEMMA TakesDistinct ==
  ASSUME NEW A, NEW s \in Seq(A), NEW t \in Seq(A), Takes(t, s), Distinct(s)
  PROVE  Distinct(t)
<1>1. PICK g \in [1 .. Len(t) -> 1 .. Len(s)] :
        /\ \A i, j \in 1 .. Len(t) : i # j => g[i] # g[j]
        /\ \A i \in 1 .. Len(t) : t[i] = s[g[i]]
  BY DEF Takes
<1>2. ASSUME NEW i \in 1 .. Len(t), NEW j \in 1 .. Len(t), i # j PROVE t[i] # t[j]
  <2>1. g[i] \in 1 .. Len(s) /\ g[j] \in 1 .. Len(s) /\ g[i] # g[j]
    BY <1>1, <1>2
  <2>2. t[i] = s[g[i]] /\ t[j] = s[g[j]]
    BY <1>1, <1>2
  <2>3. s[g[i]] # s[g[j]]
    BY <2>1 DEF Distinct
  <2>4. QED
    BY ONLY <2>2, <2>3
<1>3. QED
  BY <1>2 DEF Distinct

LEMMA ThoseAre ==
  ASSUME NEW A, NEW s \in Seq(A), Distinct(s), NEW S, NEW t, t = Repair!Those(s, S)
  PROVE  t \in Seq(A) /\ Distinct(t) /\ Elements(t) = Elements(s) \cap S
<1>1. PICK I : I = {i \in 1 .. Len(s) : s[i] \in S}
  OBVIOUS
<1>2. I \in SUBSET (1 .. Len(s)) /\ \A i \in 1 .. Len(s) : i \in I <=> s[i] \in S
  BY <1>1
<1>3. t = Scope!At(s, I)
  BY <1>1, ThoseAt
<1>4. /\ t \in Seq(A) /\ Takes(t, s)
      /\ \A i \in I : \E j \in 1 .. Len(t) : t[j] = s[i]
      /\ \A j \in 1 .. Len(t) : \E i \in I : t[j] = s[i]
  <2>1. /\ Scope!At(s, I) \in Seq(A) /\ Takes(Scope!At(s, I), s)
        /\ \A i \in I : \E j \in 1 .. Len(Scope!At(s, I)) : Scope!At(s, I)[j] = s[i]
        /\ \A j \in 1 .. Len(Scope!At(s, I)) : \E i \in I : Scope!At(s, I)[j] = s[i]
    BY <1>2, AtTakes
  <2>2. QED
    BY ONLY <1>3, <2>1
<1>5. Distinct(t)
  BY <1>4, TakesDistinct
<1>6. Elements(t) = Elements(s) \cap S
  <2>1. ASSUME NEW x \in Elements(t) PROVE x \in Elements(s) \cap S
    <3>1. PICK j \in 1 .. Len(t) : t[j] = x
      BY <2>1 DEF Elements
    <3>2. PICK i \in I : t[j] = s[i]
      BY <1>4
    <3>3. QED
      BY <1>2, <3>1, <3>2 DEF Elements
  <2>2. ASSUME NEW x \in Elements(s) \cap S PROVE x \in Elements(t)
    <3>1. PICK i \in 1 .. Len(s) : s[i] = x
      BY <2>2 DEF Elements
    <3>2. i \in I
      BY <1>2, <2>2, <3>1
    <3>3. PICK j \in 1 .. Len(t) : t[j] = s[i]
      BY <1>4, <3>2
    <3>4. QED
      BY <3>1, <3>3 DEF Elements
  <2>3. QED
    BY <2>1, <2>2
<1>7. QED
  BY <1>4, <1>5, <1>6

-----------------------------------------------------------------------------
(* The repair: the groups of a selection                                   *)

LEMMA ReachIs ==
  ASSUME NEW S, NEW M
  PROVE  Repair!Reach(S, M) = From(relationships, S, M)
  BY DEF Repair!Reach, Repair!neighbors, From, Stays, Beside

\* The groups that Group finds: those of the tables no other one of the group
\* is selected before.
IsFirst(E, s, t) == \A i \in 1 .. Len(s) : s[i] \in From(E, {t}, Elements(s)) => \E j \in 1 .. i : s[j] = t

LEMMA GroupsFound ==
  ASSUME NEW E, NEW s \in Seq(SchemaTable), Distinct(s), NEW f \in Seq(SchemaTable), Distinct(f),
         Elements(f) = {t \in Elements(s) : IsFirst(E, s, t)},
         NEW gs, gs = [i \in 1 .. Len(f) |-> From(E, {f[i]}, Elements(s))]
  PROVE  gs \in Seq(SUBSET Elements(s)) /\ Len(gs) = Len(f) /\ Groups(E, Elements(s), gs)
<1>1. PICK M : M = Elements(s)
  OBVIOUS
<1>2. /\ Len(s) \in Nat /\ Len(f) \in Nat /\ M \in SUBSET SchemaTable
      /\ \A i \in 1 .. Len(s) : s[i] \in M
      /\ \A t \in M : \E i \in 1 .. Len(s) : s[i] = t
  BY <1>1 DEF Elements
<1>3. /\ \A i \in 1 .. Len(f) : f[i] \in M /\ IsFirst(E, s, f[i])
      /\ \A t \in M : IsFirst(E, s, t) => \E i \in 1 .. Len(f) : f[i] = t
  BY <1>1 DEF Elements
<1>4. \A t \in M : t \in From(E, {t}, M) /\ From(E, {t}, M) \in SUBSET M
  BY FromStays
<1>5. gs \in [1 .. Len(f) -> SUBSET M] /\ \A i \in 1 .. Len(f) : gs[i] = From(E, {f[i]}, M)
  BY <1>1, <1>3, <1>4
<1>6. gs \in Seq(SUBSET M) /\ Len(gs) = Len(f)
  <2>1. PICK n : n = Len(f)
    OBVIOUS
  <2>2. n \in Nat /\ gs \in [1 .. n -> SUBSET M]
    BY <1>2, <1>5, <2>1
  <2>3. QED
    BY ONLY <2>1, <2>2, ListOf
<1>7. ASSUME NEW i \in 1 .. Len(f)
      PROVE  gs[i] # {} /\ gs[i] \in SUBSET M /\ \A t \in gs[i] : gs[i] = From(E, {t}, M)
  <2>1. f[i] \in M /\ gs[i] = From(E, {f[i]}, M)
    BY <1>3, <1>5
  <2>2. gs[i] # {} /\ gs[i] \in SUBSET M
    BY <1>4, <2>1
  <2>3. ASSUME NEW t \in gs[i] PROVE gs[i] = From(E, {t}, M)
    <3>1. PICK a : a = f[i]
      OBVIOUS
    <3>2. a \in M /\ M \in SUBSET SchemaTable /\ t \in From(E, {a}, M) /\ gs[i] = From(E, {a}, M)
      BY <1>2, <2>1, <2>3, <3>1
    <3>3. From(E, {t}, M) = From(E, {a}, M)
      BY ONLY <3>2, FromSame
    <3>4. QED
      BY ONLY <3>2, <3>3
  <2>4. QED
    BY <2>2, <2>3
<1>8. ASSUME NEW t \in M PROVE \E i \in 1 .. Len(f) : t \in gs[i]
  <2> DEFINE T == {i \in 1 .. Len(s) : s[i] \in From(E, {t}, M)}
  <2>1. T \in SUBSET Nat /\ T # {}
    BY <1>2, <1>4
  <2>2. PICK n \in T : \A m \in T : n <= m
    <3> HIDE DEF T
    <3> QED
      BY <2>1, LeastNumber
  <2>3. PICK u : u = s[n]
    OBVIOUS
  <2>4. u \in M /\ u \in From(E, {t}, M) /\ n \in 1 .. Len(s)
    BY <1>2, <2>2, <2>3
  <2>5. From(E, {u}, M) = From(E, {t}, M)
    BY <1>2, <2>4, FromSame
  <2>6. IsFirst(E, s, u)
    <3>1. ASSUME NEW i \in 1 .. Len(s), s[i] \in From(E, {u}, M) PROVE \E j \in 1 .. i : s[j] = u
      <4>1. i \in T
        BY <2>5, <3>1
      <4>2. n \in 1 .. i
        <5>1. n <= i /\ n \in Nat /\ 1 <= n /\ i \in Nat
          <6>1. n <= i
            BY <2>2, <4>1
          <6>2. n \in 1 .. Len(s) /\ i \in 1 .. Len(s)
            BY <2>4, <3>1
          <6>3. QED
            BY ONLY <1>2, <6>1, <6>2
        <5>2. QED
          BY ONLY <5>1
      <4>3. QED
        BY <2>3, <4>2
    <3>2. QED
      BY <1>1, <3>1 DEF IsFirst
  <2>7. PICK i \in 1 .. Len(f) : f[i] = u
    BY <1>3, <2>4, <2>6
  <2>8. t \in gs[i]
    BY <1>4, <1>5, <2>5, <2>7
  <2>9. QED
    BY <2>8
<1>9. ASSUME NEW i \in 1 .. Len(f), NEW j \in 1 .. Len(f), NEW x \in gs[i], x \in gs[j]
      PROVE  i = j
  <2>1. From(E, {f[i]}, M) = From(E, {f[j]}, M)
    <3>1. gs[i] = From(E, {x}, M) /\ gs[j] = From(E, {x}, M)
      BY <1>7, <1>9
    <3>2. QED
      BY <1>5, <3>1
  <2>2. /\ f[i] \in From(E, {f[j]}, M) /\ f[j] \in From(E, {f[i]}, M)
        /\ f[i] \in M /\ f[j] \in M /\ IsFirst(E, s, f[i]) /\ IsFirst(E, s, f[j])
    BY <1>3, <1>4, <2>1
  <2>3. PICK a \in 1 .. Len(s) : s[a] = f[i]
    BY <1>2, <2>2
  <2>4. PICK b \in 1 .. Len(s) : s[b] = f[j]
    BY <1>2, <2>2
  <2>5. PICK c \in 1 .. b : s[c] = f[i]
    BY <1>1, <2>2, <2>4 DEF IsFirst
  <2>6. PICK d \in 1 .. a : s[d] = f[j]
    BY <1>1, <2>2, <2>3 DEF IsFirst
  <2>7. c \in 1 .. Len(s) /\ d \in 1 .. Len(s) /\ c <= b /\ d <= a
    BY <1>2
  <2>8. a = c /\ b = d
    BY <2>3, <2>4, <2>5, <2>6, <2>7 DEF Distinct
  <2>9. a = b
    BY <2>7, <2>8
  <2>10. f[i] = f[j]
    BY <2>3, <2>4, <2>9
  <2>11. QED
    BY <2>10 DEF Distinct
<1>10. Groups(E, M, gs)
  BY <1>6, <1>7, <1>8, <1>9 DEF Groups
<1>11. QED
  BY <1>1, <1>6, <1>10

-----------------------------------------------------------------------------
(* The repair: paths                                                       *)

LEMMA CountOf ==
  ASSUME NEW A, NEW p \in Seq(A), Distinct(p)
  PROVE  IsFiniteSet(Elements(p)) /\ Cardinality(Elements(p)) = Len(p) /\ Len(p) \in Nat
<1>1. PICK n : n = Len(p)
  OBVIOUS
<1>2. n \in Nat /\ p \in [1 .. n -> A]
  BY <1>1
<1>3. PICK S : S = Elements(p)
  OBVIOUS
<1>4. p \in [1 .. n -> S] /\ \A x \in S : \E i \in 1 .. n : p[i] = x
  BY <1>1, <1>2, <1>3 DEF Elements
<1>5. \A i, j \in 1 .. n : i # j => p[i] # p[j]
  BY <1>1 DEF Distinct
<1>6. p \in Surjection(1 .. n, S)
  BY <1>4 DEF Surjection
<1>7. p \in Injection(1 .. n, S)
  BY <1>4, <1>5 DEF Injection, IsInjective
<1>8. IsFiniteSet(1 .. n) /\ Cardinality(1 .. n) = n
  BY <1>2, CountUpTo
<1>9. IsFiniteSet(S) /\ Cardinality(S) = n
  BY <1>6, <1>7, <1>8, FS_Surjection
<1>10. QED
  BY <1>1, <1>2, <1>3, <1>9

\* The permutations of the subsets of a set are its sequences of distinct elements.
LEMMA Permutations ==
  ASSUME NEW A, IsFiniteSet(A), NEW p
  PROVE  p \in Repair!SetToAllKPermutations(A) <=> p \in Seq(A) /\ Distinct(p)
<1>1. ASSUME NEW S
      PROVE  Repair!SetToSeqs(S) = Scope!SetToSeqs(S)
  <2>1. Repair!Cardinality(S) = Scope!Cardinality(S)
    BY Zenon DEF Repair!Cardinality, Scope!Cardinality
  <2>2. QED
    BY <2>1, Zenon DEF Repair!SetToSeqs, Scope!SetToSeqs
<1>2. p \in Repair!SetToAllKPermutations(A) <=> \E S \in SUBSET A : p \in Scope!SetToSeqs(S)
  BY <1>1 DEF Repair!SetToAllKPermutations
<1>3. ASSUME NEW S \in SUBSET A, p \in Scope!SetToSeqs(S) PROVE p \in Seq(A) /\ Distinct(p)
  <2>1. IsFiniteSet(S)
    BY FS_Subset
  <2>2. p \in Seq(S) /\ \A i, j \in 1 .. Len(p) : i # j => p[i] # p[j]
    BY <1>3, <2>1, ToSeqs DEF Lists
  <2>3. p \in Seq(A)
    BY ONLY <2>2, S \in SUBSET A
  <2>4. QED
    BY <2>2, <2>3 DEF Distinct
<1>4. ASSUME p \in Seq(A), Distinct(p) PROVE \E S \in SUBSET A : p \in Scope!SetToSeqs(S)
  <2>1. PICK S : S = Elements(p)
    OBVIOUS
  <2>2. S \in SUBSET A
    BY <1>4, <2>1 DEF Elements
  <2>3. IsFiniteSet(S) /\ Cardinality(S) = Len(p) /\ Len(p) \in Nat
    BY <1>4, <2>1, CountOf
  <2>4. p \in [1 .. Cardinality(S) -> S]
    <3>1. PICK n : n = Len(p)
      OBVIOUS
    <3>2. p \in [1 .. n -> A] /\ \A i \in 1 .. n : p[i] \in S
      BY <1>4, <2>1, <3>1 DEF Elements
    <3>3. p \in [1 .. n -> S]
      BY ONLY <3>2
    <3>4. QED
      BY <2>3, <3>1, <3>3
  <2>5. \A i, j \in 1 .. Cardinality(S) : i # j => p[i] # p[j]
    BY <1>4, <2>3 DEF Distinct
  <2>6. Lists(p, S)
    BY <2>3, <2>4, <2>5, Listed
  <2>7. QED
    BY <2>2, <2>3, <2>6, ToSeqs
<1>5. QED
  BY <1>2, <1>3, <1>4

IsPath(E, A, l, r, p) ==
  /\ p \in Seq(A) /\ p # <<>> /\ Distinct(p)
  /\ p[1] \in l /\ p[Len(p)] \in r
  /\ \A i \in 1 .. Len(p) - 1 : p[i + 1] \in Beside(E, p[i])
  /\ \A i \in 2 .. Len(p) - 1 : p[i] \notin l \cup r

LEMMA PathsAre ==
  ASSUME IsFiniteSet(allowed_keys), NEW l, NEW r, NEW p
  PROVE  p \in Repair!Paths(l, r) <=> IsPath(relationships, allowed_keys, l, r, p)
<1>1. p \in Repair!SetToAllKPermutations(allowed_keys) <=> p \in Seq(allowed_keys) /\ Distinct(p)
  BY Permutations
<1>2. \A t : Repair!neighbors(t) = Beside(relationships, t)
  BY DEF Repair!neighbors, Beside
<1>3. QED
  BY <1>1, <1>2 DEF Repair!Paths, IsPath

-----------------------------------------------------------------------------
(* The repair: the first of the shortest paths                             *)

IsShortest(p, P) ==
  \A q \in P : p = q \/ Len(p) < Len(q) \/ (Len(p) = Len(q) /\ Repair!LessSeq(p, q))

LEMMA ShortestExists ==
  ASSUME NEW P, \A p \in P : p \in Seq(Nat), P # {}
  PROVE  \E p \in P : IsShortest(p, P)
<1> DEFINE L == {Len(p) : p \in P}
<1>1. L \in SUBSET Nat /\ L # {}
  <2>1. \A p \in P : Len(p) \in Nat
    OBVIOUS
  <2>2. QED
    BY <2>1
<1>2. PICK n \in L : \A m \in L : n <= m
  <2> HIDE DEF L
  <2> QED
    BY <1>1, LeastNumber
<1>3. n \in Nat /\ (\E p \in P : Len(p) = n) /\ \A p \in P : Len(p) \in Nat /\ n <= Len(p)
  BY <1>1, <1>2
<1> HIDE DEF L
<1> DEFINE Behind(p, q) == Len(q) > n \/ (Len(q) = n /\ Repair!LessSeq(p, q))
           Ahead(T, k) ==
             /\ T # {} /\ \A p \in T : Len(p) = n
             /\ \A p, q \in T : \A i \in 1 .. k : p[i] = q[i]
             /\ \A p \in T : \A q \in P \ T : Behind(p, q)
           K == {k \in Nat : k <= n => \E T \in SUBSET P : Ahead(T, k)}
<1>4. 0 \in K
  <2> DEFINE T == {p \in P : Len(p) = n}
  <2>1. T \in SUBSET P /\ T # {} /\ \A p \in T : Len(p) = n
    BY <1>3
  <2>2. \A q \in P \ T : Len(q) > n
    BY <1>3
  <2> HIDE DEF T
  <2>3. \A p, q \in T : \A i \in 1 .. 0 : p[i] = q[i]
    OBVIOUS
  <2>4. Ahead(T, 0)
    BY <2>1, <2>2, <2>3
  <2> HIDE DEF Ahead
  <2>5. QED
    BY <2>1, <2>4
<1>5. ASSUME NEW k \in K PROVE k + 1 \in K
  <2>1. SUFFICES ASSUME k + 1 <= n PROVE \E T \in SUBSET P : Ahead(T, k + 1)
    OBVIOUS
  <2>2. k \in Nat /\ k <= n
    BY <1>3, <2>1
  <2>3. PICK T \in SUBSET P : Ahead(T, k)
    <3> HIDE DEF Ahead
    <3> QED
      BY <2>2
  <2> DEFINE V == {p[k + 1] : p \in T}
  <2>4. \A p \in T : p[k + 1] \in Nat
    <3>1. ASSUME NEW p \in T PROVE p[k + 1] \in Nat
      <4>1. p \in Seq(Nat) /\ Len(p) = n
        BY <2>3
      <4>2. k + 1 \in 1 .. Len(p)
        BY <2>1, <2>2, <4>1
      <4>3. QED
        BY ONLY <4>1, <4>2
    <3>2. QED
      BY <3>1
  <2>5. V \in SUBSET Nat /\ V # {}
    BY <2>3, <2>4
  <2>6. PICK m \in V : \A v \in V : m <= v
    <3> HIDE DEF V
    <3> QED
      BY <2>5, LeastNumber
  <2> DEFINE U == {p \in T : p[k + 1] = m}
  <2>7. U \in SUBSET P /\ U # {} /\ (\A p \in U : Len(p) = n) /\ U \in SUBSET T
    BY <2>3, <2>6
  <2>8. ASSUME NEW p \in U, NEW q \in U, NEW i \in 1 .. k + 1 PROVE p[i] = q[i]
    <3>1. i \in 1 .. k \/ i = k + 1
      BY <2>2
    <3>2. QED
      BY <2>3, <3>1
  <2>9. ASSUME NEW p \in U, NEW q \in P \ U PROVE Behind(p, q)
    <3>1. CASE q \notin T
      BY <2>3, <3>1
    <3>2. CASE q \in T
      <4>1. p \in T /\ p[k + 1] = m /\ q[k + 1] # m /\ m <= q[k + 1] /\ Len(q) = n
        BY <2>3, <2>6, <3>2
      <4>2. p[k + 1] < q[k + 1]
        BY <2>4, <3>2, <4>1
      <4>3. \A j \in 1 .. (k + 1) - 1 : p[j] = q[j]
        <5>1. (k + 1) - 1 = k
          BY ONLY <2>2
        <5>2. \A j \in 1 .. k : p[j] = q[j]
          BY <2>3, <3>2, <4>1
        <5>3. QED
          BY ONLY <5>1, <5>2
      <4>4. k + 1 \in DOMAIN p
        <5>1. p \in Seq(Nat) /\ Len(p) = n
          BY <2>3, <4>1
        <5>2. k + 1 \in 1 .. Len(p)
          BY <2>1, <2>2, <5>1
        <5>3. QED
          BY ONLY <5>1, <5>2
      <4>5. Repair!LessSeq(p, q)
        BY <4>2, <4>3, <4>4 DEF Repair!LessSeq
      <4>6. QED
        BY <4>1, <4>5
    <3>3. QED
      BY <3>1, <3>2
  <2>10. Ahead(U, k + 1)
    <3> HIDE DEF U, Behind
    <3> QED
      BY <2>7, <2>8, <2>9
  <2>11. QED
    <3> HIDE DEF Ahead, U
    <3> QED
      BY <2>7, <2>10
<1>6. K = Nat
  <2>1. K \in SUBSET Nat
    OBVIOUS
  <2> HIDE DEF K
  <2>2. QED
    BY <1>4, <1>5, <2>1, Induction
<1>7. PICK T \in SUBSET P : Ahead(T, n)
  <2>1. n \in K /\ n <= n
    <3> HIDE DEF K
    <3> QED
      BY <1>3, <1>6
  <2> HIDE DEF Ahead
  <2>2. QED
    BY <2>1
<1>8. PICK p \in T : TRUE
  BY <1>7
<1>9. ASSUME NEW q \in P PROVE p = q \/ Len(p) < Len(q) \/ (Len(p) = Len(q) /\ Repair!LessSeq(p, q))
  <2>1. CASE q \in T
    <3>1. p \in Seq(Nat) /\ q \in Seq(Nat) /\ Len(p) = n /\ Len(q) = n
      BY <1>7, <2>1
    <3>2. \A i \in 1 .. n : p[i] = q[i]
      BY <1>7, <2>1
    <3>3. p = q
      BY ONLY <3>1, <3>2
    <3>4. QED
      BY <3>3
  <2>2. CASE q \notin T
    <3>1. Len(p) = n /\ Behind(p, q)
      BY <1>7, <2>2
    <3>2. QED
      BY <1>3, <3>1
  <2>3. QED
    BY <2>1, <2>2
<1>10. QED
  BY <1>8, <1>9 DEF IsShortest

LEMMA ShortestIs ==
  ASSUME NEW P, \A p \in P : p \in Seq(Nat), P # {}
  PROVE  Repair!Shortest(P) \in P /\ \A q \in P : Len(Repair!Shortest(P)) <= Len(q)
<1>1. PICK s : s = Repair!Shortest(P)
  OBVIOUS
<1>2. s = CHOOSE p \in P : IsShortest(p, P)
  BY <1>1 DEF Repair!Shortest, IsShortest
<1>3. s \in P /\ IsShortest(s, P)
  BY <1>2, ShortestExists
<1>4. \A q \in P : Len(q) \in Nat
  OBVIOUS
<1>5. \A q \in P : Len(s) <= Len(q)
  <2>1. ASSUME NEW q \in P PROVE Len(s) <= Len(q)
    <3>1. s = q \/ Len(s) < Len(q) \/ Len(s) = Len(q)
      BY <1>3 DEF IsShortest
    <3>2. Len(s) \in Nat /\ Len(q) \in Nat
      BY <1>3, <1>4
    <3>3. QED
      BY ONLY <3>1, <3>2
  <2>2. QED
    BY <2>1
<1>6. QED
  BY <1>1, <1>3, <1>5

-----------------------------------------------------------------------------
(* The repair: trails                                                      *)

Trail(E, A, p) ==
  /\ p \in Seq(A) /\ p # <<>> /\ Distinct(p)
  /\ \A i \in 1 .. Len(p) - 1 : p[i + 1] \in Beside(E, p[i])

LEMMA BesideBack ==
  ASSUME NEW E, NEW t \in SchemaTable, NEW u \in Beside(E, t)
  PROVE  t \in Beside(E, u) /\ u \in SchemaTable
<1>1. u \in SchemaTable /\ u # t /\ {t, u} \in E
  BY DEF Beside
<1>2. {u, t} = {t, u}
  OBVIOUS
<1>3. QED
  BY <1>1, <1>2 DEF Beside

\* A trail from a table, one more table, a beginning, and the way back.
LEMMA TrailOfOne ==
  ASSUME NEW E, NEW A, NEW t \in A
  PROVE  Trail(E, A, <<t>>) /\ Len(<<t>>) = 1 /\ <<t>>[1] = t
<1>1. <<t>> \in Seq(A) /\ Len(<<t>>) = 1 /\ <<t>> # <<>> /\ <<t>>[1] = t
  OBVIOUS
<1>2. PICK p : p = <<t>>
  OBVIOUS
<1>3. Distinct(p)
  <2>1. \A i, j \in 1 .. 1 : i = j
    OBVIOUS
  <2>2. QED
    BY <1>1, <1>2, <2>1 DEF Distinct
<1>4. \A i \in 1 .. Len(p) - 1 : p[i + 1] \in Beside(E, p[i])
  <2>1. 1 .. Len(p) - 1 = {}
    BY <1>1, <1>2
  <2>2. QED
    BY <2>1
<1>5. QED
  BY <1>1, <1>2, <1>3, <1>4 DEF Trail

LEMMA TrailGrows ==
  ASSUME NEW E, NEW A, NEW p, Trail(E, A, p), NEW v \in A, v \in Beside(E, p[Len(p)]), v \notin Elements(p),
         NEW q, q = Append(p, v)
  PROVE  /\ Trail(E, A, q) /\ Len(q) = Len(p) + 1 /\ q[Len(q)] = v
         /\ \A i \in 1 .. Len(p) : q[i] = p[i]
<1>1. PICK n : n = Len(p)
  OBVIOUS
<1>2. p \in Seq(A) /\ n \in Nat /\ n # 0
  BY <1>1 DEF Trail
<1>3. /\ q \in Seq(A) /\ q # <<>> /\ Len(q) = n + 1 /\ q[n + 1] = v
      /\ \A i \in 1 .. n : q[i] = p[i]
  BY <1>1, <1>2
<1>4. \A i \in 1 .. n : p[i] # v
  BY <1>1 DEF Elements
<1>5. ASSUME NEW i \in 1 .. n + 1, NEW j \in 1 .. n + 1, i # j PROVE q[i] # q[j]
  <2>1. CASE i \in 1 .. n /\ j \in 1 .. n
    <3>1. p[i] # p[j]
      BY <1>1, <1>5, <2>1 DEF Trail, Distinct
    <3>2. QED
      BY <1>3, <2>1, <3>1
  <2>2. CASE i = n + 1 /\ j \in 1 .. n
    BY <1>3, <1>4, <2>2
  <2>3. CASE i \in 1 .. n /\ j = n + 1
    BY <1>3, <1>4, <2>3
  <2>4. (i \in 1 .. n \/ i = n + 1) /\ (j \in 1 .. n \/ j = n + 1)
    BY <1>2
  <2>5. QED
    BY <1>5, <2>1, <2>2, <2>3, <2>4
<1>6. ASSUME NEW i \in 1 .. n PROVE q[i + 1] \in Beside(E, q[i])
  <2>1. CASE i = n
    BY <1>1, <1>3, <2>1
  <2>2. CASE i # n
    <3>1. i \in 1 .. n - 1 /\ i + 1 \in 1 .. n
      BY <1>2, <2>2
    <3>2. p[i + 1] \in Beside(E, p[i])
      BY <1>1, <3>1 DEF Trail
    <3>3. QED
      BY <1>3, <3>1, <3>2
  <2>3. QED
    BY <2>1, <2>2
<1>7. Trail(E, A, q)
  <2>1. Distinct(q)
    BY <1>3, <1>5 DEF Distinct
  <2>2. Len(q) - 1 = n
    BY <1>2, <1>3
  <2>3. QED
    BY <1>3, <1>6, <2>1, <2>2 DEF Trail
<1>8. QED
  BY <1>1, <1>3, <1>7

LEMMA TrailBegins ==
  ASSUME NEW E, NEW A, NEW p, Trail(E, A, p), NEW k \in 1 .. Len(p), NEW q, q = SubSeq(p, 1, k)
  PROVE  Trail(E, A, q) /\ Len(q) = k /\ \A i \in 1 .. k : q[i] = p[i]
<1>1. p \in Seq(A) /\ Len(p) \in Nat /\ k \in Nat /\ 1 <= k /\ k <= Len(p)
  BY DEF Trail
<1>2. q \in Seq(A) /\ Len(q) = k /\ \A i \in 1 .. k : q[i] = p[i]
  BY <1>1
<1>3. q # <<>>
  BY <1>1, <1>2
<1>4. ASSUME NEW i \in 1 .. k, NEW j \in 1 .. k, i # j PROVE q[i] # q[j]
  <2>1. i \in 1 .. Len(p) /\ j \in 1 .. Len(p)
    BY <1>1
  <2>2. p[i] # p[j]
    BY <1>4, <2>1 DEF Trail, Distinct
  <2>3. QED
    BY <1>2, <2>2
<1>5. ASSUME NEW i \in 1 .. k - 1 PROVE q[i + 1] \in Beside(E, q[i])
  <2>1. i \in 1 .. Len(p) - 1 /\ i \in 1 .. k /\ i + 1 \in 1 .. k
    BY <1>1
  <2>2. p[i + 1] \in Beside(E, p[i])
    BY <2>1 DEF Trail
  <2>3. QED
    BY <1>2, <2>1, <2>2
<1>6. QED
  BY <1>2, <1>3, <1>4, <1>5 DEF Trail, Distinct

LEMMA TrailBack ==
  ASSUME NEW E, NEW A \in SUBSET SchemaTable, NEW p, Trail(E, A, p),
         NEW q, q = [k \in 1 .. Len(p) |-> p[Len(p) + 1 - k]]
  PROVE  Trail(E, A, q) /\ Len(q) = Len(p) /\ \A k \in 1 .. Len(p) : q[k] = p[Len(p) + 1 - k]
<1>1. PICK n : n = Len(p)
  OBVIOUS
<1>2. n \in Nat /\ n # 0 /\ p \in Seq(A) /\ \A k \in 1 .. n : p[k] \in A
  BY <1>1 DEF Trail
<1>3. \A k \in 1 .. n : n + 1 - k \in 1 .. n
  BY <1>2
<1>4. \A k \in 1 .. n : q[k] = p[n + 1 - k]
  BY <1>1
<1>5. q \in [1 .. n -> A]
  BY <1>1, <1>2, <1>3
<1>6. q \in Seq(A) /\ Len(q) = n
  BY ONLY <1>2, <1>5, ListOf
<1>7. ASSUME NEW i \in 1 .. n, NEW j \in 1 .. n, i # j PROVE q[i] # q[j]
  <2>1. n + 1 - i # n + 1 - j
    BY <1>2, <1>7
  <2>2. PICK a, b : a = n + 1 - i /\ b = n + 1 - j
    OBVIOUS
  <2>3. p[a] # p[b]
    BY <1>1, <1>3, <2>1, <2>2 DEF Trail, Distinct
  <2>4. QED
    BY <1>4, <2>2, <2>3
<1>8. ASSUME NEW i \in 1 .. n - 1 PROVE q[i + 1] \in Beside(E, q[i])
  <2>1. PICK a : a = n - i
    OBVIOUS
  <2>2. a \in 1 .. n - 1 /\ n + 1 - (i + 1) = a /\ n + 1 - i = a + 1 /\ i \in 1 .. n /\ i + 1 \in 1 .. n /\ a \in 1 .. n
    BY <1>2, <2>1
  <2>3. p[a + 1] \in Beside(E, p[a])
    BY <1>1, <2>2 DEF Trail
  <2>4. p[a] \in SchemaTable
    BY <1>2, <2>2
  <2>5. p[a] \in Beside(E, p[a + 1])
    BY <2>3, <2>4, BesideBack
  <2>6. q[i + 1] = p[a] /\ q[i] = p[a + 1]
    <3>1. q[i + 1] = p[n + 1 - (i + 1)] /\ q[i] = p[n + 1 - i]
      BY <1>4, <2>2
    <3>2. QED
      BY ONLY <2>2, <3>1
  <2>7. QED
    BY ONLY <2>5, <2>6
<1>9. Distinct(q)
  BY <1>6, <1>7 DEF Distinct
<1>10. q # <<>>
  BY <1>2, <1>6
<1>11. Trail(E, A, q)
  BY <1>6, <1>8, <1>9, <1>10 DEF Trail
<1>12. QED
  BY <1>1, <1>4, <1>6, <1>11

\* A trail stays in what is reached from where it begins.
LEMMA TrailReaches ==
  ASSUME NEW E, NEW A, NEW p, Trail(E, A, p), NEW M, Elements(p) \in SUBSET M
  PROVE  \A k \in 1 .. Len(p) : p[k] \in From(E, {p[1]}, M)
<1>1. PICK n : n = Len(p)
  OBVIOUS
<1>2. n \in Nat /\ n # 0
  BY <1>1 DEF Trail
<1>3. PICK R : R = From(E, {p[1]}, M)
  OBVIOUS
<1>4. p[1] \in R /\ Stays(E, M, R)
  BY <1>3, FromStays
<1> DEFINE K == {k \in Nat : k + 1 <= n => p[k + 1] \in R}
<1>5. 0 \in K
  BY <1>4
<1>6. ASSUME NEW k \in K PROVE k + 1 \in K
  <2>1. SUFFICES ASSUME (k + 1) + 1 <= n PROVE p[(k + 1) + 1] \in R
    OBVIOUS
  <2>2. k \in Nat /\ k + 1 <= n /\ k + 1 \in 1 .. n - 1 /\ (k + 1) + 1 \in 1 .. n
    BY <1>2, <2>1
  <2>3. p[k + 1] \in R
    BY <2>2
  <2>4. p[(k + 1) + 1] \in Beside(E, p[k + 1])
    BY <1>1, <2>2 DEF Trail
  <2>5. p[(k + 1) + 1] \in M
    BY <1>1, <2>2 DEF Elements
  <2>6. QED
    BY <1>4, <2>3, <2>4, <2>5 DEF Stays
<1>7. K = Nat
  <2>1. K \in SUBSET Nat
    OBVIOUS
  <2> HIDE DEF K
  <2>2. QED
    BY <1>5, <1>6, <2>1, Induction
<1>8. ASSUME NEW k \in 1 .. n PROVE p[k] \in R
  <2>1. k - 1 \in Nat /\ (k - 1) + 1 = k /\ k <= n
    BY <1>2
  <2>2. k - 1 \in K
    <3> HIDE DEF K
    <3> QED
      BY <1>7, <2>1
  <2>3. QED
    BY <2>1, <2>2
<1>9. QED
  BY <1>1, <1>3, <1>8

-----------------------------------------------------------------------------
(* The repair: bridges                                                     *)

LEMMA PathIsTrail ==
  ASSUME NEW E, NEW A, NEW l, NEW r, NEW p
  PROVE  IsPath(E, A, l, r, p) <=>
           /\ Trail(E, A, p) /\ p[1] \in l /\ p[Len(p)] \in r
           /\ \A i \in 2 .. Len(p) - 1 : p[i] \notin l \cup r
BY DEF IsPath, Trail

LEMMA PathBack ==
  ASSUME NEW E, NEW A \in SUBSET SchemaTable, NEW l, NEW r, NEW p, IsPath(E, A, l, r, p)
  PROVE  \E q : IsPath(E, A, r, l, q) /\ Len(q) = Len(p)
<1>1. PICK n : n = Len(p)
  OBVIOUS
<1>2. Trail(E, A, p) /\ p[1] \in l /\ p[n] \in r /\ \A i \in 2 .. n - 1 : p[i] \notin l \cup r
  BY <1>1, PathIsTrail
<1>3. n \in Nat /\ n # 0
  BY <1>1, <1>2 DEF Trail
<1>4. PICK q : q = [k \in 1 .. n |-> p[n + 1 - k]]
  OBVIOUS
<1>5. Trail(E, A, q) /\ Len(q) = n /\ \A k \in 1 .. n : q[k] = p[n + 1 - k]
  BY <1>1, <1>2, <1>4, TrailBack
<1>6. q[1] \in r /\ q[n] \in l
  <2>1. 1 \in 1 .. n /\ n \in 1 .. n /\ n + 1 - 1 = n /\ n + 1 - n = 1
    BY <1>3
  <2>2. q[1] = p[n + 1 - 1] /\ q[n] = p[n + 1 - n]
    BY <1>5, <2>1
  <2>3. QED
    BY <1>2, <2>1, <2>2
<1>7. ASSUME NEW i \in 2 .. n - 1 PROVE q[i] \notin r \cup l
  <2>1. PICK a : a = n + 1 - i
    OBVIOUS
  <2>2. a \in 2 .. n - 1 /\ i \in 1 .. n
    BY <1>3, <2>1
  <2>3. q[i] = p[a]
    BY <1>5, <2>1, <2>2
  <2>4. QED
    BY <1>2, <2>2, <2>3
<1>8. IsPath(E, A, r, l, q)
  BY <1>5, <1>6, <1>7, PathIsTrail
<1>9. QED
  BY <1>1, <1>5, <1>8

\* The bridges are paths between groups; no path is shorter than all of them.
Bridged(E, A, gs, b) == \E i, j \in 1 .. Len(gs) : i < j /\ IsPath(E, A, gs[i], gs[j], b)
NoShorter(E, A, gs, n) ==
  \A i, j \in 1 .. Len(gs) : i < j => \A p : IsPath(E, A, gs[i], gs[j], p) => n <= Len(p)

LEMMA BridgesAre ==
  ASSUME allowed_keys \in SUBSET SchemaTable, IsFiniteSet(allowed_keys), SchemaTable \in SUBSET Nat,
         groups \in Seq(SUBSET allowed_keys)
  PROVE  /\ \A b \in Repair!Bridges : Bridged(relationships, allowed_keys, groups, b) /\ b \in Seq(Nat)
         /\ \A i, j \in 1 .. Len(groups) : i < j =>
              \A p : IsPath(relationships, allowed_keys, groups[i], groups[j], p) =>
                \E b \in Repair!Bridges : Len(b) <= Len(p)
<1>1. PICK E, A, gs : E = relationships /\ A = allowed_keys /\ gs = groups
  OBVIOUS
<1>2. PICK n : n = Len(gs)
  OBVIOUS
<1>3. DOMAIN groups = 1 .. n /\ n \in Nat
  BY <1>1, <1>2
<1> DEFINE Way(ij) == Repair!Paths(gs[ij[1]], gs[ij[2]])
           Pairs == {ij \in (1 .. n) \X (1 .. n) : ij[1] < ij[2]}
<1>4. \A l, r, p : p \in Repair!Paths(l, r) <=> IsPath(E, A, l, r, p)
  BY <1>1, PathsAre
<1>5. \A l, r : \A p \in Repair!Paths(l, r) : p \in Seq(Nat)
  <2>1. ASSUME NEW l, NEW r, NEW p \in Repair!Paths(l, r) PROVE p \in Seq(Nat)
    <3>1. p \in Seq(A)
      BY <1>4, <2>1 DEF IsPath
    <3>2. \A x \in A : x \in Nat
      BY <1>1
    <3>3. PICK m : m = Len(p)
      OBVIOUS
    <3>4. m \in Nat /\ p \in [1 .. m -> A]
      BY ONLY <3>1, <3>3
    <3>5. p \in [1 .. m -> Nat]
      BY ONLY <3>2, <3>4
    <3>6. QED
      BY ONLY <3>4, <3>5, ListOf
  <2>2. QED
    BY <2>1
<1>6. \A l, r : Repair!Paths(l, r) # {} =>
        /\ Repair!Shortest(Repair!Paths(l, r)) \in Repair!Paths(l, r)
        /\ \A p \in Repair!Paths(l, r) : Len(Repair!Shortest(Repair!Paths(l, r))) <= Len(p)
  <2>1. ASSUME NEW l, NEW r, Repair!Paths(l, r) # {}
        PROVE  /\ Repair!Shortest(Repair!Paths(l, r)) \in Repair!Paths(l, r)
               /\ \A p \in Repair!Paths(l, r) : Len(Repair!Shortest(Repair!Paths(l, r))) <= Len(p)
    <3>1. PICK P : P = Repair!Paths(l, r)
      OBVIOUS
    <3>2. P # {} /\ \A p \in P : p \in Seq(Nat)
      BY <1>5, <2>1, <3>1
    <3>3. Repair!Shortest(P) \in P /\ \A p \in P : Len(Repair!Shortest(P)) <= Len(p)
      BY <3>2, ShortestIs
    <3>4. QED
      BY ONLY <3>1, <3>3
  <2>2. QED
    BY <2>1
<1>7. Repair!Bridges = {Repair!Shortest(P) : P \in {Way(ij) : ij \in Pairs} \ {{}}}
  BY <1>1, <1>3, Zenon DEF Repair!Bridges
<1>8. ASSUME NEW b \in Repair!Bridges PROVE Bridged(E, A, gs, b) /\ b \in Seq(Nat)
  <2>1. PICK ij \in Pairs : Way(ij) # {} /\ b = Repair!Shortest(Way(ij))
    BY <1>7, <1>8
  <2>2. PICK i \in 1 .. n, j \in 1 .. n : ij = <<i, j>> /\ i < j
    BY <2>1
  <2>3. ij[1] = i /\ ij[2] = j
    BY <2>2
  <2>4. Way(ij) = Repair!Paths(gs[i], gs[j])
    BY <2>3
  <2>5. b \in Repair!Paths(gs[i], gs[j])
    BY <1>6, <2>1, <2>4
  <2>6. IsPath(E, A, gs[i], gs[j], b)
    BY <1>4, <2>5
  <2>7. QED
    BY <1>2, <1>5, <2>2, <2>5, <2>6 DEF Bridged
<1>9. ASSUME NEW i \in 1 .. n, NEW j \in 1 .. n, i < j, NEW p, IsPath(E, A, gs[i], gs[j], p)
      PROVE  \E b \in Repair!Bridges : Len(b) <= Len(p)
  <2>1. PICK P : P = Repair!Paths(gs[i], gs[j])
    OBVIOUS
  <2>2. p \in P
    BY <1>4, <1>9, <2>1
  <2>3. <<i, j>> \in Pairs /\ Way(<<i, j>>) = P
    BY <1>9, <2>1
  <2>4. Repair!Shortest(P) \in Repair!Bridges
    <3>1. P \in {Way(ij) : ij \in Pairs} \ {{}}
      BY <2>2, <2>3
    <3>2. QED
      BY <1>7, <3>1
  <2>5. Len(Repair!Shortest(P)) <= Len(p)
    BY <1>6, <2>1, <2>2
  <2>6. QED
    BY <2>4, <2>5
<1>10. QED
  BY <1>1, <1>2, <1>8, <1>9

LEMMA BestBridge ==
  ASSUME allowed_keys \in SUBSET SchemaTable, IsFiniteSet(allowed_keys), SchemaTable \in SUBSET Nat,
         groups \in Seq(SUBSET allowed_keys), Repair!Bridges # {},
         NEW best, best = Repair!Shortest(Repair!Bridges)
  PROVE  /\ Bridged(relationships, allowed_keys, groups, best)
         /\ NoShorter(relationships, allowed_keys, groups, Len(best))
<1>1. PICK B : B = Repair!Bridges
  OBVIOUS
<1>2. \A b \in B : b \in Seq(Nat)
  BY <1>1, BridgesAre
<1>3. best \in B /\ \A b \in B : Len(best) <= Len(b)
  BY <1>1, <1>2, ShortestIs
<1>4. Bridged(relationships, allowed_keys, groups, best)
  BY <1>1, <1>3, BridgesAre
<1>5. ASSUME NEW i \in 1 .. Len(groups), NEW j \in 1 .. Len(groups), i < j,
             NEW p, IsPath(relationships, allowed_keys, groups[i], groups[j], p)
      PROVE  Len(best) <= Len(p)
  <2>1. PICK b \in B : Len(b) <= Len(p)
    BY <1>1, <1>5, BridgesAre
  <2>2. Len(best) <= Len(b) /\ Len(best) \in Nat /\ Len(b) \in Nat
    BY <1>2, <1>3
  <2>3. Len(p) \in Nat
    BY <1>5 DEF IsPath
  <2>4. QED
    BY ONLY <2>1, <2>2, <2>3
<1>6. QED
  BY <1>4, <1>5 DEF NoShorter

-----------------------------------------------------------------------------
(* The repair: what a bridge costs                                         *)

\* A path between two groups adds no more than what it has in between.
LEMMA BridgeAdds ==
  ASSUME NEW A, NEW b \in Seq(A), Distinct(b), NEW M, b # <<>>,
         b[1] \in M, b[Len(b)] \in M, b[1] # b[Len(b)]
  PROVE  /\ IsFiniteSet(Elements(b) \ M) /\ Cardinality(Elements(b) \ M) \in Nat
         /\ Cardinality(Elements(b) \ M) <= Len(b) - 2
<1>1. PICK S, n : S = Elements(b) /\ n = Len(b)
  OBVIOUS
<1>2. IsFiniteSet(S) /\ Cardinality(S) = n /\ n \in Nat /\ n # 0
  BY <1>1, CountOf
<1>3. PICK x, y : x = b[1] /\ y = b[n]
  OBVIOUS
<1>4. x \in S /\ y \in S /\ x # y /\ x \in M /\ y \in M
  BY <1>1, <1>2, <1>3 DEF Elements
<1>5. IsFiniteSet(S \ {x}) /\ Cardinality(S \ {x}) = n - 1
  BY <1>2, <1>4, FS_RemoveElement
<1>6. PICK T : T = S \ {x}
  OBVIOUS
<1>7. IsFiniteSet(T \ {y}) /\ Cardinality(T \ {y}) = n - 2
  <2>1. y \in T /\ IsFiniteSet(T) /\ Cardinality(T) = n - 1
    BY <1>4, <1>5, <1>6
  <2>2. IsFiniteSet(T \ {y}) /\ Cardinality(T \ {y}) = (n - 1) - 1
    BY <2>1, FS_RemoveElement
  <2>3. QED
    BY <1>2, <2>2
<1>8. PICK U, V : U = T \ {y} /\ V = S \ M
  OBVIOUS
<1>9. V \in SUBSET U
  BY <1>4, <1>6, <1>8
<1>10. IsFiniteSet(U) /\ Cardinality(U) = n - 2
  BY <1>7, <1>8
<1>11. IsFiniteSet(V) /\ Cardinality(V) <= Cardinality(U)
  BY <1>9, <1>10, FS_Subset
<1>12. Cardinality(V) \in Nat
  BY <1>11, FS_CardinalityType
<1>13. QED
  BY <1>1, <1>8, <1>10, <1>11, <1>12

\* No path between two groups has fewer tables that are new than a shortest
\* one: the first of its tables that is selected ends a path to a group.
LEMMA NoCheaper ==
  ASSUME NEW E, NEW A \in SUBSET SchemaTable, NEW M \in SUBSET A, NEW gs, Len(gs) \in Nat,
         Groups(E, M, gs), NEW n \in Nat, NoShorter(E, A, gs, n),
         NEW i \in 1 .. Len(gs), NEW j \in 1 .. Len(gs), i # j, NEW p, IsPath(E, A, gs[i], gs[j], p)
  PROVE  /\ IsFiniteSet(Elements(p) \ M) /\ Cardinality(Elements(p) \ M) \in Nat
         /\ n - 2 <= Cardinality(Elements(p) \ M)
<1>1. PICK m : m = Len(p)
  OBVIOUS
<1>2. /\ Trail(E, A, p) /\ p[1] \in gs[i] /\ p[m] \in gs[j]
      /\ \A k \in 2 .. m - 1 : p[k] \notin gs[i] \cup gs[j]
  BY <1>1, PathIsTrail
<1>3. p \in Seq(A) /\ Distinct(p) /\ m \in Nat /\ m # 0
  BY <1>1, <1>2 DEF Trail
<1>4. gs[i] \cap gs[j] = {} /\ gs[i] \in SUBSET M /\ gs[j] \in SUBSET M
  BY DEF Groups
<1>5. m # 1
  BY <1>2, <1>4
<1>6. ASSUME NEW k \in 1 .. Len(p), NEW s, s = SubSeq(p, 1, k)
      PROVE  Trail(E, A, s) /\ Len(s) = k /\ \A a \in 1 .. k : s[a] = p[a]
  <2>1. Trail(E, A, p)
    BY <1>2
  <2>2. Trail(E, A, s)
    BY ONLY <1>6, <2>1, TrailBegins
  <2>3. Len(s) = k
    BY ONLY <1>6, <2>1, TrailBegins
  <2>4. \A a \in 1 .. k : s[a] = p[a]
    BY ONLY <1>6, <2>1, TrailBegins
  <2>5. QED
    BY ONLY <2>2, <2>3, <2>4
<1> DEFINE T == {k \in 2 .. m : p[k] \in M}
<1>7. T \in SUBSET Nat /\ m \in T
  BY <1>2, <1>3, <1>4, <1>5
<1>8. PICK y \in T : \A k \in T : y <= k
  <2> HIDE DEF T
  <2> QED
    BY <1>7, LeastNumber
<1>9. y \in Nat /\ 2 <= y /\ y <= m /\ p[y] \in M /\ \A k \in 2 .. y - 1 : p[k] \notin M
  <2>1. y \in 2 .. m /\ p[y] \in M
    BY <1>8
  <2>2. ASSUME NEW k \in 2 .. y - 1, p[k] \in M PROVE FALSE
    <3>1. k \in 2 .. m /\ ~(y <= k)
      BY <1>3, <2>1
    <3>2. k \in T
      BY <2>2, <3>1
    <3>3. QED
      BY <1>8, <3>1, <3>2
  <2>3. QED
    BY <1>3, <2>1, <2>2
<1>10. p[y] \notin gs[i]
  <2>1. CASE y = m
    BY <1>2, <1>4, <2>1
  <2>2. CASE y # m
    <3>1. y \in 2 .. m - 1
      BY <1>3, <1>9, <2>2
    <3>2. QED
      BY <1>2, <3>1
  <2>3. QED
    BY <2>1, <2>2
<1>11. PICK l \in 1 .. Len(gs) : p[y] \in gs[l]
  BY <1>9 DEF Groups
<1>12. l # i /\ gs[l] \in SUBSET M
  BY <1>10, <1>11 DEF Groups
<1>13. PICK q : q = SubSeq(p, 1, y)
  OBVIOUS
<1>14. Trail(E, A, q) /\ Len(q) = y /\ \A k \in 1 .. y : q[k] = p[k]
  <2>1. y \in 1 .. Len(p)
    BY <1>1, <1>3, <1>9
  <2>2. QED
    BY ONLY <1>6, <1>13, <2>1
<1>15. q[1] \in gs[i] /\ q[y] \in gs[l]
  <2>1. 1 \in 1 .. y /\ y \in 1 .. y
    BY <1>9
  <2>2. QED
    BY <1>2, <1>11, <1>14, <2>1
<1>16. \A k \in 2 .. y - 1 : q[k] \notin M
  <2>1. ASSUME NEW k \in 2 .. y - 1 PROVE q[k] \notin M
    <3>1. k \in 1 .. y
      BY <1>9
    <3>2. QED
      BY <1>9, <1>14, <3>1
  <2>2. QED
    BY <2>1
<1>17. IsPath(E, A, gs[i], gs[l], q)
  <2>1. \A k \in 2 .. Len(q) - 1 : q[k] \notin gs[i] \cup gs[l]
    BY <1>4, <1>12, <1>14, <1>16
  <2>2. q[1] \in gs[i] /\ q[Len(q)] \in gs[l]
    BY <1>14, <1>15
  <2>3. QED
    BY <1>14, <2>1, <2>2, PathIsTrail
<1>18. n <= y
  <2>1. CASE i < l
    BY <1>14, <1>17, <2>1 DEF NoShorter
  <2>2. CASE l < i
    <3>1. PICK r : IsPath(E, A, gs[l], gs[i], r) /\ Len(r) = y
      <4>1. \E r : IsPath(E, A, gs[l], gs[i], r) /\ Len(r) = Len(q)
        BY <1>17, PathBack
      <4>2. QED
        BY <1>14, <4>1
    <3>2. QED
      BY <2>2, <3>1 DEF NoShorter
  <2>3. i < l \/ l < i
    BY <1>12
  <2>4. QED
    BY <2>1, <2>2, <2>3
<1>19. PICK S, V : S = Elements(p) /\ V = S \ M
  OBVIOUS
<1>20. IsFiniteSet(V) /\ Cardinality(V) \in Nat
  <2>1. IsFiniteSet(S)
    BY <1>3, <1>19, CountOf
  <2>2. QED
    BY <1>19, <2>1, FS_Subset, FS_CardinalityType
<1>21. y - 2 <= Cardinality(V)
  <2>1. PICK h : h = [k \in 1 .. y - 2 |-> p[k + 1]]
    OBVIOUS
  <2>2. ASSUME NEW k \in 1 .. y - 2 PROVE h[k] = p[k + 1] /\ h[k] \in V
    <3>1. k + 1 \in 2 .. y - 1 /\ k + 1 \in 1 .. m
      BY <1>3, <1>9
    <3>2. p[k + 1] \in S /\ p[k + 1] \notin M
      BY <1>1, <1>9, <1>19, <3>1 DEF Elements
    <3>3. QED
      BY <1>19, <2>1, <3>2
  <2>3. h \in [1 .. y - 2 -> V]
    BY <2>1, <2>2
  <2>4. ASSUME NEW a \in 1 .. y - 2, NEW b \in 1 .. y - 2, h[a] = h[b] PROVE a = b
    <3>1. a + 1 \in 1 .. m /\ b + 1 \in 1 .. m
      BY <1>3, <1>9
    <3>2. p[a + 1] = p[b + 1]
      BY <2>2, <2>4
    <3>3. a + 1 = b + 1
      BY <1>1, <1>3, <3>1, <3>2 DEF Distinct
    <3>4. QED
      BY <3>3
  <2>5. h \in Injection(1 .. y - 2, V)
    BY <2>3, <2>4 DEF Injection, IsInjective
  <2>6. y - 2 \in Nat
    BY <1>9
  <2>7. Cardinality(1 .. y - 2) = y - 2
    BY <2>6, CountUpTo
  <2>8. Cardinality(1 .. y - 2) <= Cardinality(V)
    BY <1>20, <2>5, FS_Injection
  <2>9. QED
    BY <2>7, <2>8
<1>22. QED
  BY <1>9, <1>18, <1>19, <1>20, <1>21

-----------------------------------------------------------------------------
(* The repair: giving up                                                   *)

NoPaths(E, A, gs) == \A i, j \in 1 .. Len(gs) : i < j => \A p : ~IsPath(E, A, gs[i], gs[j], p)

\* Where no path leads from a group to another, no walk does: a trail from the
\* group through what is not selected would have become a path.
LEMMA NothingJoins ==
  ASSUME NEW E, NEW A \in SUBSET SchemaTable, NEW M \in SUBSET A, NEW gs, Len(gs) \in Nat,
         Groups(E, M, gs), NoPaths(E, A, gs), NEW c \in 1 .. Len(gs)
  PROVE  \A t \in M \ gs[c] : t \notin From(E, gs[c], A)
<1>1. PICK C : C = gs[c]
  OBVIOUS
<1>2. C \in SUBSET M
  BY <1>1 DEF Groups
<1> DEFINE Out(p) == Trail(E, A, p) /\ p[1] \in C /\ \A k \in 2 .. Len(p) : p[k] \notin M
           R == {x \in A : \E p : Out(p) /\ p[Len(p)] = x}
<1>3. C \subseteq R
  <2>1. ASSUME NEW t \in C PROVE t \in R
    <3>1. t \in A
      BY <1>2, <2>1
    <3>2. PICK p : p = <<t>>
      OBVIOUS
    <3>3. Trail(E, A, p) /\ Len(p) = 1 /\ p[1] = t
      BY <3>1, <3>2, TrailOfOne
    <3>4. \A k \in 2 .. Len(p) : p[k] \notin M
      BY <3>3
    <3>5. Out(p) /\ p[Len(p)] = t
      BY <2>1, <3>3, <3>4
    <3> HIDE DEF Out
    <3>6. QED
      BY <3>1, <3>5
  <2>2. QED
    BY <2>1
<1>4. ASSUME NEW p, Out(p), NEW v \in Beside(E, p[Len(p)]) \cap A, v \in M \ C PROVE FALSE
  <2>1. PICK n : n = Len(p)
    OBVIOUS
  <2>2. p \in Seq(A) /\ n \in Nat /\ n # 0
    BY <1>4, <2>1 DEF Trail
  <2>3. PICK l \in 1 .. Len(gs) : v \in gs[l]
    BY <1>4 DEF Groups
  <2>4. l # c
    BY <1>1, <1>4, <2>3
  <2>5. gs[l] \in SUBSET M /\ gs[l] \cap C = {}
    BY <1>1, <2>4 DEF Groups
  <2>6. v \notin Elements(p)
    <3>1. SUFFICES ASSUME NEW k \in 1 .. n, p[k] = v PROVE FALSE
      BY <2>1 DEF Elements
    <3>2. k = 1 \/ k \in 2 .. n
      BY <2>2
    <3>3. QED
      BY <1>4, <2>1, <3>1, <3>2
  <2>7. PICK q : q = Append(p, v)
    OBVIOUS
  <2>8. Trail(E, A, q) /\ Len(q) = n + 1 /\ q[n + 1] = v /\ \A k \in 1 .. n : q[k] = p[k]
    <3>1. Trail(E, A, p) /\ v \in A /\ v \in Beside(E, p[Len(p)])
      BY <1>4
    <3>2. Trail(E, A, q)
      BY ONLY <2>6, <2>7, <3>1, TrailGrows
    <3>3. Len(q) = n + 1 /\ q[n + 1] = v /\ \A k \in 1 .. n : q[k] = p[k]
      BY ONLY <2>1, <2>2, <2>7, <3>1
    <3>4. QED
      BY ONLY <3>2, <3>3
  <2>9. q[1] \in C
    <3>1. 1 \in 1 .. n
      BY <2>2
    <3>2. QED
      BY <1>4, <2>8, <3>1
  <2>10. ASSUME NEW k \in 2 .. n PROVE q[k] \notin C \cup gs[l]
    <3>1. k \in 1 .. n
      BY <2>2
    <3>2. q[k] \notin M
      BY <1>4, <2>1, <2>8, <3>1
    <3>3. QED
      BY <1>2, <2>5, <3>2
  <2>11. IsPath(E, A, C, gs[l], q)
    <3>1. Len(q) - 1 = n
      BY <2>2, <2>8
    <3>2. \A k \in 2 .. Len(q) - 1 : q[k] \notin C \cup gs[l]
      BY <2>10, <3>1
    <3>3. q[Len(q)] \in gs[l]
      BY <2>3, <2>8
    <3>4. QED
      BY <2>8, <2>9, <3>2, <3>3, PathIsTrail
  <2>12. CASE c < l
    BY <1>1, <2>11, <2>12 DEF NoPaths
  <2>13. CASE l < c
    <3>1. PICK r : IsPath(E, A, gs[l], C, r)
      BY <2>11, PathBack
    <3>2. QED
      BY <1>1, <2>13, <3>1 DEF NoPaths
  <2>14. QED
    BY <2>4, <2>12, <2>13
<1>5. ASSUME NEW u \in R, NEW v \in Beside(E, u) \cap A PROVE v \in R
  <2>1. PICK p : Out(p) /\ p[Len(p)] = u
    BY <1>5
  <2>2. PICK n : n = Len(p)
    OBVIOUS
  <2>3. p \in Seq(A) /\ n \in Nat /\ n # 0 /\ p[n] = u
    BY <2>1, <2>2 DEF Trail
  <2>4. CASE v \in C
    BY <1>3, <2>4
  <2>5. CASE v \in M \ C
    BY <1>4, <1>5, <2>1, <2>5
  <2>6. CASE v \notin M /\ v \in Elements(p)
    <3>1. PICK k \in 1 .. n : p[k] = v
      BY <2>2, <2>6 DEF Elements
    <3>2. PICK q : q = SubSeq(p, 1, k)
      OBVIOUS
    <3>3. Trail(E, A, p) /\ k \in 1 .. Len(p)
      BY <2>1, <2>2
    <3>4. Trail(E, A, q)
      BY ONLY <3>2, <3>3, TrailBegins
    <3>5. Len(q) = k
      BY ONLY <3>2, <3>3, TrailBegins
    <3>6. \A a \in 1 .. k : q[a] = p[a]
      BY ONLY <3>2, <3>3, TrailBegins
    <3>7. k \in Nat /\ 1 \in 1 .. k /\ k \in 1 .. k
      BY <2>3
    <3>8. q[1] \in C /\ q[Len(q)] = v
      BY <2>1, <3>1, <3>5, <3>6, <3>7
    <3>9. \A a \in 2 .. Len(q) : q[a] \notin M
      <4>1. ASSUME NEW a \in 2 .. k PROVE q[a] \notin M
        <5>1. a \in 1 .. k /\ a \in 2 .. n
          BY <2>3, <3>7
        <5>2. QED
          BY <2>1, <2>2, <3>6, <5>1
      <4>2. QED
        BY <3>5, <4>1
    <3>10. Out(q)
      BY <3>4, <3>8, <3>9
    <3> HIDE DEF Out
    <3>11. QED
      BY <1>5, <3>8, <3>10
  <2>7. CASE v \notin M /\ v \notin Elements(p)
    <3>1. PICK q : q = Append(p, v)
      OBVIOUS
    <3>2. Trail(E, A, p) /\ v \in A /\ v \in Beside(E, p[Len(p)]) /\ v \notin Elements(p)
      BY <1>5, <2>1, <2>7
    <3>3. Trail(E, A, q)
      BY ONLY <3>1, <3>2, TrailGrows
    <3>4. Len(q) = n + 1 /\ q[n + 1] = v /\ \A k \in 1 .. n : q[k] = p[k]
      BY ONLY <2>2, <2>3, <3>1, <3>2
    <3>5. q[1] \in C /\ q[Len(q)] = v
      <4>1. 1 \in 1 .. n
        BY <2>3
      <4>2. QED
        BY <2>1, <3>4, <4>1
    <3>6. \A k \in 2 .. Len(q) : q[k] \notin M
      <4>1. ASSUME NEW k \in 2 .. n + 1 PROVE q[k] \notin M
        <5>1. k = n + 1 \/ (k \in 2 .. n /\ k \in 1 .. n)
          BY <2>3
        <5>2. QED
          BY <2>1, <2>2, <2>7, <3>4, <5>1
      <4>2. QED
        BY <3>4, <4>1
    <3>7. Out(q)
      BY <3>3, <3>5, <3>6
    <3> HIDE DEF Out
    <3>8. QED
      BY <1>5, <3>5, <3>7
  <2>8. QED
    BY <2>4, <2>5, <2>6, <2>7
<1>6. Stays(E, A, R)
  <2> HIDE DEF R
  <2> QED
    BY <1>5 DEF Stays
<1>7. From(E, C, A) \subseteq R
  <2> HIDE DEF R
  <2> QED
    BY <1>3, <1>6, FromLeast
<1>8. ASSUME NEW t \in M \ C PROVE t \notin R
  <2>1. SUFFICES ASSUME NEW p, Out(p), p[Len(p)] = t PROVE FALSE
    OBVIOUS
  <2>2. PICK n : n = Len(p)
    OBVIOUS
  <2>3. n \in Nat /\ n # 0
    BY <2>1, <2>2 DEF Trail
  <2>4. n = 1 \/ n \in 2 .. n
    BY ONLY <2>3
  <2>5. QED
    BY <1>8, <2>1, <2>2, <2>4
<1>9. QED
  <2> HIDE DEF R
  <2> QED
    BY <1>1, <1>7, <1>8

\* There is a first one of the largest groups.
LEMMA CoreIs ==
  ASSUME NEW A, IsFiniteSet(A), groups \in Seq(SUBSET A), Len(groups) > 1
  PROVE  \E c \in 1 .. Len(groups) : Repair!core = groups[c]
<1>1. PICK gs, n : gs = groups /\ n = Len(gs)
  OBVIOUS
<1>2. n \in Nat /\ n > 1 /\ DOMAIN gs = 1 .. n /\ \A i \in 1 .. n : gs[i] \in SUBSET A
  BY <1>1
<1>3. PICK s : s = [i \in 1 .. n |-> Cardinality(gs[i])]
  OBVIOUS
<1>4. PICK m : m = Cardinality(A)
  OBVIOUS
<1>5. m \in Nat /\ \A i \in 1 .. n : s[i] \in Nat /\ s[i] <= m
  <2>1. m \in Nat
    BY <1>4, FS_CardinalityType
  <2>2. ASSUME NEW i \in 1 .. n PROVE s[i] \in Nat /\ s[i] <= m
    <3>1. PICK g : g = gs[i]
      OBVIOUS
    <3>2. g \in SUBSET A /\ s[i] = Cardinality(g)
      BY <1>2, <1>3, <3>1
    <3>3. IsFiniteSet(g) /\ Cardinality(g) <= Cardinality(A)
      BY <3>2, FS_Subset
    <3>4. QED
      BY <1>4, <3>2, <3>3, FS_CardinalityType
  <2>3. QED
    BY <2>1, <2>2
<1> DEFINE D == {m - s[i] : i \in 1 .. n}
<1>6. D \in SUBSET Nat /\ D # {}
  <2>1. \A i \in 1 .. n : m - s[i] \in Nat
    BY <1>5
  <2>2. 1 \in 1 .. n
    BY <1>2
  <2>3. QED
    BY <2>1, <2>2
<1>7. PICK d \in D : \A e \in D : d <= e
  <2> HIDE DEF D
  <2> QED
    BY <1>6, LeastNumber
<1>8. \A i \in 1 .. n : s[i] <= m - d
  <2>1. d \in Nat
    BY <1>6
  <2>2. ASSUME NEW i \in 1 .. n PROVE s[i] <= m - d
    <3>1. d <= m - s[i]
      BY <1>7
    <3>2. QED
      BY <1>5, <2>1, <3>1
  <2>3. QED
    BY <2>2
<1> DEFINE T == {i \in 1 .. n : s[i] = m - d}
<1>9. T \in SUBSET Nat /\ T # {}
  <2>1. PICK i \in 1 .. n : d = m - s[i]
    BY <1>7
  <2>2. s[i] = m - d
    BY <1>5, <2>1
  <2>3. QED
    BY <2>2
<1>10. PICK c \in T : \A k \in T : c <= k
  <2> HIDE DEF T
  <2> QED
    BY <1>9, LeastNumber
<1>11. c \in 1 .. n /\ \A j \in 1 .. n : s[c] > s[j] \/ (s[c] = s[j] /\ c <= j)
  <2>1. c \in 1 .. n /\ s[c] = m - d
    BY <1>10
  <2>2. ASSUME NEW j \in 1 .. n PROVE s[c] > s[j] \/ (s[c] = s[j] /\ c <= j)
    <3>1. CASE s[j] = m - d
      BY <1>10, <2>1, <3>1
    <3>2. CASE s[j] # m - d
      BY <1>5, <1>8, <2>1, <3>2
    <3>3. QED
      BY <3>1, <3>2
  <2>3. QED
    BY <2>1, <2>2
<1>12. PICK count : count = [i \in 1 .. n |-> Repair!Cardinality(gs[i])]
  OBVIOUS
<1>13. \A i \in 1 .. n : count[i] = s[i]
  <2>1. \A X : Repair!Cardinality(X) = Cardinality(X)
    BY Zenon DEF Repair!Cardinality, Cardinality
  <2>2. QED
    BY <1>3, <1>12, <2>1
<1>14. PICK e : e = CHOOSE i \in 1 .. n :
          \A j \in 1 .. n : \/ Repair!Cardinality(gs[i]) > Repair!Cardinality(gs[j])
                            \/ Repair!Cardinality(gs[i]) = Repair!Cardinality(gs[j]) /\ i <= j
  OBVIOUS
<1>15. Repair!core = gs[e]
  BY <1>1, <1>2, <1>14, Zenon DEF Repair!core
<1>16. e \in 1 .. n
  <2>1. ASSUME NEW j \in 1 .. n
        PROVE  \/ Repair!Cardinality(gs[c]) > Repair!Cardinality(gs[j])
               \/ Repair!Cardinality(gs[c]) = Repair!Cardinality(gs[j]) /\ c <= j
    <3>1. count[c] > count[j] \/ (count[c] = count[j] /\ c <= j)
      BY <1>11, <1>13, <2>1
    <3>2. count[c] = Repair!Cardinality(gs[c]) /\ count[j] = Repair!Cardinality(gs[j])
      BY <1>11, <1>12, <2>1
    <3>3. QED
      BY ONLY <3>1, <3>2
  <2>2. c \in 1 .. n
    BY <1>11
  <2> HIDE DEF T
  <2>3. QED
    BY ONLY <1>14, <2>1, <2>2
<1>17. QED
  BY <1>1, <1>15, <1>16

-----------------------------------------------------------------------------
(* The repair: groups that a bridge joins                                  *)

\* gs were the groups before a bridge was added to what is now M.
Merging(E, M, gs) ==
  /\ \A i \in 1 .. Len(gs) : gs[i] # {} /\ gs[i] \in SUBSET M
  /\ \A i \in 1 .. Len(gs) : \A t \in gs[i] : gs[i] \subseteq From(E, {t}, M)
  /\ \A t \in M : \E i \in 1 .. Len(gs) : \E x \in gs[i] : x \in From(E, {t}, M)
  /\ \E i, j \in 1 .. Len(gs) : i # j /\ \E x \in gs[i], y \in gs[j] : y \in From(E, {x}, M)

LEMMA BridgeMerges ==
  ASSUME NEW E, NEW A \in SUBSET SchemaTable, NEW M \in SUBSET A, NEW gs, Len(gs) \in Nat,
         Groups(E, M, gs), NEW b, Bridged(E, A, gs, b), NEW N, N = M \cup Elements(b)
  PROVE  Merging(E, N, gs)
<1>1. PICK i \in 1 .. Len(gs), j \in 1 .. Len(gs) : i < j /\ IsPath(E, A, gs[i], gs[j], b)
  BY DEF Bridged
<1>2. PICK n : n = Len(b)
  OBVIOUS
<1>3. Trail(E, A, b) /\ b[1] \in gs[i] /\ b[n] \in gs[j]
  BY <1>1, <1>2, PathIsTrail
<1>4. b \in Seq(A) /\ n \in Nat /\ 1 \in 1 .. n /\ n \in 1 .. n
  <2>1. b \in Seq(A) /\ b # <<>>
    BY <1>3 DEF Trail
  <2>2. n \in Nat /\ n # 0
    BY <1>2, <2>1
  <2>3. QED
    BY ONLY <2>1, <2>2
<1>5. N \in SUBSET SchemaTable /\ M \subseteq N /\ Elements(b) \in SUBSET N
  <2>1. Elements(b) \in SUBSET A
    BY <1>2, <1>4 DEF Elements
  <2>2. QED
    BY <2>1
<1>6. \A k \in 1 .. n : b[k] \in From(E, {b[1]}, N)
  BY <1>2, <1>3, <1>5, TrailReaches
<1>7. ASSUME NEW k \in 1 .. Len(gs) PROVE gs[k] # {} /\ gs[k] \in SUBSET N
  BY <1>5 DEF Groups
<1>8. ASSUME NEW k \in 1 .. Len(gs), NEW t \in gs[k] PROVE gs[k] \subseteq From(E, {t}, N)
  <2>1. gs[k] = From(E, {t}, M)
    BY DEF Groups
  <2>2. From(E, {t}, M) \subseteq From(E, {t}, N)
    BY <1>5, FromGrows
  <2>3. QED
    BY <2>1, <2>2
<1>9. ASSUME NEW t \in N PROVE \E k \in 1 .. Len(gs) : \E x \in gs[k] : x \in From(E, {t}, N)
  <2>1. CASE t \in M
    <3>1. PICK k \in 1 .. Len(gs) : t \in gs[k]
      BY <2>1 DEF Groups
    <3>2. t \in From(E, {t}, N)
      BY FromStays
    <3>3. QED
      BY <3>1, <3>2
  <2>2. CASE t \in Elements(b)
    <3>1. PICK k \in 1 .. n : b[k] = t
      BY <1>2, <2>2 DEF Elements
    <3>2. t \in From(E, {b[1]}, N)
      BY <1>6, <3>1
    <3>3. b[1] \in N
      BY <1>3, <1>7
    <3>4. b[1] \in From(E, {t}, N)
      BY <1>5, <3>2, <3>3, FromBack
    <3>5. QED
      BY <1>3, <3>4
  <2>3. QED
    BY <2>1, <2>2
<1>10. i # j /\ \E x \in gs[i], y \in gs[j] : y \in From(E, {x}, N)
  <2>1. b[n] \in From(E, {b[1]}, N)
    BY <1>4, <1>6
  <2>2. i # j
    BY <1>1
  <2>3. QED
    BY <1>3, <2>1, <2>2
<1>11. QED
  BY <1>7, <1>8, <1>9, <1>10 DEF Merging

\* Each new group has an old one in it, and one of the new ones has two.
LEMMA Fewer ==
  ASSUME NEW E, NEW M \in SUBSET SchemaTable, NEW old, Len(old) \in Nat, Merging(E, M, old),
         NEW new, Len(new) \in Nat, Groups(E, M, new)
  PROVE  Len(new) < Len(old)
<1>1. PICK n, m : n = Len(old) /\ m = Len(new)
  OBVIOUS
<1>2. n \in Nat /\ m \in Nat
  BY <1>1
<1>3. \A i \in 1 .. n : \A k \in 1 .. m : old[i] \cap new[k] # {} => old[i] \subseteq new[k]
  <2>1. ASSUME NEW i \in 1 .. n, NEW k \in 1 .. m, NEW t \in old[i], t \in new[k]
        PROVE  old[i] \subseteq new[k]
    <3>1. new[k] = From(E, {t}, M)
      BY <1>1, <2>1 DEF Groups
    <3>2. old[i] \subseteq From(E, {t}, M)
      BY <1>1, <2>1 DEF Merging
    <3>3. QED
      BY <3>1, <3>2
  <2>2. QED
    BY <2>1
<1>4. \A k \in 1 .. m : \E i \in 1 .. n : old[i] # {} /\ old[i] \subseteq new[k]
  <2>1. ASSUME NEW k \in 1 .. m PROVE \E i \in 1 .. n : old[i] # {} /\ old[i] \subseteq new[k]
    <3>1. PICK t : t \in new[k]
      BY <1>1 DEF Groups
    <3>2. new[k] = From(E, {t}, M) /\ t \in M
      BY <1>1, <3>1 DEF Groups
    <3>3. PICK i \in 1 .. n : \E x \in old[i] : x \in From(E, {t}, M)
      BY <1>1, <3>2 DEF Merging
    <3>4. old[i] \subseteq new[k]
      BY <1>3, <3>2, <3>3
    <3>5. QED
      BY <3>3, <3>4
  <2>2. QED
    BY <2>1
<1>5. PICK h \in [1 .. m -> 1 .. n] : \A k \in 1 .. m : old[h[k]] # {} /\ old[h[k]] \subseteq new[k]
  <2>1. PICK g : g = [k \in 1 .. m |-> CHOOSE i \in 1 .. n : old[i] # {} /\ old[i] \subseteq new[k]]
    OBVIOUS
  <2>2. ASSUME NEW k \in 1 .. m PROVE g[k] \in 1 .. n /\ old[g[k]] # {} /\ old[g[k]] \subseteq new[k]
    BY <1>4, <2>1
  <2>3. g \in [1 .. m -> 1 .. n]
    BY <2>1, <2>2
  <2>4. QED
    BY <2>2, <2>3
<1>6. \A a, b \in 1 .. m : a # b => new[a] \cap new[b] = {}
  BY <1>1 DEF Groups
<1>7. PICK i \in 1 .. n, j \in 1 .. n : i # j /\ \E x \in old[i], y \in old[j] : y \in From(E, {x}, M)
  BY <1>1 DEF Merging
<1>8. PICK x \in old[i], y \in old[j] : y \in From(E, {x}, M)
  BY <1>7
<1>9. x \in M
  BY <1>1 DEF Merging
<1>10. PICK c \in 1 .. m : x \in new[c]
  BY <1>1, <1>9 DEF Groups
<1>11. y \in new[c]
  BY <1>1, <1>8, <1>10 DEF Groups
<1>12. old[i] \subseteq new[c] /\ old[j] \subseteq new[c]
  BY <1>3, <1>10, <1>11
\* A group that takes i and another that takes j would be the same one.
<1>13. PICK z \in {i, j} : \A k \in 1 .. m : h[k] # z
  <2>1. SUFFICES ASSUME NEW a \in 1 .. m, h[a] = i, NEW b \in 1 .. m, h[b] = j PROVE FALSE
    OBVIOUS
  <2>2. old[i] # {} /\ old[i] \subseteq new[a] /\ old[j] # {} /\ old[j] \subseteq new[b]
    BY <1>5, <2>1
  <2>3. a = c
    <3>1. new[a] \cap new[c] # {}
      BY <1>12, <2>2
    <3>2. QED
      BY <1>6, <3>1
  <2>4. b = c
    <3>1. new[b] \cap new[c] # {}
      BY <1>12, <2>2
    <3>2. QED
      BY <1>6, <3>1
  <2>5. QED
    BY <1>7, <2>1, <2>3, <2>4
<1>14. PICK S : S = (1 .. n) \ {z}
  OBVIOUS
<1>15. IsFiniteSet(S) /\ Cardinality(S) = n - 1
  <2>1. PICK U : U = 1 .. n
    OBVIOUS
  <2>2. IsFiniteSet(U) /\ Cardinality(U) = n
    BY <1>2, <2>1, CountUpTo
  <2>3. z \in U /\ S = U \ {z}
    BY <1>13, <1>14, <2>1
  <2>4. QED
    BY ONLY <2>2, <2>3, FS_RemoveElement
<1>16. h \in Injection(1 .. m, S)
  <2>1. \A k \in 1 .. m : h[k] \in S
    BY <1>5, <1>13, <1>14
  <2>2. h \in [1 .. m -> S]
    BY <1>5, <2>1
  <2>3. ASSUME NEW a \in 1 .. m, NEW b \in 1 .. m, h[a] = h[b] PROVE a = b
    <3>1. old[h[a]] # {} /\ old[h[a]] \subseteq new[a] /\ old[h[a]] \subseteq new[b]
      BY <1>5, <2>3
    <3>2. QED
      BY <1>6, <3>1
  <2>4. QED
    BY <2>2, <2>3 DEF Injection, IsInjective
<1>17. Cardinality(1 .. m) = m
  BY <1>2, CountUpTo
<1>18. Cardinality(1 .. m) <= Cardinality(S)
  BY <1>15, <1>16, FS_Injection
<1>19. m <= n - 1
  BY <1>15, <1>17, <1>18
<1>20. QED
  BY ONLY <1>1, <1>2, <1>19

LEMMA Lengthened ==
  ASSUME NEW A, NEW s \in Seq(A), NEW t \in Seq(A), NEW r, r = s \o t
  PROVE  r \in Seq(A) /\ Len(r) = Len(s) + Len(t)
         /\ \A x : x \in Elements(r) <=> x \in Elements(s) \/ x \in Elements(t)
<1>1. PICK n, m : n = Len(s) /\ m = Len(t)
  OBVIOUS
<1>2. n \in Nat /\ m \in Nat
  BY <1>1
<1>3. r \in Seq(A) /\ Len(r) = n + m
  BY <1>1
<1>4. (\A k \in 1 .. n : r[k] = s[k]) /\ \A k \in 1 .. m : r[n + k] = t[k]
  BY <1>1, <1>2
<1>5. ASSUME NEW x \in Elements(r) PROVE x \in Elements(s) \cup Elements(t)
  <2>1. PICK k \in 1 .. n + m : r[k] = x
    BY <1>3, <1>5 DEF Elements
  <2>2. k \in 1 .. n \/ (k - n \in 1 .. m /\ n + (k - n) = k)
    BY <1>2
  <2>3. CASE k \in 1 .. n
    BY <1>1, <1>4, <2>1, <2>3 DEF Elements
  <2>4. CASE k - n \in 1 .. m /\ n + (k - n) = k
    <3>1. t[k - n] = x
      BY <1>4, <2>1, <2>4
    <3>2. QED
      BY <1>1, <2>4, <3>1 DEF Elements
  <2>5. QED
    BY <2>2, <2>3, <2>4
<1>6. ASSUME NEW x \in Elements(s) PROVE x \in Elements(r)
  <2>1. PICK k \in 1 .. n : s[k] = x
    BY <1>1, <1>6 DEF Elements
  <2>2. k \in 1 .. n + m
    BY ONLY <1>2, k \in 1 .. n
  <2>3. r[k] = x
    BY <1>4, <2>1
  <2>4. QED
    BY <1>3, <2>2, <2>3 DEF Elements
<1>7. ASSUME NEW x \in Elements(t) PROVE x \in Elements(r)
  <2>1. PICK k \in 1 .. m : t[k] = x
    BY <1>1, <1>7 DEF Elements
  <2>2. n + k \in 1 .. n + m
    BY <1>2
  <2>3. r[n + k] = x
    BY <1>4, <2>1
  <2>4. QED
    BY <1>3, <2>2, <2>3 DEF Elements
<1>8. QED
  BY <1>1, <1>3, <1>5, <1>6, <1>7

LEMMA StillDistinct ==
  ASSUME NEW A, NEW s \in Seq(A), NEW t \in Seq(A), Distinct(s), Distinct(t),
         Elements(s) \cap Elements(t) = {}, NEW r, r = s \o t
  PROVE  Distinct(r)
<1>1. PICK n, m : n = Len(s) /\ m = Len(t)
  OBVIOUS
<1>2. n \in Nat /\ m \in Nat /\ Len(r) = n + m
  BY <1>1
<1>3. (\A k \in 1 .. n : r[k] = s[k]) /\ \A k \in 1 .. m : r[n + k] = t[k]
  BY <1>1, <1>2
<1>4. /\ \A a, b \in 1 .. n : a # b => s[a] # s[b]
      /\ \A a, b \in 1 .. m : a # b => t[a] # t[b]
      /\ \A a \in 1 .. n, b \in 1 .. m : s[a] # t[b]
  BY <1>1 DEF Distinct, Elements
<1>5. ASSUME NEW a \in 1 .. n + m, NEW b \in 1 .. n + m, a < b PROVE r[a] # r[b]
  <2>1. CASE b \in 1 .. n
    <3>1. a \in 1 .. n /\ a # b
      BY <1>2, <1>5, <2>1
    <3>2. QED
      BY <1>3, <1>4, <2>1, <3>1
  <2>2. CASE a \in 1 .. n /\ b \notin 1 .. n
    <3>1. b - n \in 1 .. m /\ n + (b - n) = b
      BY <1>2, <2>2
    <3>2. PICK d : d = b - n
      OBVIOUS
    <3>3. d \in 1 .. m /\ r[b] = t[d] /\ r[a] = s[a]
      BY <1>3, <2>2, <3>1, <3>2
    <3>4. s[a] # t[d]
      BY <1>4, <2>2, <3>3
    <3>5. QED
      BY ONLY <3>3, <3>4
  <2>3. CASE a \notin 1 .. n /\ b \notin 1 .. n
    <3>1. /\ a - n \in 1 .. m /\ n + (a - n) = a /\ b - n \in 1 .. m /\ n + (b - n) = b
          /\ a - n # b - n
      BY <1>2, <1>5, <2>3
    <3>2. PICK c, d : c = a - n /\ d = b - n
      OBVIOUS
    <3>3. r[a] = t[c] /\ r[b] = t[d]
      BY <1>3, <3>1, <3>2
    <3>4. QED
      BY <1>4, <3>1, <3>2, <3>3
  <2>4. QED
    BY <2>1, <2>2, <2>3
<1>6. ASSUME NEW a \in 1 .. n + m, NEW b \in 1 .. n + m, a # b PROVE r[a] # r[b]
  <2>1. a < b \/ b < a
    BY <1>2, <1>6
  <2>2. QED
    BY <1>5, <2>1
<1>7. QED
  BY <1>2, <1>6 DEF Distinct

-----------------------------------------------------------------------------
(* The repair: its invariant                                               *)

RepairTypes ==
  /\ relationships \in SUBSET Repair!kSubset(2, SchemaTable)
  /\ allowed_keys \in SUBSET SchemaTable
  /\ repairing \in {"grouping", "bridging", "done"}
  /\ chosen \in Seq(allowed_keys)
  /\ resolved \in Seq(allowed_keys) /\ Distinct(resolved) /\ resolved # <<>>
  /\ added \in Seq(allowed_keys \ Elements(chosen)) /\ unjoinable \in Seq(allowed_keys)
  /\ groups \in Seq(SUBSET allowed_keys)

\* What is selected is resolved, the groups are those of what is resolved or,
\* before they are formed anew, were those of what was; in the end what is
\* resolved is joined, and what is not cannot be joined to it.
RepairStages ==
  /\ repairing # "done" => Elements(chosen) \subseteq Elements(resolved) /\ unjoinable = <<>>
  /\ repairing = "grouping" /\ groups # <<>> => Merging(relationships, Elements(resolved), groups)
  /\ repairing = "bridging" => Groups(relationships, Elements(resolved), groups)
  /\ repairing = "done" =>
       /\ Elements(resolved) = From(relationships, {resolved[1]}, Elements(resolved))
       /\ \A t \in Elements(unjoinable) : t \notin From(relationships, Elements(resolved), allowed_keys)
       /\ Elements(chosen) \subseteq Elements(resolved) \cup Elements(unjoinable)

RepairInv == RepairTypes /\ RepairStages

LEMMA SeqGrows ==
  ASSUME NEW B, NEW A \in SUBSET B, NEW s \in Seq(A)
  PROVE  s \in Seq(B)
<1>1. PICK n : n = Len(s)
  OBVIOUS
<1>2. n \in Nat /\ s \in [1 .. n -> A]
  BY <1>1
<1>3. s \in [1 .. n -> B]
  BY <1>2
<1>4. QED
  BY ONLY <1>2, <1>3, ListOf

LEMMA ElementsAre ==
  ASSUME NEW A, NEW s \in Seq(A)
  PROVE  Elements(s) \in SUBSET A /\ Repair!Range(s) = Elements(s) /\ DOMAIN s = 1 .. Len(s)
<1>1. Len(s) \in Nat /\ DOMAIN s = 1 .. Len(s)
  OBVIOUS
<1>2. Elements(s) \in SUBSET A
  BY DEF Elements
<1>3. Repair!Range(s) = Elements(s)
  BY <1>1 DEF Repair!Range, Elements
<1>4. QED
  BY <1>1, <1>2, <1>3

LEMMA RepairConstants ==
  ASSUME RepairTypes
  PROVE  /\ SchemaTable \in SUBSET Nat /\ IsFiniteSet(SchemaTable)
         /\ allowed_keys \in SUBSET SchemaTable /\ IsFiniteSet(allowed_keys)
         /\ Elements(resolved) \in SUBSET allowed_keys /\ Elements(chosen) \in SUBSET allowed_keys
<1>1. SchemaTable \in SUBSET Nat /\ IsFiniteSet(SchemaTable)
  BY ScopeConstants
<1>2. allowed_keys \in SUBSET SchemaTable /\ resolved \in Seq(allowed_keys) /\ chosen \in Seq(allowed_keys)
  BY DEF RepairTypes
<1>3. IsFiniteSet(allowed_keys)
  BY <1>1, <1>2, FS_Subset
<1>4. Elements(resolved) \in SUBSET allowed_keys /\ Elements(chosen) \in SUBSET allowed_keys
  BY <1>2, ElementsAre
<1>5. QED
  BY <1>1, <1>2, <1>3, <1>4

LEMMA RepairInit == Repair!Init => RepairInv
<1> SUFFICES ASSUME Repair!Init PROVE RepairInv
  OBVIOUS
<1>1. /\ chosen \in Repair!SetToAllKPermutations(SchemaTable) /\ chosen # <<>>
      /\ \E shown \in SUBSET SchemaTable : allowed_keys = Repair!Range(chosen) \cup shown
      /\ repairing = "grouping" /\ resolved = chosen
      /\ added = <<>> /\ unjoinable = <<>> /\ groups = <<>>
      /\ relationships \in SUBSET Repair!kSubset(2, SchemaTable)
  BY DEF Repair!Init
<1>2. IsFiniteSet(SchemaTable)
  BY ScopeConstants
<1>3. chosen \in Seq(SchemaTable) /\ Distinct(chosen)
  BY <1>1, <1>2, Permutations
<1>4. Elements(chosen) \in SUBSET SchemaTable /\ Repair!Range(chosen) = Elements(chosen)
  BY <1>3, ElementsAre
<1>5. allowed_keys \in SUBSET SchemaTable /\ Elements(chosen) \subseteq allowed_keys
  BY <1>1, <1>4
<1>6. chosen \in Seq(allowed_keys)
  <2>1. PICK n : n = Len(chosen)
    OBVIOUS
  <2>2. n \in Nat /\ chosen \in [1 .. n -> SchemaTable] /\ \A i \in 1 .. n : chosen[i] \in Elements(chosen)
    BY <1>3, <2>1 DEF Elements
  <2>3. chosen \in [1 .. n -> allowed_keys]
    BY <1>5, <2>2
  <2>4. QED
    BY ONLY <2>2, <2>3, ListOf
<1>7. <<>> \in Seq(allowed_keys \ Elements(chosen)) /\ <<>> \in Seq(allowed_keys) /\ <<>> \in Seq(SUBSET allowed_keys)
  OBVIOUS
<1>8. RepairTypes
  BY <1>1, <1>3, <1>5, <1>6, <1>7 DEF RepairTypes
<1>9. RepairStages
  BY <1>1 DEF RepairStages
<1>10. QED
  BY <1>8, <1>9 DEF RepairInv

-----------------------------------------------------------------------------
(* The repair: its steps                                                   *)

LEMMA GroupFinds ==
  ASSUME RepairTypes, Repair!Group
  PROVE  groups' \in Seq(SUBSET allowed_keys) /\ Groups(relationships, Elements(resolved), groups')
<1>1. PICK E, A, s, M : E = relationships /\ A = allowed_keys /\ s = resolved /\ M = Elements(resolved)
  OBVIOUS
<1>2. /\ s \in Seq(A) /\ Distinct(s) /\ A \in SUBSET SchemaTable /\ M \in SUBSET A /\ M = Elements(s)
      /\ Repair!Range(resolved) = M /\ DOMAIN resolved = 1 .. Len(s)
  <2>1. s \in Seq(A) /\ Distinct(s) /\ A \in SUBSET SchemaTable /\ M = Elements(s)
    BY <1>1 DEF RepairTypes
  <2>2. Elements(s) \in SUBSET A /\ Repair!Range(s) = Elements(s) /\ DOMAIN s = 1 .. Len(s)
    BY <2>1, ElementsAre
  <2>3. QED
    BY <1>1, <2>1, <2>2
<1> DEFINE G == [t \in Repair!Range(resolved) |-> Repair!Reach({t}, Repair!Range(resolved))]
           X == {t \in Repair!Range(resolved) : \A i \in DOMAIN resolved :
                   resolved[i] \in G[t] => \E j \in 1 .. i : resolved[j] = t}
           F == Repair!Those(resolved, X)
<1>3. groups' = [i \in DOMAIN F |-> G[F[i]]]
  BY Zenon DEF Repair!Group
<1>4. PICK g : g = G
  OBVIOUS
<1>5. \A t \in M : g[t] = From(E, {t}, M)
  <2>1. g = [t \in M |-> Repair!Reach({t}, M)]
    BY <1>2, <1>4
  <2>2. ASSUME NEW t \in M PROVE Repair!Reach({t}, M) = From(E, {t}, M)
    BY <1>1, ReachIs
  <2>3. QED
    BY <2>1, <2>2
<1>6. PICK x : x = X
  OBVIOUS
<1>7. x = {t \in M : IsFirst(E, s, t)}
  <2>1. ASSUME NEW t \in M PROVE t \in x <=> IsFirst(E, s, t)
    <3>1. t \in x <=> \A i \in 1 .. Len(s) : s[i] \in g[t] => \E j \in 1 .. i : s[j] = t
      BY <1>1, <1>2, <1>4, <1>6
    <3>2. g[t] = From(E, {t}, Elements(s))
      BY <1>2, <1>5
    <3>3. QED
      BY ONLY <3>1, <3>2 DEF IsFirst
  <2>2. x \in SUBSET M
    BY <1>2, <1>6
  <2> HIDE DEF X
  <2>3. QED
    BY <2>1, <2>2
<1>8. PICK f : f = F
  OBVIOUS
<1>9. f = Repair!Those(s, x)
  BY <1>1, <1>6, <1>8
<1>10. f \in Seq(A) /\ Distinct(f) /\ Elements(f) = Elements(s) \cap x
  BY ONLY <1>2, <1>9, ThoseAre
<1>11. Elements(f) = {t \in Elements(s) : IsFirst(E, s, t)}
  <2> HIDE DEF X
  <2> QED
    BY <1>2, <1>7, <1>10
<1>12. PICK gs : gs = groups'
  OBVIOUS
<1>13. gs = [i \in 1 .. Len(f) |-> From(E, {f[i]}, Elements(s))]
  <2>1. gs = [i \in DOMAIN f |-> g[f[i]]]
    <3> HIDE DEF F, G
    <3> QED
      BY <1>3, <1>4, <1>8, <1>12
  <2>2. DOMAIN f = 1 .. Len(f)
    BY <1>10
  <2>3. \A i \in 1 .. Len(f) : f[i] \in M
    BY <1>2, <1>7, <1>10 DEF Elements
  <2>4. \A i \in 1 .. Len(f) : g[f[i]] = From(E, {f[i]}, Elements(s))
    BY <1>2, <1>5, <2>3
  <2>5. QED
    BY ONLY <2>1, <2>2, <2>4
<1>14. s \in Seq(SchemaTable) /\ f \in Seq(SchemaTable)
  BY <1>2, <1>10, SeqGrows
<1>15. gs \in Seq(SUBSET Elements(s)) /\ Groups(E, Elements(s), gs)
  <2>1. Distinct(s) /\ Distinct(f)
    BY <1>2, <1>10
  <2>2. gs \in Seq(SUBSET Elements(s))
    BY ONLY <1>11, <1>13, <1>14, <2>1, GroupsFound
  <2>3. Groups(E, Elements(s), gs)
    BY ONLY <1>11, <1>13, <1>14, <2>1, GroupsFound
  <2>4. QED
    BY ONLY <2>2, <2>3
<1>16. gs \in Seq(SUBSET A)
  <2>1. SUBSET Elements(s) \in SUBSET (SUBSET A)
    BY <1>2
  <2>2. QED
    BY ONLY <1>15, <2>1, SeqGrows
<1>17. QED
  BY <1>1, <1>2, <1>12, <1>15, <1>16

LEMMA BridgeFinds ==
  ASSUME RepairTypes, Repair!Bridge
  PROVE  \E best, new :
           /\ best \in Seq(allowed_keys) /\ Bridged(relationships, allowed_keys, groups, best)
           /\ NoShorter(relationships, allowed_keys, groups, Len(best))
           /\ new \in Seq(allowed_keys) /\ Distinct(new)
           /\ Elements(new) = Elements(best) \ Elements(resolved)
           /\ resolved' = resolved \o new /\ added' = added \o new
<1> DEFINE best == Repair!Shortest(Repair!Bridges)
           new == Repair!Those(best, Repair!Range(best) \ Repair!Range(resolved))
<1>1. resolved' = resolved \o new /\ added' = added \o new
  BY Zenon DEF Repair!Bridge
<1>2. Repair!Bridges # {}
  BY Zenon DEF Repair!Bridge
<1>3. PICK b : b = best
  OBVIOUS
<1>4. /\ Bridged(relationships, allowed_keys, groups, b)
      /\ NoShorter(relationships, allowed_keys, groups, Len(b))
  <2>1. b = Repair!Shortest(Repair!Bridges)
    BY <1>3
  <2>2. /\ allowed_keys \in SUBSET SchemaTable /\ IsFiniteSet(allowed_keys) /\ SchemaTable \in SUBSET Nat
        /\ groups \in Seq(SUBSET allowed_keys)
    BY RepairConstants DEF RepairTypes
  <2>3. Bridged(relationships, allowed_keys, groups, b)
    BY ONLY <1>2, <2>1, <2>2, BestBridge
  <2>4. NoShorter(relationships, allowed_keys, groups, Len(b))
    BY ONLY <1>2, <2>1, <2>2, BestBridge
  <2>5. QED
    BY <2>3, <2>4
<1>5. b \in Seq(allowed_keys) /\ Distinct(b)
  BY <1>4 DEF Bridged, IsPath
<1>6. PICK n : n = new
  OBVIOUS
<1>7. n = Repair!Those(b, Elements(b) \ Elements(resolved))
  <2>1. Repair!Range(b) = Elements(b)
    BY <1>5, ElementsAre
  <2>2. resolved \in Seq(allowed_keys)
    BY DEF RepairTypes
  <2>3. Repair!Range(resolved) = Elements(resolved)
    BY <2>2, ElementsAre
  <2>4. n = Repair!Those(b, Repair!Range(b) \ Repair!Range(resolved))
    BY <1>3, <1>6
  <2>5. QED
    BY ONLY <2>1, <2>3, <2>4
<1>8. n \in Seq(allowed_keys) /\ Distinct(n) /\ Elements(n) = Elements(b) \cap (Elements(b) \ Elements(resolved))
  BY ONLY <1>5, <1>7, ThoseAre
<1>9. Elements(n) = Elements(b) \ Elements(resolved)
  BY ONLY <1>8
<1>10. resolved' = resolved \o n /\ added' = added \o n
  <2> HIDE DEF new
  <2> QED
    BY <1>1, <1>6
<1>11. QED
  BY ONLY <1>4, <1>5, <1>8, <1>9, <1>10

LEMMA GroupSteps == ASSUME RepairInv, Repair!Group PROVE RepairInv'
<1>1. RepairTypes /\ RepairStages
  BY DEF RepairInv
<1>2. /\ repairing = "grouping" /\ repairing' = "bridging"
      /\ relationships' = relationships /\ allowed_keys' = allowed_keys /\ chosen' = chosen
      /\ resolved' = resolved /\ added' = added /\ unjoinable' = unjoinable
  BY Zenon DEF Repair!Group, Repair!given
<1>3. groups' \in Seq(SUBSET allowed_keys) /\ Groups(relationships, Elements(resolved), groups')
  BY <1>1, GroupFinds
<1>4. RepairTypes'
  BY <1>1, <1>2, <1>3 DEF RepairTypes
<1>5. RepairStages'
  BY <1>1, <1>2, <1>3 DEF RepairStages
<1>6. QED
  BY <1>4, <1>5 DEF RepairInv

LEMMA JoinedSteps == ASSUME RepairInv, Repair!Joined PROVE RepairInv'
<1>1. RepairTypes /\ RepairStages
  BY DEF RepairInv
<1>2. /\ repairing = "bridging" /\ Len(groups) <= 1 /\ repairing' = "done"
      /\ relationships' = relationships /\ allowed_keys' = allowed_keys /\ chosen' = chosen
      /\ resolved' = resolved /\ added' = added /\ unjoinable' = unjoinable /\ groups' = groups
  BY DEF Repair!Joined, Repair!given
<1>3. PICK E, M, gs, n : E = relationships /\ M = Elements(resolved) /\ gs = groups /\ n = Len(gs)
  OBVIOUS
<1>4. Groups(E, M, gs) /\ n \in Nat /\ n <= 1
  <2>1. gs \in Seq(SUBSET allowed_keys)
    BY <1>1, <1>3 DEF RepairTypes
  <2>2. n \in Nat
    BY <1>3, <2>1
  <2>3. QED
    BY <1>1, <1>2, <1>3, <2>2 DEF RepairStages
<1>5. resolved[1] \in M
  <2>1. resolved \in Seq(allowed_keys) /\ resolved # <<>>
    BY <1>1 DEF RepairTypes
  <2>2. 1 \in 1 .. Len(resolved)
    BY <2>1
  <2>3. QED
    BY <1>3, <2>2 DEF Elements
<1>6. \A t \in M : n = 1 /\ t \in gs[1]
  <2>1. ASSUME NEW t \in M PROVE n = 1 /\ t \in gs[1]
    <3>1. PICK i \in 1 .. n : t \in gs[i]
      BY <1>3, <1>4 DEF Groups
    <3>2. i = 1 /\ n = 1
      BY <1>4
    <3>3. QED
      BY <3>1, <3>2
  <2>2. QED
    BY <2>1
<1>7. M = From(E, {resolved[1]}, M)
  <2>1. n = 1 /\ resolved[1] \in gs[1] /\ M \subseteq gs[1]
    BY <1>5, <1>6
  <2>2. gs[1] = From(E, {resolved[1]}, M) /\ gs[1] \in SUBSET M
    BY <1>3, <1>4, <2>1 DEF Groups
  <2>3. QED
    BY <2>1, <2>2
<1>8. Elements(chosen) \subseteq M /\ unjoinable = <<>>
  BY <1>1, <1>2, <1>3 DEF RepairStages
<1>9. Elements(unjoinable) = {}
  <2>1. 1 .. Len(unjoinable) = {}
    BY <1>8
  <2>2. QED
    BY <2>1 DEF Elements
<1>10. RepairTypes'
  BY <1>1, <1>2 DEF RepairTypes
<1>11. RepairStages'
  BY <1>2, <1>3, <1>7, <1>8, <1>9 DEF RepairStages
<1>12. QED
  BY <1>10, <1>11 DEF RepairInv

LEMMA BridgeSteps == ASSUME RepairInv, Repair!Bridge PROVE RepairInv'
<1>1. RepairTypes /\ RepairStages
  BY DEF RepairInv
<1>2. /\ repairing = "bridging" /\ repairing' = "grouping"
      /\ relationships' = relationships /\ allowed_keys' = allowed_keys /\ chosen' = chosen
      /\ unjoinable' = unjoinable /\ groups' = groups
  BY Zenon DEF Repair!Bridge, Repair!given
<1>3. PICK E, A, M, gs : E = relationships /\ A = allowed_keys /\ M = Elements(resolved) /\ gs = groups
  OBVIOUS
<1>4. PICK best, new :
        /\ best \in Seq(A) /\ Bridged(E, A, gs, best) /\ new \in Seq(A) /\ Distinct(new)
        /\ Elements(new) = Elements(best) \ M
        /\ resolved' = resolved \o new /\ added' = added \o new
  <2>1. PICK best, new :
           /\ best \in Seq(allowed_keys) /\ Bridged(relationships, allowed_keys, groups, best)
           /\ NoShorter(relationships, allowed_keys, groups, Len(best))
           /\ new \in Seq(allowed_keys) /\ Distinct(new)
           /\ Elements(new) = Elements(best) \ Elements(resolved)
           /\ resolved' = resolved \o new /\ added' = added \o new
    BY <1>1, BridgeFinds
  <2>2. QED
    BY <1>3, <2>1
<1>5. /\ A \in SUBSET SchemaTable /\ M \in SUBSET A /\ resolved \in Seq(A) /\ Distinct(resolved) /\ resolved # <<>>
      /\ Groups(E, M, gs) /\ Len(gs) \in Nat /\ Elements(chosen) \subseteq M /\ unjoinable = <<>>
      /\ added \in Seq(A \ Elements(chosen))
  <2>1. A \in SUBSET SchemaTable /\ M \in SUBSET A
    BY <1>1, <1>3, RepairConstants
  <2>2. /\ resolved \in Seq(A) /\ Distinct(resolved) /\ resolved # <<>> /\ added \in Seq(A \ Elements(chosen))
        /\ gs \in Seq(SUBSET A)
    BY <1>1, <1>3 DEF RepairTypes
  <2>3. Groups(E, M, gs) /\ Elements(chosen) \subseteq M /\ unjoinable = <<>>
    BY <1>1, <1>2, <1>3 DEF RepairStages
  <2>4. Len(gs) \in Nat
    BY <2>2
  <2>5. QED
    BY <2>1, <2>2, <2>3, <2>4
<1>6. PICK r : r = resolved'
  OBVIOUS
<1>7. r \in Seq(A) /\ Len(r) = Len(resolved) + Len(new) /\ Elements(r) = Elements(resolved) \cup Elements(new)
  <2>1. PICK s : s = resolved
    OBVIOUS
  <2>2. s \in Seq(A) /\ new \in Seq(A) /\ r = s \o new
    BY <1>4, <1>5, <1>6, <2>1
  <2>3. r \in Seq(A)
    BY ONLY <2>2, Lengthened
  <2>4. Len(r) = Len(s) + Len(new)
    BY ONLY <2>2, Lengthened
  <2>5. \A x : x \in Elements(r) <=> x \in Elements(s) \/ x \in Elements(new)
    BY ONLY <2>2, Lengthened
  <2>6. Elements(r) = Elements(s) \cup Elements(new)
    BY ONLY <2>5
  <2>7. QED
    BY <2>1, <2>3, <2>4, <2>6
<1>8. Distinct(r)
  <2>1. Elements(resolved) \cap Elements(new) = {}
    BY <1>3, <1>4
  <2>2. QED
    BY <1>4, <1>5, <1>6, <2>1, StillDistinct
<1>9. Elements(r) = M \cup Elements(best)
  BY <1>3, <1>4, <1>7
<1>10. Merging(E, Elements(r), gs)
  BY <1>4, <1>5, <1>9, BridgeMerges
<1>11. r # <<>>
  <2>1. Len(resolved) \in Nat /\ Len(resolved) # 0 /\ Len(new) \in Nat
    BY <1>4, <1>5
  <2>2. QED
    BY <1>7, <2>1
<1>12. added' \in Seq(A \ Elements(chosen))
  <2>1. PICK n : n = Len(new)
    OBVIOUS
  <2>2. n \in Nat /\ new \in [1 .. n -> A] /\ \A k \in 1 .. n : new[k] \in Elements(new)
    BY <1>4, <2>1 DEF Elements
  <2>3. \A k \in 1 .. n : new[k] \in A \ Elements(chosen)
    BY <1>4, <1>5, <2>2
  <2>4. new \in [1 .. n -> A \ Elements(chosen)]
    BY ONLY <2>2, <2>3
  <2>5. new \in Seq(A \ Elements(chosen))
    BY ONLY <2>2, <2>4, ListOf
  <2>6. added \o new \in Seq(A \ Elements(chosen))
    BY ONLY <1>5, <2>5
  <2>7. QED
    BY <1>4, <2>6
<1>13. RepairTypes'
  BY <1>1, <1>2, <1>3, <1>6, <1>7, <1>8, <1>11, <1>12 DEF RepairTypes
<1>14. RepairStages'
  <2>1. Elements(chosen) \subseteq Elements(r)
    BY <1>5, <1>9
  <2>2. QED
    BY <1>2, <1>3, <1>5, <1>6, <1>10, <2>1 DEF RepairStages
<1>15. QED
  BY <1>13, <1>14 DEF RepairInv

LEMMA GiveUpSteps == ASSUME RepairInv, Repair!GiveUp PROVE RepairInv'
<1>1. RepairTypes /\ RepairStages
  BY DEF RepairInv
<1>2. /\ repairing = "bridging" /\ repairing' = "done" /\ Len(groups) > 1 /\ Repair!Bridges = {}
      /\ relationships' = relationships /\ allowed_keys' = allowed_keys /\ chosen' = chosen
      /\ added' = added /\ groups' = groups
      /\ resolved' = Repair!Those(resolved, Repair!core)
      /\ unjoinable' = Repair!Those(resolved, Repair!Range(resolved) \ Repair!core)
  BY Zenon DEF Repair!GiveUp, Repair!given
<1>3. PICK E, A, M, gs : E = relationships /\ A = allowed_keys /\ M = Elements(resolved) /\ gs = groups
  OBVIOUS
<1>4. /\ A \in SUBSET SchemaTable /\ IsFiniteSet(A) /\ SchemaTable \in SUBSET Nat /\ M \in SUBSET A
      /\ resolved \in Seq(A) /\ Distinct(resolved)
      /\ gs \in Seq(SUBSET A) /\ Len(gs) \in Nat /\ Groups(E, M, gs) /\ Elements(chosen) \subseteq M
  <2>1. A \in SUBSET SchemaTable /\ IsFiniteSet(A) /\ SchemaTable \in SUBSET Nat /\ M \in SUBSET A
    BY <1>1, <1>3, RepairConstants
  <2>2. resolved \in Seq(A) /\ Distinct(resolved) /\ gs \in Seq(SUBSET A)
    BY <1>1, <1>3 DEF RepairTypes
  <2>3. Groups(E, M, gs) /\ Elements(chosen) \subseteq M
    BY <1>1, <1>2, <1>3 DEF RepairStages
  <2>4. Len(gs) \in Nat
    BY <2>2
  <2>5. QED
    BY <2>1, <2>2, <2>3, <2>4
<1>5. NoPaths(E, A, gs)
  <2>1. \A i, j \in 1 .. Len(groups) : i < j =>
              \A p : IsPath(relationships, allowed_keys, groups[i], groups[j], p) =>
                \E b \in Repair!Bridges : Len(b) <= Len(p)
    BY <1>3, <1>4, BridgesAre
  <2>2. QED
    BY <1>2, <1>3, <2>1 DEF NoPaths
<1>6. PICK c \in 1 .. Len(gs) : Repair!core = gs[c]
  <2>1. groups \in Seq(SUBSET A) /\ Len(groups) > 1
    BY <1>2, <1>3, <1>4
  <2>2. \E c \in 1 .. Len(groups) : Repair!core = groups[c]
    BY <1>4, <2>1, CoreIs
  <2>3. QED
    BY <1>3, <2>2
<1>7. PICK C : C = gs[c]
  OBVIOUS
<1>8. C # {} /\ C \in SUBSET M /\ (\A t \in C : C = From(E, {t}, M))
  BY <1>4, <1>7 DEF Groups
<1>9. \A t \in M \ C : t \notin From(E, C, A)
  BY <1>4, <1>5, <1>7, NothingJoins
<1>10. PICK r, u : r = resolved' /\ u = unjoinable'
  OBVIOUS
<1>11. PICK s : s = resolved
  OBVIOUS
<1>12. s \in Seq(A) /\ Distinct(s) /\ M = Elements(s)
  BY <1>3, <1>4, <1>11
<1>13. r = Repair!Those(s, C) /\ u = Repair!Those(s, M \ C)
  <2>1. Repair!Range(resolved) = M
    BY <1>3, <1>4, ElementsAre
  <2>2. QED
    BY <1>2, <1>6, <1>7, <1>10, <1>11, <2>1
<1>14. r \in Seq(A) /\ Distinct(r) /\ Elements(r) = Elements(s) \cap C
  BY ONLY <1>12, <1>13, ThoseAre
<1>15. u \in Seq(A) /\ Elements(u) = Elements(s) \cap (M \ C)
  BY ONLY <1>12, <1>13, ThoseAre
<1>16. Elements(r) = C /\ Elements(u) = M \ C
  BY <1>8, <1>12, <1>14, <1>15
<1>17. r # <<>> /\ r[1] \in C
  <2>1. Len(r) \in Nat
    BY <1>14
  <2>2. PICK x : x \in Elements(r)
    BY <1>8, <1>16
  <2>3. PICK k \in 1 .. Len(r) : r[k] = x
    BY <2>2 DEF Elements
  <2>4. 1 \in 1 .. Len(r)
    BY <2>1
  <2>5. r[1] \in Elements(r)
    BY <2>4 DEF Elements
  <2>6. r # <<>>
    BY <2>4
  <2>7. QED
    BY <1>16, <2>5, <2>6
<1>18. C = From(E, {r[1]}, C)
  <2>1. PICK t : t = r[1]
    OBVIOUS
  <2>2. t \in M /\ C = From(E, {t}, M)
    BY <1>8, <1>17, <2>1
  <2>3. M \in SUBSET SchemaTable
    BY <1>4
  <2>4. From(E, {t}, From(E, {t}, M)) = From(E, {t}, M)
    BY ONLY <2>2, <2>3, FromWithin
  <2>5. QED
    BY ONLY <2>1, <2>2, <2>4
<1>19. RepairTypes'
  BY <1>1, <1>2, <1>3, <1>10, <1>14, <1>15, <1>17 DEF RepairTypes
<1>20. RepairStages'
  <2>1. Elements(chosen) \subseteq Elements(r) \cup Elements(u)
    BY <1>4, <1>16
  <2>2. Elements(r) = From(E, {r[1]}, Elements(r))
    BY <1>16, <1>18
  <2>3. \A t \in Elements(u) : t \notin From(E, Elements(r), A)
    BY <1>9, <1>16
  <2>4. QED
    BY <1>2, <1>3, <1>10, <2>1, <2>2, <2>3 DEF RepairStages
<1>21. QED
  BY <1>19, <1>20 DEF RepairInv

LEMMA RepairStutter == ASSUME RepairInv, UNCHANGED <<relationships, repair>> PROVE RepairInv'
<1>1. /\ relationships' = relationships /\ allowed_keys' = allowed_keys /\ chosen' = chosen
      /\ repairing' = repairing /\ resolved' = resolved /\ added' = added /\ unjoinable' = unjoinable
      /\ groups' = groups
  BY DEF repair
<1>2. RepairTypes'
  BY <1>1 DEF RepairInv, RepairTypes
<1>3. RepairStages'
  BY <1>1 DEF RepairInv, RepairStages
<1>4. QED
  BY <1>2, <1>3 DEF RepairInv

LEMMA RepairSteps == ASSUME RepairInv, Repair!Next PROVE RepairInv'
  BY GroupSteps, JoinedSteps, BridgeSteps, GiveUpSteps DEF Repair!Next

-----------------------------------------------------------------------------
(* The repair: its properties                                              *)

LEMMA RepairSound == RepairInv => Repair!TypeOK /\ Repair!ResolvedIsJoinable
<1> SUFFICES ASSUME RepairInv PROVE Repair!TypeOK /\ Repair!ResolvedIsJoinable
  OBVIOUS
<1>1. RepairTypes /\ RepairStages
  BY DEF RepairInv
<1>2. chosen \in Seq(allowed_keys) /\ resolved \in Seq(allowed_keys) /\ unjoinable \in Seq(allowed_keys)
  BY <1>1 DEF RepairTypes
<1>3. /\ Repair!Range(chosen) = Elements(chosen) /\ Repair!Range(resolved) = Elements(resolved)
      /\ Repair!Range(unjoinable) = Elements(unjoinable) /\ DOMAIN resolved = 1 .. Len(resolved)
  <2>1. Repair!Range(chosen) = Elements(chosen)
    BY <1>2, ElementsAre
  <2>2. Repair!Range(resolved) = Elements(resolved) /\ DOMAIN resolved = 1 .. Len(resolved)
    BY <1>2, ElementsAre
  <2>3. Repair!Range(unjoinable) = Elements(unjoinable)
    BY <1>2, ElementsAre
  <2>4. QED
    BY <2>1, <2>2, <2>3
<1>4. Repair!IsInjective(resolved)
  <2>1. Distinct(resolved)
    BY <1>1 DEF RepairTypes
  <2>2. \A a, b \in DOMAIN resolved : resolved[a] = resolved[b] => a = b
    BY <1>3, <2>1 DEF Distinct
  <2>3. QED
    BY <2>2 DEF Repair!IsInjective
<1>5. Repair!TypeOK
  BY <1>1, <1>3, <1>4 DEF RepairTypes, Repair!TypeOK
<1>6. ASSUME repairing = "done"
      PROVE  /\ Repair!Range(resolved) = Repair!Reach({Head(resolved)}, Repair!Range(resolved))
             /\ \A t \in Repair!Range(unjoinable) : t \notin Repair!Reach(Repair!Range(resolved), allowed_keys)
             /\ Repair!Range(chosen) \subseteq Repair!Range(resolved) \cup Repair!Range(unjoinable)
  <2>1. /\ Elements(resolved) = From(relationships, {resolved[1]}, Elements(resolved))
        /\ \A t \in Elements(unjoinable) : t \notin From(relationships, Elements(resolved), allowed_keys)
        /\ Elements(chosen) \subseteq Elements(resolved) \cup Elements(unjoinable)
    BY <1>1, <1>6 DEF RepairStages
  <2>2. Head(resolved) = resolved[1]
    <3>1. resolved # <<>>
      BY <1>1 DEF RepairTypes
    <3>2. QED
      BY <1>2, <3>1
  <2>3. \A S, M : Repair!Reach(S, M) = From(relationships, S, M)
    BY ReachIs
  <2>4. QED
    BY <1>3, <2>1, <2>2, <2>3
<1>7. QED
  BY <1>5, <1>6 DEF Repair!ResolvedIsJoinable

LEMMA GroupsFewer ==
  ASSUME RepairInv, Repair!Next, groups' # groups, groups # <<>>
  PROVE  Len(groups') < Len(groups)
<1>1. Repair!Group
  BY DEF Repair!Next, Repair!Joined, Repair!Bridge, Repair!GiveUp
<1>2. RepairTypes /\ RepairStages
  BY DEF RepairInv
<1>3. repairing = "grouping"
  BY <1>1, Zenon DEF Repair!Group
<1>4. PICK E, M, old, new : E = relationships /\ M = Elements(resolved) /\ old = groups /\ new = groups'
  OBVIOUS
<1>5. Merging(E, M, old)
  BY <1>2, <1>3, <1>4 DEF RepairStages
<1>6. groups' \in Seq(SUBSET allowed_keys) /\ Groups(relationships, Elements(resolved), groups')
  BY <1>1, <1>2, GroupFinds
<1>7. Len(new) \in Nat /\ Groups(E, M, new) /\ Len(old) \in Nat /\ M \in SUBSET SchemaTable
  <2>1. new \in Seq(SUBSET allowed_keys) /\ Groups(E, M, new)
    BY <1>4, <1>6
  <2>2. old \in Seq(SUBSET allowed_keys)
    BY <1>2, <1>4 DEF RepairTypes
  <2>3. M \in SUBSET allowed_keys /\ allowed_keys \in SUBSET SchemaTable
    BY <1>2, <1>4, RepairConstants
  <2>4. Len(new) \in Nat
    BY <2>1
  <2>5. Len(old) \in Nat
    BY <2>2
  <2>6. QED
    BY <2>1, <2>3, <2>4, <2>5
<1>8. Len(new) < Len(old)
  BY ONLY <1>5, <1>7, Fewer
<1>9. QED
  BY <1>4, <1>8

LEMMA CheapestWins ==
  ASSUME RepairInv, Repair!Next, added' # added, NEW i \in DOMAIN groups, NEW j \in DOMAIN groups, i < j,
         NEW p \in Repair!Paths(groups[i], groups[j])
  PROVE  Len(added') - Len(added) <= Repair!Cardinality(Repair!Range(p) \ Repair!Range(resolved))
<1>1. Repair!Bridge
  BY DEF Repair!Next, Repair!Group, Repair!Joined, Repair!GiveUp
<1>2. RepairTypes /\ RepairStages
  BY DEF RepairInv
<1>3. repairing = "bridging"
  BY <1>1, Zenon DEF Repair!Bridge
<1>4. PICK E, A, M, gs : E = relationships /\ A = allowed_keys /\ M = Elements(resolved) /\ gs = groups
  OBVIOUS
<1>5. PICK best, new :
        /\ best \in Seq(A) /\ Bridged(E, A, gs, best) /\ NoShorter(E, A, gs, Len(best))
        /\ new \in Seq(A) /\ Distinct(new) /\ Elements(new) = Elements(best) \ M /\ added' = added \o new
  <2>1. PICK best, new :
           /\ best \in Seq(allowed_keys) /\ Bridged(relationships, allowed_keys, groups, best)
           /\ NoShorter(relationships, allowed_keys, groups, Len(best))
           /\ new \in Seq(allowed_keys) /\ Distinct(new)
           /\ Elements(new) = Elements(best) \ Elements(resolved)
           /\ resolved' = resolved \o new /\ added' = added \o new
    BY <1>1, <1>2, BridgeFinds
  <2>2. QED
    BY <1>4, <2>1
<1>6. /\ A \in SUBSET SchemaTable /\ IsFiniteSet(A) /\ M \in SUBSET A /\ gs \in Seq(SUBSET A) /\ Len(gs) \in Nat
      /\ Groups(E, M, gs) /\ DOMAIN groups = 1 .. Len(gs)
  <2>1. A \in SUBSET SchemaTable /\ IsFiniteSet(A) /\ M \in SUBSET A
    BY <1>2, <1>4, RepairConstants
  <2>2. gs \in Seq(SUBSET A)
    BY <1>2, <1>4 DEF RepairTypes
  <2>3. Groups(E, M, gs)
    BY <1>2, <1>3, <1>4 DEF RepairStages
  <2>4. Len(gs) \in Nat /\ DOMAIN gs = 1 .. Len(gs)
    BY <2>2
  <2>5. QED
    BY <1>4, <2>1, <2>2, <2>3, <2>4
<1>7. i \in 1 .. Len(gs) /\ j \in 1 .. Len(gs) /\ i # j
  BY <1>6
<1>8. IsPath(E, A, gs[i], gs[j], p)
  <2>1. IsFiniteSet(allowed_keys)
    BY <1>4, <1>6
  <2>2. IsPath(relationships, allowed_keys, groups[i], groups[j], p)
    BY <2>1, PathsAre
  <2>3. QED
    BY <1>4, <2>2
<1>9. PICK k : k = Len(best)
  OBVIOUS
<1>10. k \in Nat /\ NoShorter(E, A, gs, k)
  BY <1>5, <1>9
<1>11. PICK c : c = Cardinality(Elements(p) \ M)
  OBVIOUS
<1>12. c \in Nat /\ k - 2 <= c
  <2>1. Cardinality(Elements(p) \ M) \in Nat
    BY ONLY <1>6, <1>7, <1>8, <1>10, NoCheaper
  <2>2. k - 2 <= Cardinality(Elements(p) \ M)
    BY ONLY <1>6, <1>7, <1>8, <1>10, NoCheaper
  <2>3. QED
    BY ONLY <1>11, <2>1, <2>2
<1>13. Len(new) \in Nat /\ Len(new) <= k - 2
  <2>1. PICK a \in 1 .. Len(gs), b \in 1 .. Len(gs) : a < b /\ IsPath(E, A, gs[a], gs[b], best)
    BY <1>5 DEF Bridged
  <2>2. best # <<>> /\ Distinct(best) /\ best[1] \in gs[a] /\ best[Len(best)] \in gs[b]
    BY <2>1 DEF IsPath
  <2>3. gs[a] \cap gs[b] = {} /\ gs[a] \in SUBSET M /\ gs[b] \in SUBSET M
    <3>1. a # b
      BY <2>1
    <3>2. QED
      BY <1>6, <3>1 DEF Groups
  <2>4. best[1] \in M /\ best[Len(best)] \in M /\ best[1] # best[Len(best)]
    BY <2>2, <2>3
  <2>5. best \in Seq(A)
    BY <1>5
  <2>6. Cardinality(Elements(best) \ M) <= Len(best) - 2
    BY ONLY <2>2, <2>4, <2>5, BridgeAdds
  <2>7. Cardinality(Elements(new)) = Len(new) /\ Len(new) \in Nat
    BY <1>5, CountOf
  <2>8. QED
    BY <1>5, <1>9, <2>6, <2>7
<1>14. Len(added') - Len(added) = Len(new)
  <2>1. added \in Seq(allowed_keys \ Elements(chosen))
    BY <1>2 DEF RepairTypes
  <2>2. Len(added) \in Nat
    BY <2>1
  <2>3. Len(added \o new) = Len(added) + Len(new)
    BY <1>5, <2>1
  <2>4. QED
    BY <1>5, <1>13, <2>2, <2>3
<1>15. Repair!Cardinality(Repair!Range(p) \ Repair!Range(resolved)) = c
  <2>1. \A X : Repair!Cardinality(X) = Cardinality(X)
    BY Zenon DEF Repair!Cardinality, Cardinality
  <2>2. Repair!Range(p) = Elements(p)
    BY <1>8, ElementsAre DEF IsPath
  <2>3. Repair!Range(resolved) = M
    <3>1. resolved \in Seq(allowed_keys)
      BY <1>2 DEF RepairTypes
    <3>2. QED
      BY <1>4, <3>1, ElementsAre
  <2>4. QED
    BY <1>11, <2>1, <2>2, <2>3
<1>16. QED
  BY <1>10, <1>12, <1>13, <1>14, <1>15

-----------------------------------------------------------------------------
(* The stages of a query                                                   *)

StagesInv == /\ part = "scope" => ScopeInv
             /\ part = "spelling" => SpellingInv /\ Unmixed
             /\ part = "repair" => RepairInv

LEMMA StagesAlways == StagesSpec => []StagesInv
<1>1. StagesInit => StagesInv
  BY ScopeInit, SpellingInit, UnmixedInit, RepairInit DEF StagesInit, StagesInv
<1>2. StagesInv /\ [StagesNext]_all => StagesInv'
  <2> SUFFICES ASSUME StagesInv, [StagesNext]_all PROVE StagesInv'
    OBVIOUS
  <2>1. part' = part
    BY DEF StagesNext, all
  <2>2. ASSUME part = "scope" PROVE ScopeInv'
    <3>1. ScopeInv
      BY <2>2 DEF StagesInv
    <3>2. Scope!Next \/ UNCHANGED <<relationships, scope>>
      BY <2>2 DEF StagesNext, all
    <3>3. QED
      BY <3>1, <3>2, ScopeSteps, ScopeStutter
  <2>3. ASSUME part = "spelling" PROVE SpellingInv' /\ Unmixed'
    <3>1. SpellingInv /\ Unmixed
      BY <2>3 DEF StagesInv
    <3>2. Checker!Next \/ UNCHANGED spelling
      BY <2>3 DEF StagesNext, all
    <3>3. QED
      BY <3>1, <3>2, SpellingSteps, UnmixedSteps
  <2>4. ASSUME part = "repair" PROVE RepairInv'
    <3>1. RepairInv
      BY <2>4 DEF StagesInv
    <3>2. Repair!Next \/ UNCHANGED <<relationships, repair>>
      BY <2>4 DEF StagesNext, all
    <3>3. QED
      BY <3>1, <3>2, RepairSteps, RepairStutter
  <2>5. QED
    BY <2>1, <2>2, <2>3, <2>4 DEF StagesInv
<1>3. QED
  BY <1>1, <1>2, PTL DEF StagesSpec

\* For any dictionary, jargon and question: no placeholder is left in the
\* corrected question if the terms start and end in characters of words or
\* hyphens.  Whenever none is left, a correction that is reported replaces
\* something that the user wrote by something that the corrected question has,
\* and the longest term, wherever it occurs, comes out as the user spelled it.
\* Exempt words that are no jargon stay as they are, left or not
\* (SpellingChecker.check).
THEOREM SoundSpelling == StagesSpec => []SpellingIsSound
<1>1. StagesInv => SpellingIsSound
  BY SpellingSound, NothingLeft DEF StagesInv, SpellingIsSound
<1>2. QED
  BY <1>1, StagesAlways, PTL

\* For any schema, embeddings, similarities and settings and over any number of
\* retries: when the walks are over, levels are distances from the seeds; what
\* is offered can be joined to a seed within what is offered, and nothing is
\* cut off for something further away (JoinGraph.bfs_levels,
\* build_table_neighborhood, narrow_schema).
THEOREM SoundScope == StagesSpec => []ScopeIsSound
<1>1. StagesInv => ScopeIsSound
  BY ScopeSound DEF StagesInv, ScopeIsSound
<1>2. QED
  BY <1>1, StagesAlways, PTL

\* A retry that no cap cuts offers what the attempt before offered, unless that
\* one was a fallback (BfsStrategy._widen).
THEOREM RetriesWiden == StagesSpec => RetryWidens
<1>1. ASSUME StagesInv, [StagesNext]_all, offered' # offered, ~notice, discarded' = {},
             Len(candidates) <= top_k
      PROVE  offered \subseteq offered'
  <2>1. part = "scope" /\ Scope!Next
    BY <1>1 DEF StagesNext, all, scope
  <2>2. ScopeInv
    BY <1>1, <2>1 DEF StagesInv
  <2>3. QED
    BY <1>1, <2>1, <2>2, WidensAtOnce
<1>2. StagesInv /\ [StagesNext]_all =>
        [ offered' # offered /\ ~notice /\ discarded' = {} /\ Len(candidates) <= top_k
            => offered \subseteq offered' ]_(Scope!vars)
  BY <1>1
<1>3. QED
  BY <1>2, StagesAlways, PTL DEF StagesSpec, RetryWidens, Scope!RetryWidens

\* For any schema and any selection of shown tables: what the repair returns can
\* be joined as it stands, and what it reports as unjoinable could not have been
\* joined to it through any table that was shown; each turn leaves fewer groups,
\* and none adds more tables than another bridge would have (connect_selection).
THEOREM SoundRepair == StagesSpec => RepairIsSound
<1>1. StagesInv => (part = "repair" => Repair!TypeOK /\ Repair!ResolvedIsJoinable)
  BY RepairSound DEF StagesInv
<1>2. ASSUME StagesInv, [StagesNext]_all, groups' # groups \/ added' # added
      PROVE  RepairInv /\ Repair!Next
  <2>1. part = "repair" /\ Repair!Next
    BY <1>2 DEF StagesNext, all, repair
  <2>2. QED
    BY <1>2, <2>1 DEF StagesInv
<1>3. StagesInv /\ [StagesNext]_all =>
        [groups' # groups /\ groups # <<>> => Len(groups') < Len(groups)]_(Repair!vars)
  BY <1>2, GroupsFewer
<1>4. StagesInv /\ [StagesNext]_all =>
        [ added' # added =>
            \A i, j \in DOMAIN groups : i < j =>
              \A p \in Repair!Paths(groups[i], groups[j]) :
                Len(added') - Len(added)
                  <= Repair!Cardinality(Repair!Range(p) \ Repair!Range(resolved)) ]_(Repair!vars)
  BY <1>2, CheapestWins
<1>5. StagesSpec => Repair!GroupsShrink
  BY <1>3, StagesAlways, PTL DEF StagesSpec, Repair!GroupsShrink
<1>6. StagesSpec => Repair!SmallestRepairWins
  BY <1>4, StagesAlways, PTL DEF StagesSpec, Repair!SmallestRepairWins
<1>7. StagesSpec => [](part = "repair" => Repair!TypeOK /\ Repair!ResolvedIsJoinable)
  BY <1>1, StagesAlways, PTL
<1>8. QED
  BY <1>5, <1>6, <1>7 DEF RepairIsSound
=============================================================================
