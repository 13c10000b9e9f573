----------------------------- MODULE MongoGate -----------------------------
(***************************************************************************)
(* One MongoDB query on its way from the object a model wrote to the       *)
(* documents of a result: generators/mongo.py, validators/mongo.py,        *)
(* policy.py, executor.py and results.py.                                  *)
(*                                                                         *)
(* A stage of a pipeline is the operator it applies and what the checks    *)
(* look at: the collection it reads, the collections that a pipeline       *)
(* inside it reads, and its number.  Every stage keeps as many documents   *)
(* as it may.  Names compare as they are: no two differ in case only.      *)
(***************************************************************************)
EXTENDS QueryResults, Sequences, FiniteSetsExt

CONSTANTS
  Collection,  \* the collections there are
  Short,       \* what follows the first dot of a collection's name, if it has one
  NoName,
  Unlimited,   \* the limit of a query that has none
  Written,     \* the queries a model may write
  Documents,   \* the most documents a collection has
  Fanout       \* the most elements an array has

\* "match" stands for every stage that the checks do not look at, "bare" for
\* one whose operator lacks its "$", "count_by_size" for a group that counts
\* with $size, "lookup_group" for a lookup whose own pipeline groups, and
\* "project_grouped" for a projection of a field which that grouping makes.
Operator == {"match", "bare", "write", "count_by_size", "lookup", "lookup_group",
             "unwind_grouped", "project_grouped", "union", "limit"}
Stage == [op : Operator, from : Collection \cup {NoName},
          inner : SUBSET Collection, number : Int]
Query == [operation : {"find", "aggregate"}, collection : Collection,
          limit : {Unlimited} \cup Int, pipeline : Seq(Stage)]
NoQuery == [operation |-> "none", collection |-> NoName,
            limit |-> Unlimited, pipeline |-> <<>>]

\* What holds of the constants.
Parameters ==
  /\ NoName \notin Collection /\ Short \in [Collection -> Collection \cup {NoName}]
  /\ Unlimited \notin Int /\ Written \subseteq Query
  /\ Documents \in Nat /\ Fanout \in Nat \ {0}

ErrorType == {"VALID", "SYNTAX_ERROR", "PLANNER_ERROR", "UNSAFE",
              "GENERATION_ERROR", "SEMANTIC_ERROR", "SCHEMA_ERROR"}
Unstated == "unstated"

\* What the validating model says; "text" is the word false in quotes.  Its
\* issues are none, real ones, imagined ones that the code recognises as such,
\* both, or not a list.
Answer == [error_type : {"VALID", "SYNTAX_ERROR", "UNSAFE", "unclear", Unstated},
           valid : {"yes", "no", "text", Unstated},
           issues : {"none", "real", "imagined", "both", "text"}]
NoAnswer == [error_type |-> Unstated, valid |-> Unstated, issues |-> "none"]
Validation == [valid : BOOLEAN, error_type : ErrorType]
NoValidation == [valid |-> FALSE, error_type |-> "VALID"]

VARIABLES
  stage,       \* "generating", "missing", "validating", "rejected",
               \* "policing", "refused", "executing", "done" or "failed"
  selected,    \* collections of the relevant schema
  query, missing, answer, validation, result

vars == <<stage, selected, query, missing, answer, validation, result>>

Stages(q) == {q.pipeline[i] : i \in DOMAIN q.pipeline}

-----------------------------------------------------------------------------
(* MongoQueryGenerator                                                     *)

\* The containment check looks at the collection and at the lookups of the
\* pipeline itself, but for those that name no collection.
Referenced(q) ==
  {q.collection} \cup ({s.from : s \in {t \in Stages(q) :
                           t.op \in {"lookup", "lookup_group"}}} \ {NoName})

\* A selected collection goes by its name and by what follows the dot in it.
AllowedCollections(names) == names \cup ({Short[c] : c \in names} \ {NoName})

Generate(q) ==
  /\ stage = "generating"
  /\ query' = q
  /\ missing' = Referenced(q) \ AllowedCollections(selected)
  /\ stage' = IF missing' = {} THEN "validating" ELSE "missing"
  /\ UNCHANGED <<selected, answer, validation, result>>

\* Also: no object, or one that is no MongoQuery.
GenerationFails ==
  /\ stage = "generating"
  /\ stage' = "failed"
  /\ UNCHANGED <<selected, query, missing, answer, validation, result>>

AskForCollections(names) ==
  /\ stage = "generating"
  /\ stage' = "missing" /\ missing' = names /\ query' = NoQuery
  /\ UNCHANGED <<selected, answer, validation, result>>

Reselect(names) ==
  /\ stage = "missing"
  /\ selected' = names /\ stage' = "generating" /\ missing' = {}
  /\ query' = NoQuery
  /\ UNCHANGED <<answer, validation, result>>

-----------------------------------------------------------------------------
(* MongoQueryValidator                                                     *)

\* The stages are looked at in their order, and the first bad one decides.
StageError(s) ==
  CASE s.op = "write" -> "UNSAFE"
    [] s.op \in {"bare", "count_by_size"} -> "SYNTAX_ERROR"
    [] OTHER -> "VALID"

\* A grouped field is projected after the lookup that makes it, and the array
\* was unwound nowhere before the projection.
HidesGrouped(p) ==
  \E j \in DOMAIN p :
    /\ p[j].op = "project_grouped"
    /\ \E i \in 1 .. j - 1 : p[i].op = "lookup_group"
    /\ \A k \in 1 .. j - 1 : p[k].op # "unwind_grouped"

BadStages(p) == {i \in DOMAIN p : StageError(p[i]) # "VALID"}

FastError(q) ==
  IF q.operation = "find" THEN "VALID" ELSE
  LET bad == BadStages(q.pipeline) IN
  IF bad # {} THEN StageError(q.pipeline[Min(bad)])
  ELSE IF HidesGrouped(q.pipeline) THEN "GENERATION_ERROR" ELSE "VALID"

KnownError(a) ==
  IF a.error_type \in ErrorType THEN a.error_type
  ELSE IF a.error_type = Unstated \/ a.valid # "no" THEN "VALID" ELSE "GENERATION_ERROR"

\* A mutant: a rejection without issues is taken back whatever its error.
OverruledAlways(a) == a.issues \in {"none", "imagined"}

\* Issues that the query cannot have are dropped, and a rejection that has
\* none left is taken back.
Overruled(a) ==
  /\ a.issues \in {"none", "imagined"}
  /\ KnownError(a) \in {"SYNTAX_ERROR", "GENERATION_ERROR"}

ErrorTypeOf(a) ==
  IF Overruled(a) THEN "VALID"
  ELSE IF KnownError(a) = "VALID" /\ a.valid = "no" THEN "GENERATION_ERROR"
       ELSE KnownError(a)

\* What no ValidationResult can be made of: issues that are no list, and a
\* query accepted without a word of "valid".
Readable(a) ==
  /\ a.issues # "text"
  /\ Overruled(a) \/ KnownError(a) # "VALID" \/ a.valid # Unstated

\* A quoted false is true until the result is made of it.
Judged(a) ==
  [valid |-> Overruled(a) \/ (KnownError(a) = "VALID" /\ a.valid = "yes"),
   error_type |-> ErrorTypeOf(a)]

\* transition: an unsafe query ends the run, any other rejection has the query
\* written again.
Conclude(v) ==
  /\ validation' = v
  /\ stage' = IF v.valid THEN "policing"
              ELSE IF v.error_type = "UNSAFE" THEN "refused" ELSE "rejected"
  /\ UNCHANGED <<selected, query, missing, result>>

RejectAtOnce ==
  /\ stage = "validating" /\ FastError(query) # "VALID"
  /\ answer' = NoAnswer
  /\ Conclude([valid |-> FALSE, error_type |-> FastError(query)])

Ask(a) ==
  /\ stage = "validating" /\ FastError(query) = "VALID" /\ Readable(a)
  /\ answer' = a
  /\ Conclude(Judged(a))

\* No answer, or one that cannot be read: with fail_fast nothing is accepted.
ValidationFails ==
  /\ stage = "validating" /\ FastError(query) = "VALID"
  /\ stage' = "failed"
  /\ UNCHANGED <<selected, query, missing, answer, validation, result>>

WriteAgain ==
  /\ stage = "rejected"
  /\ stage' = "generating"
  /\ query' = NoQuery /\ answer' = NoAnswer /\ validation' = NoValidation
  /\ UNCHANGED <<selected, missing, result>>

-----------------------------------------------------------------------------
(* SafetyPolicyValidator and QueryExecutor                                 *)

Allowed(q) ==
  /\ q.operation \in {"find", "aggregate"}
  /\ q.operation = "aggregate" => \A s \in Stages(q) : s.op # "write"

Police ==
  /\ stage = "policing"
  /\ stage' = IF Allowed(query) THEN "executing" ELSE "refused"
  /\ UNCHANGED <<selected, query, missing, answer, validation, result>>

\* Zero stands for no limit, and no limit is above that of the settings.
Limit(q) == Least(IF q.limit \in {Unlimited, 0} THEN MaxRows ELSE q.limit, MaxRows)

LimitStage(n) == [op |-> "limit", from |-> NoName, inner |-> {}, number |-> n]

\* A pipeline that limits itself anywhere is left as it is.
Bounded(q) ==
  IF \E s \in Stages(q) : s.op = "limit" THEN q.pipeline
                                         ELSE Append(q.pipeline, LimitStage(Limit(q)))

\* The server takes no $limit that is not positive.
Accepted(p) == \A i \in DOMAIN p : p[i].op = "limit" => p[i].number > 0

\* The documents a stage makes of n documents, at most.
Passed(n, s) ==
  CASE s.op = "limit"          -> Least(n, s.number)
    [] s.op = "unwind_grouped" -> n * Fanout
    [] s.op = "union"          -> n + Documents
    [] OTHER                   -> n

\* A negative limit of a find is taken for its absolute value by the server.
Found(q) == Least(Documents, IF Limit(q) < 0 THEN -Limit(q) ELSE Limit(q))

\* What has passed each stage of a pipeline.
Flow(p) ==
  LET flow[i \in 0 .. Len(p)] ==
        IF i = 0 THEN Documents ELSE Passed(flow[i - 1], p[i])
  IN flow

Returned(q) ==
  IF q.operation = "find" THEN Found(q)
                          ELSE Flow(Bounded(q))[Len(Bounded(q))]

Runnable(q) == q.operation = "aggregate" => Accepted(Bounded(q))

Execute(n) ==
  /\ stage = "executing" /\ Runnable(query) /\ n <= Returned(query)
  /\ result' = Process(n) /\ stage' = "done"
  /\ UNCHANGED <<selected, query, missing, answer, validation>>

ExecutionFails ==
  /\ stage = "executing"
  /\ stage' = "failed"
  /\ UNCHANGED <<selected, query, missing, answer, validation, result>>

-----------------------------------------------------------------------------
Init ==
  /\ stage = "generating"
  /\ selected \in (SUBSET Collection) \ {{}}
  /\ query = NoQuery /\ missing = {}
  /\ answer = NoAnswer /\ validation = NoValidation /\ result = NoResult

Over == stage \in {"done", "failed", "refused"} /\ UNCHANGED vars

Next ==
  \/ stage = "generating" /\ \E q \in Written : Generate(q)
  \/ \E c \in Collection : AskForCollections({c})
  \/ \E names \in (SUBSET Collection) \ {{}} : Reselect(names)
  \/ GenerationFails
  \/ RejectAtOnce
  \/ \E a \in Answer : Ask(a)
  \/ ValidationFails \/ WriteAgain
  \/ Police
  \/ stage = "executing" /\ \E n \in 0 .. Returned(query) : Execute(n)
  \/ ExecutionFails
  \/ Over

Spec == Init /\ [][Next]_vars

-----------------------------------------------------------------------------
(* Properties                                                              *)

\* Type invariant.
TypeOK ==
  /\ stage \in {"generating", "missing", "validating", "rejected", "policing",
                "refused", "executing", "done", "failed"}
  /\ selected \in (SUBSET Collection) \ {{}}
  /\ query \in Written \cup {NoQuery} /\ missing \subseteq Collection
  /\ answer \in Answer /\ validation \in Validation /\ result \in Result

Runs == stage \in {"executing", "done"}
OwnLimits(q) == {s \in Stages(q) : s.op = "limit"}

\* No pipeline runs that writes, or that the server would turn down for a stage
\* without its "$" or for a group that counts with $size: such mistakes come
\* back as errors a retry can learn from.
ExecutedIsWellFormed ==
  Runs /\ query.operation = "aggregate" =>
    \A s \in Stages(query) : s.op \notin {"write", "bare", "count_by_size"}

\* The collection a query starts from and those its own lookups join are
\* selected ones, when it runs, or have the name that follows the dot of a
\* selected one.
GoesBy(name) == \E c \in selected : name \in {c, Short[c]}
JoinsAreSelected ==
  Runs => /\ GoesBy(query.collection)
          /\ query.operation = "aggregate" =>
               \A s \in Stages(query) :
                 s.op \in {"lookup", "lookup_group"} /\ s.from # NoName
                   => GoesBy(s.from)

\* An outcome and its error fit each other, so that the retry is routed right,
\* except that a quoted false is a rejection for no error.
OutcomeFitsError ==
  stage \in {"rejected", "policing"} =>
    /\ validation.valid => validation.error_type = "VALID"
    /\ validation.error_type = "VALID" => validation.valid \/ answer.valid = "text"

\* No word of the model's is enough to run what it calls unsafe, or what it
\* rejects for an issue that stands.
ObjectionsHold ==
  Runs => /\ answer.error_type # "UNSAFE"
          /\ answer.valid = "no" \/ KnownError(answer) # "VALID"
               => answer.issues \notin {"real", "both"}

\* A projection of grouped fields is not rejected where it can be computed: a
\* query is sent back by the fast checks only with a bad stage, or with a
\* lookup that groups before a projection and no unwinding between them.
RejectionIsDeserved ==
  stage = "rejected" /\ answer = NoAnswer =>
    \/ \E s \in Stages(query) : StageError(s) # "VALID"
    \/ \E i, j \in DOMAIN query.pipeline :
         /\ i < j
         /\ query.pipeline[i].op = "lookup_group"
         /\ query.pipeline[j].op = "project_grouped"
         /\ \A k \in i .. j : query.pipeline[k].op # "unwind_grouped"

\* Without a limit stage of its own, and unless its limit is negative, a query
\* returns no more documents than the settings allow.
ResultIsBounded ==
  stage = "done" /\ OwnLimits(query) = {} /\ (query.limit = Unlimited \/ query.limit >= 0)
    => result.row_count <= MaxRows
=============================================================================
