------------------------------ MODULE QueryGates ------------------------------
(***************************************************************************)
(* The way of a written query to its result on either engine.  The         *)
(* generator, the validator, the policy and the executor hand each query   *)
(* to the part of them that knows the engine of the run, so the two gates, *)
(* SqlGate and MongoGate, share the fields of a run and differ in what     *)
(* these hold.                                                             *)
(***************************************************************************)
EXTENDS SqlGate

CONSTANTS
  Collection, Short, NoName, Unlimited, Documents, Fanout,  \* as in MongoGate
  MongoWritten                                              \* its Written

VARIABLE engine

Mongo == INSTANCE MongoGate WITH Written <- MongoWritten

ASSUME InstanceAssumption == Mongo!Parameters

GatesInit ==
  \/ engine = "postgres" /\ Init
  \/ engine = "mongo" /\ Mongo!Init /\ written = NoQuery /\ available = 0

GatesNext ==
  /\ UNCHANGED engine
  /\ \/ engine = "postgres" /\ Next
     \/ engine = "mongo" /\ UNCHANGED <<written, available>> /\ Mongo!Next

GatesSpec == GatesInit /\ [][GatesNext]_<<engine, vars>>

-----------------------------------------------------------------------------
(* Properties                                                              *)

Sql == engine = "postgres"

\* On PostgreSQL one statement runs, of tables with the names of selected ones,
\* and on an opinion in its favour only; a rejection fits its error, unless it
\* is a quoted false; the policy refuses no query for a table that the
\* generator let pass, and only tables that the selection lacks are asked for
\* (PostgresQueryGenerator, PostgresQueryValidator, SafetyPolicyValidator).
SqlGateIsSound ==
  Sql => /\ TypeOK
         /\ ExecutedIsContained /\ ExecutedIsApproved
         /\ RejectionsAreErrors
         /\ ScopesAgree /\ MissingIsLacking

\* Whatever runs on PostgreSQL only reads (SafetyPolicyValidator).
OnlyReadsRun == Sql => OnlyReads

\* A sound query passes all checks, if the model accepts it (the stages from
\* PostgresQueryGenerator to SafetyPolicyValidator).
SoundSqlPasses == Sql => SoundQueriesPass

\* On MongoDB no pipeline runs that the fast checks forbid, that reads or joins
\* a collection with neither the name of a selected one nor what follows the
\* dot of one, or against an objection that stands; the fast checks reject none
\* without a reason, and a rejection fits its error, unless it is a quoted
\* false (MongoQueryGenerator, MongoQueryValidator).
MongoGateIsSound ==
  ~Sql => /\ Mongo!TypeOK
          /\ Mongo!ExecutedIsWellFormed /\ Mongo!JoinsAreSelected
          /\ Mongo!ObjectionsHold /\ Mongo!RejectionIsDeserved
          /\ Mongo!OutcomeFitsError

\* No result has more rows than the settings allow, but for pipelines with a
\* limit of their own, and all that came is there to be read (QueryExecutor,
\* ResultProcessor).
ResultIsSound ==
  /\ IF Sql THEN ResultIsBounded ELSE Mongo!ResultIsBounded
  /\ ResultIsWhole
==============================================================================
