---------------------------- MODULE QueryService ----------------------------
(***************************************************************************)
(* What a client of the query service relies on, without the pipeline that *)
(* provides it: a run proposes queries, one of them may be approved, only  *)
(* an approved query is executed, at most once, and then the client gets   *)
(* an answer.  A run that ends otherwise leaves no trace: it has executed  *)
(* nothing and stored nothing.  Queries are known by number; 0 is none.    *)
(***************************************************************************)
EXTENDS Naturals

VARIABLES
  phase,       \* "running", or how the run ended
  candidate,   \* the last query proposed, or loaded by a rerun
  approved,    \* has the candidate passed every check?
  executed,    \* has it been run against the target database?
  stored       \* the query a rerun would start from

vars == <<phase, candidate, approved, executed, stored>>

Init ==
  /\ phase = "running"
  /\ candidate = 0
  /\ approved = FALSE
  /\ executed = FALSE
  /\ stored = 0

\* Another query than any the client or the store has: numbers only grow.
Propose ==
  /\ phase = "running"
  /\ ~approved
  /\ candidate' \in Nat
  /\ candidate' > candidate /\ candidate' > stored
  /\ UNCHANGED <<phase, approved, executed, stored>>

Approve ==
  /\ phase = "running"
  /\ candidate # 0
  /\ ~approved
  /\ approved' = TRUE
  /\ UNCHANGED <<phase, candidate, executed, stored>>

Execute ==
  /\ phase = "running"
  /\ approved /\ ~executed
  /\ executed' = TRUE
  /\ UNCHANGED <<phase, candidate, approved, stored>>

Answer ==
  /\ phase = "running"
  /\ phase' = "answered"
  /\ stored' \in {stored, candidate}
  /\ UNCHANGED <<candidate, approved, executed>>

GiveUp ==
  /\ phase = "running"
  /\ ~executed
  /\ phase' \in {"raised", "cancelled"}
  /\ UNCHANGED <<candidate, approved, executed, stored>>

Expire ==
  /\ stored' = 0
  /\ UNCHANGED <<phase, candidate, approved, executed>>

\* A rerun starts over, with or without the stored query: nothing that an
\* earlier run was allowed to do is inherited.
Restart ==
  /\ phase # "running"
  /\ stored # 0
  /\ phase' = "running"
  /\ candidate' \in {0, stored}
  /\ approved' = FALSE
  /\ executed' = FALSE
  /\ UNCHANGED stored

Next == Propose \/ Approve \/ Execute \/ Answer \/ GiveUp \/ Expire \/ Restart

Spec == Init /\ [][Next]_vars

=============================================================================
