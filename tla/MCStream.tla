------------------------------ MODULE MCStream ------------------------------
(***************************************************************************)
(* A small instance of Stream: up to five stages, as many as a run without *)
(* retries goes through after its question was accepted.                   *)
(***************************************************************************)
EXTENDS Stream
=============================================================================
