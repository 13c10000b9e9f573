---------------------------- MODULE MCIngestion ----------------------------
(***************************************************************************)
(* A small instance of Ingestion: the numbers are in MCIngestion.cfg.      *)
(***************************************************************************)
EXTENDS Ingestion
=============================================================================
