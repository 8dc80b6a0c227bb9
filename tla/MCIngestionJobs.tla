----------------------------- MODULE MCIngestionJobs ---------------------------
(* IngestionJobs alone, for the run about what is stored twice. *)
EXTENDS IngestionJobs

CONSTANTS k1, r1, r2
===============================================================================
