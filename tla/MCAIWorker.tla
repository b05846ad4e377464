------------------------------ MODULE MCAIWorker ------------------------------
(***************************************************************************)
(* An instance of AIWorker: four requests for a queue of two, so that the  *)
(* queue overflows with the worker busy and again after that, and any      *)
(* number of starts and stops.                                             *)
(***************************************************************************)
EXTENDS AIWorker

CONSTANTS r1, r2, r3, r4
================================================================================
