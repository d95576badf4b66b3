--------------------------- MODULE MCDeadlineWorker ---------------------------
(* Instances of the deadline loop for TLC. *)
EXTENDS DeadlineWorker
=============================================================================
