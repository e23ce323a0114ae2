------------------------------ MODULE MCUpdate ------------------------------
(* A small instance of UpdateOrchestrator: every release brings a migration. *)
EXTENDS UpdateOrchestrator

MCRevision == [v \in Versions |-> v]
=============================================================================
