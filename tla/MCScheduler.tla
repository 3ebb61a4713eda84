----------------------------- MODULE MCScheduler -----------------------------
(* A small instance of Scheduler for TLC; liveness is checked, so no symmetry. *)
EXTENDS Scheduler
=============================================================================
