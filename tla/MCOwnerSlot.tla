----------------------------- MODULE MCOwnerSlot -----------------------------
(* Small instances of OwnerSlot for TLC. *)
EXTENDS OwnerSlot, TLC

Symmetry == Permutations(Pids)
=============================================================================
