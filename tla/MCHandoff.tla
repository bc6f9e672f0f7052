----------------------------- MODULE MCHandoff -----------------------------
(* Instances of Handoff for TLC. *)
EXTENDS Handoff, TLC

Symmetry == Permutations(Turns) \cup Permutations(Tickets)
=============================================================================
