----------------------------- MODULE MCChatTurn -----------------------------
(* Instances of ChatTurn for TLC. *)
EXTENDS ChatTurn, TLC

\* Every intent asks for every slot.
MCRequired == [intent \in Intents |-> Slots]

Symmetry == Permutations(Rows) \cup Permutations(Turns)
=============================================================================
