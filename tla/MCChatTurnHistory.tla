------------------------- MODULE MCChatTurnHistory -------------------------
(* Instances of ChatTurnHistory for TLC. *)
EXTENDS ChatTurnHistory, TLC

\* Every intent asks for every slot.
MCRequired == [intent \in Intents |-> Slots]

Symmetry == Permutations(Rows) \cup Permutations(Turns)
=============================================================================
