--------------------------- MODULE MCDialogTurns ---------------------------
(* Instances of DialogTurns and DialogRecursion for TLC. *)
EXTENDS DialogRecursion, TLC

\* LOGISTICS needs a validated order number, BOOK a free-text time, REFUND both.
MCRequired ==
    [intent \in Intents |->
        CASE intent = "LOGISTICS" -> {"order_id"}
          [] intent = "BOOK" -> {"time"}
          [] OTHER -> {"order_id", "time"}]

Only(slot, v) == [s \in Slots |-> IF s = slot THEN v ELSE NoValue]

\* A query that is complete and an operation that still lacks its slots.
MCRequests ==
    {[intent |-> "LOGISTICS", slots |-> Only("order_id", v)] : v \in Values}
    \cup {[intent |-> w, slots |-> NoSlots] : w \in WriteIntents \ {"BOOK"}}

RowSymmetry == Permutations(Rows)
=============================================================================
