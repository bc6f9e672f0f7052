----------------------------- MODULE MCSession -----------------------------
(***************************************************************************)
(* Session in one instance for TLC: part names the component whose         *)
(* behaviour this is, the other stays where it starts.                     *)
(***************************************************************************)
EXTENDS Session, MCHandoff

VARIABLE part

question == <<context, bot, ticket, talking, asked, ratings, settled, unchecked>>

SessionInit ==
    /\ part \in {"handoff", "rating"}
    /\ Init /\ RA!Init

SessionNext ==
    \/ part = "handoff" /\ Next /\ UNCHANGED <<part, question>>
    \/ part = "rating" /\ RA!Next /\ UNCHANGED <<part, vars>>

SessionSpec == SessionInit /\ [][SessionNext]_<<part, vars, question>>
=============================================================================
