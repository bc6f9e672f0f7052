-------------------------- MODULE ChatTurnHistory --------------------------
(***************************************************************************)
(* ChatTurn with a history variable, and the refinement it is there for:   *)
(* seen through its commits, a session whose turns overlap goes through    *)
(* the states of the sequential conversation of DialogTurns.               *)
(***************************************************************************)
EXTENDS ChatTurn

VARIABLE last  \* the last committed turn and the prompt it left standing

hvars == <<vars, last>>

NoneYet == [label |-> "RESET", finished |-> NoTask, shown |-> NoTask]

HInit == Init /\ last = NoneYet

\* What the reply leaves standing as the prompt to confirm.
Shown(out, label) ==
    IF out.state # "CONFIRMING" \/ out.active = NoTask THEN NoTask
    ELSE IF label \in {"CHAT", "PAYMENT"} THEN last.shown
    ELSE Content(out.active)

Committed(t) ==
    LET out == turns[t].out
    IN  [label |-> turns[t].label, finished |-> out.finished,
         shown |-> Shown(out, turns[t].label)]

\* A turn that changes nothing passes over a dialog that has changed meanwhile.
Superseded(t) == turns[t].stale /\ turns[t].retained

HNext ==
    \/ \E t \in Turns : Save(t) /\ last' = IF Superseded(t) THEN last ELSE Committed(t)
    \/ Reset /\ last' = NoneYet
    \/ /\ (\E t \in Turns : Step(t)) \/ (\E r \in Rows : Age(r))
       /\ last' = last

HSpec == HInit /\ [][HNext]_hvars

-----------------------------------------------------------------------------
(* Refinement *)

Sequential == INSTANCE DialogTurns WITH
                  state <- dialog.state, active <- dialog.active, stack <- dialog.stack,
                  shown <- last.shown,
                  last <- [label |-> last.label, finished |-> last.finished]

\* A turn is saved although another one has been committed since it read the
\* dialog, or has handed the session to a human without a change of dialog_state.
Overtaken(t) == Save(t) /\ (turns[t].stale \/ human)

\* Where a session whose turns overlap leaves the sequential conversation: every
\* commit is one turn of DialogTurns on the dialog the commit before it left
\* behind, whatever the other turns in flight have done, unless it saves a turn
\* that another commit, or a payment's handover, has passed.  Nothing else, no
\* rollback, claim, expiry or reset under a turn, can lose an update.  (That the
\* save of an overtaken turn does lose one, although its version should prevent
\* it, is what NoLostUpdate shows.)
SequentialUnlessOvertaken ==
    Sequential!Init /\ [][Sequential!Next \/ \E t \in Turns : Overtaken(t)]_(Sequential!vars)
=============================================================================
