---------------------------- MODULE DialogTurns ----------------------------
(***************************************************************************)
(* One conversation, one turn at a time: load_session_state, then          *)
(* dialog_state_resolve, then the dialog part of save_turn, as a single    *)
(* atomic step.  This is what the dialog state is meant to go through;     *)
(* ChatTurn splits the turn into its transactions and runs several turns   *)
(* of the session concurrently.                                            *)
(***************************************************************************)
EXTENDS DialogManager

VARIABLES
    state,   \* chat_dialog_state.state
    active,  \* chat_dialog_state.active_task_json
    stack,   \* chat_dialog_state.task_stack_json
    human,   \* chat_session.status = "handoff": a person answers
    shown,   \* the confirmation prompt the user is asked to answer
    last     \* the label of the last turn and the task it handed over

vars == <<state, active, stack, human, shown, last>>

TypeOK ==
    /\ state \in States
    /\ active \in Tasks \cup {NoTask}
    /\ stack \in Stacks
    /\ human \in BOOLEAN
    /\ shown \in Contents \cup {NoTask}
    /\ last \in [label : Labels \cup {"RESET"}, finished : Tasks \cup {NoTask}]

-----------------------------------------------------------------------------
Init ==
    /\ state = "IDLE"
    /\ active = NoTask
    /\ stack = <<>>
    /\ human = FALSE
    /\ shown = NoTask
    /\ last = [label |-> "RESET", finished |-> NoTask]

\* The prompt left standing: CHAT turns repeat none and change none.
Shown(out, label) ==
    IF out.state # "CONFIRMING" \/ out.active = NoTask THEN NoTask
    ELSE IF label \in {"CHAT", "PAYMENT"} THEN shown
    ELSE Content(out.active)

\* _sync_task_rows gives the current task a new row when it has none.
Saved(task) ==
    IF NeedsRow(task)
    THEN {[task EXCEPT !.row = r] : r \in Rows \ LiveRows(active, stack)}
    ELSE {task}

\* Mutant: the state survives the task that has expired.
LoadedHalf(alive) ==
    [state |-> state, active |-> IF alive THEN active ELSE NoTask]

(***************************************************************************)
(* One turn: alive and f say which tasks have not outlived their TTL; an   *)
(* expired current task leaves the conversation IDLE.                      *)
(***************************************************************************)
Loaded(alive) ==
    [state |-> IF active # NoTask /\ ~alive /\ state \in WaitingStates
               THEN "IDLE" ELSE state,
     active |-> IF alive THEN active ELSE NoTask]

Turn(msg, alive, f) ==
    LET now == Loaded(alive)
        out == Resolve(now.state, now.active, Surviving(stack, f), msg)
    IN  /\ ~human
        /\ Sayable(msg.label, now.state)
        /\ CarriesPending(msg.label, now.state, msg.pending)
        /\ state' = out.state
        /\ active' \in Saved(out.active)
        /\ stack' = out.stack
        /\ human' = (out.state = "HANDOFF" \/ out.intent = "PAYMENT")
        /\ shown' = Shown(out, msg.label)
        /\ last' = [label |-> msg.label, finished |-> out.finished]

SomeTurn ==
    \E alive \in {TRUE, active = NoTask}, f \in Picks(Len(stack)), msg \in Messages :
        Turn(msg, alive, f)

\* A ticket is resolved or closed as stale, or the idle session is closed:
\* the dialog restarts and the bot answers again.
Reset ==
    /\ state' = "IDLE"
    /\ active' = NoTask
    /\ stack' = <<>>
    /\ human' = FALSE
    /\ shown' = NoTask
    /\ last' = [label |-> "RESET", finished |-> NoTask]

Next == SomeTurn \/ Reset

Spec == Init /\ [][Next]_vars

\* A turn whose message the bot cannot place and learns nothing from; suspended
\* tasks may expire under it.
UnknownTurn ==
    \E f \in Picks(Len(stack)), msg \in Messages :
        /\ msg.label = "UNKNOWN" /\ msg.slots = NoSlots
        /\ Turn(msg, TRUE, f)

\* A user who is not understood writes again (an assumption about the user,
\* not the program).  Fairness of SomeTurn would be too much: it would demand
\* a turn that is understood, or the expiry of the current task, where this
\* one changes nothing.
FairSpec == Spec /\ WF_vars(UnknownTurn)

-----------------------------------------------------------------------------
(* Safety *)

\* A task is current exactly while the state machine waits for the user
\* (the pair state / active_task_json is written by ten branches of resolve).
WaitingHasTask == active # NoTask <=> state \in WaitingStates

\* At the gate stands a write operation with all its slots; everything else
\* that could be confirmed would be executed without being complete.
GateArmed ==
    state = "CONFIRMING" =>
        /\ active.intent \in WriteIntents
        /\ Missing(active) = {}
        /\ shown = Content(active)

\* A chat_task row belongs to one task: interrupting, resuming and restating
\* never leaves the same task both current and suspended, or suspended twice.
OneTaskPerRow ==
    /\ \A i, j \in DOMAIN stack :
          i # j /\ stack[i].row # NoRow => stack[i].row # stack[j].row
    /\ active # NoTask => \A i \in DOMAIN stack : stack[i].row # active.row

(* Action properties *)

\* LIFO: when a suspended task becomes current again, the tasks above it have
\* used up their asks or have expired; none of them is still suspended.
NewestResumedFirst ==
    [][ \A i \in DOMAIN stack, j \in DOMAIN stack :
          /\ i < j
          /\ active' # NoTask /\ stack[i].row # NoRow
          /\ active'.row = stack[i].row
          => \A k \in DOMAIN stack' : stack'[k].row # stack[j].row \/ stack[j].row = NoRow ]_vars

\* The gate's promise, as an abstract specification.
Gate == INSTANCE ConfirmGate WITH
            Nothing <- NoTask,
            prompt <- shown,
            executed <- IF last.finished = NoTask THEN NoTask
                        ELSE Content(last.finished)
GateSpec == Gate!Spec

(* What the documents say and the code does not do; see the violation runs *)

\* "When the current task ends, it resumes from the stack" (manager.py:13-14):
\* if no suspended task has used up its asks, ending the current task now
\* resumes one of them and leaves all the others suspended.
OthersStaySuspended ==
    (\A i \in DOMAIN stack : ~GivesUp(stack[i])) /\ stack # <<>> =>
        Len(FinishTurn("DONE", stack, NoTask, "DONE", "CONFIRM").stack) = Len(stack) - 1

(* Liveness *)

\* A user who only writes things the bot cannot place is not asked for slots
\* for ever: the asks of every task, of the resumed ones too, run out (unless
\* a person has taken over meanwhile).
StubbornUserReleased ==
    <>[][last'.label = "UNKNOWN"]_vars => <>[](state = "COLLECTING" => human)
=============================================================================
