------------------------------ MODULE ChatTurn ------------------------------
(***************************************************************************)
(* The chat turn as the program runs it: several turns of one session at   *)
(* the same time (a double click, a retry, two devices), each one cut at   *)
(* its transactions.                                                       *)
(*                                                                         *)
(*   Begin     load_session_state and the decision nodes; the expiry of    *)
(*             old tasks is committed on its own, then the turn works on   *)
(*             its snapshot without a connection                           *)
(*   Claim     ActionExecutor: the execution right, in a transaction of    *)
(*             its own (chat_task_repository.claim_for_execution)          *)
(*   Invoke    the write tool, then the row update that is flushed, so     *)
(*             that the row stays locked until the turn ends               *)
(*   Save      save_turn and the commit of the request                     *)
(*   Rollback  a version conflict (HTTP 409), an error or a crash: the     *)
(*             uncommitted part of the turn disappears                     *)
(*                                                                         *)
(* Save is one step: its statements run in one transaction and every       *)
(* interleaving of two of them ends in the same rows or in the rollback of *)
(* one of them, which Rollback allows.                                     *)
(*                                                                         *)
(* Retention is the one fact about the ORM the code depends on: whether    *)
(* the session still holds the dialog_state instance that was loaded at    *)
(* the start when save_turn selects it again.  If it does, the UPDATE      *)
(* carries the version read at the start; if it was garbage collected (the *)
(* identity map is weak and _load_state drops its only reference), the     *)
(* UPDATE carries the version read a moment ago.  A retained instance that *)
(* gets its loaded values back (quiet) is not written at all: no version   *)
(* is checked, but the rows of the tasks are.                              *)
(*                                                                         *)
(* The first turns of a session find no row at all.  Such a turn inserts   *)
(* one, or selects the row another turn has inserted meanwhile and updates *)
(* it with the version read a moment ago; it is a turn with retained =     *)
(* FALSE, so an instance with Retention = {TRUE} leaves it out.  The turn  *)
(* whose INSERT meets the unique index is a Rollback.                      *)
(***************************************************************************)
EXTENDS DialogManager, FiniteSets

CONSTANTS
    Turns,      \* concurrent requests of the session
    Retention,  \* subset of BOOLEAN: may the loaded instance be retained?
    Failures,   \* TRUE: a turn may be rolled back, or crash, between any two steps
    Identity,   \* subset of BOOLEAN: may the identity level suffice?
    Vocabulary, \* bound: the labels that occur in this instance
    TurnBound   \* bound: turns that are begun

ASSUME TurnAssumption ==
    /\ Retention \in SUBSET BOOLEAN /\ Identity \in SUBSET BOOLEAN
    /\ Failures \in BOOLEAN
    /\ Vocabulary \subseteq Labels
    /\ TurnBound \in Nat
    /\ IsFiniteSet(Turns)

VARIABLES
    dialog,    \* the committed chat_dialog_state
    human,     \* chat_session.status = "handoff"
    rows,      \* chat_task.status of every row
    old,       \* rows whose task has outlived TASK_TTL_MINUTES
    turns,     \* the turns in flight
    begun,     \* how many turns have begun, for TurnBound
    claims,    \* history: how often the execution right of a row was taken
    reopens,   \* history: how often a row left EXECUTING without an outcome
    calls      \* history: how often the write tool ran for a row

vars == <<dialog, human, rows, old, turns, begun, claims, reopens, calls>>

RowStatuses == {"NONE", "COLLECTING", "CONFIRMING", "SUSPENDED", "EXECUTING",
                "DONE", "FAILED", "ABORTED"}
Final == {"DONE", "FAILED"}
Open == {"COLLECTING", "CONFIRMING", "EXECUTING", "SUSPENDED"}

IdleTurn ==
    [pc |-> "idle", label |-> "CHAT", prev |-> NoTask, result |-> "NONE",
     out |-> Outcome("IDLE", "DONE", NoTask, <<>>, NoTask, "CHAT"),
     retained |-> FALSE, quiet |-> FALSE, stale |-> FALSE]

EmptyDialog == [state |-> "IDLE", active |-> NoTask, stack |-> <<>>]

Init ==
    /\ dialog = EmptyDialog
    /\ human = FALSE
    /\ rows = [r \in Rows |-> "NONE"]
    /\ old = {}
    /\ turns = [t \in Turns |-> IdleTurn]
    /\ begun = 0
    /\ claims = [r \in Rows |-> 0]
    /\ reopens = [r \in Rows |-> 0]
    /\ calls = [r \in Rows |-> 0]

-----------------------------------------------------------------------------
(* Helpers *)

Pc(t) == turns[t].pc
RowOf(task) == IF task = NoTask THEN NoRow ELSE task.row
Finished(t) == turns[t].out.finished

\* The executor has flushed the row of t: it is locked until t ends.
Locked(r) == \E t \in Turns : Pc(t) = "executed" /\ Finished(t).row = r

\* A committed change of dialog_state makes the other snapshots stale.
StaleBut(t) ==
    [u \in Turns |-> IF u = t THEN IdleTurn
                     ELSE [turns[u] EXCEPT !.stale = turns[u].pc # "idle"]]

\* The rows the turns in flight refer to.
InFlight(t) ==
    UNION {LiveRows(turns[u].prev, turns[u].out.stack) \cup {RowOf(turns[u].out.active)}
           : u \in {v \in Turns \ {t} : Pc(v) # "idle"}}

\* History: rows that leave EXECUTING although no outcome was recorded.
CountReopens(new) ==
    [r \in Rows |-> IF rows[r] = "EXECUTING" /\ new[r] \notin Final \cup {"EXECUTING"}
                    THEN reopens[r] + 1 ELSE reopens[r]]

-----------------------------------------------------------------------------
(* A turn *)

Expired(task) == RowOf(task) \in old

\* Mutant: the tasks are changed in place, which SQLAlchemy does not notice.
SameInPlace(out, label) == out.state = dialog.state

\* What save_turn writes is what was loaded.
SameAsLoaded(out, label) ==
    /\ [state |-> out.state, active |-> out.active, stack |-> out.stack] = dialog
    /\ label \in {"CHAT", "PAYMENT"} \/ out.active = NoTask

\* The task was evaluated: its updated_ts is the time of the turn.
Refreshed(t) ==
    IF turns[t].label \in {"CHAT", "PAYMENT"} THEN {} ELSE {RowOf(turns[t].out.active)}

Begin(t, msg, f, retained) ==
    LET gone == {r \in LiveRows(dialog.active, dialog.stack) : r \in old}
        active == IF Expired(dialog.active) THEN NoTask ELSE dialog.active
        state == IF Expired(dialog.active) /\ dialog.state \in WaitingStates
                 THEN "IDLE" ELSE dialog.state
        out == Resolve(state, active, Surviving(dialog.stack, f), msg)
    IN  /\ Pc(t) = "idle"
        /\ ~human
        /\ begun < TurnBound /\ begun' = begun + 1
        /\ msg.label \in Vocabulary
        /\ {f[i] : i \in DOMAIN f} = {i \in DOMAIN dialog.stack : ~Expired(dialog.stack[i])}
        /\ \A r \in gone : ~Locked(r)
        /\ Sayable(msg.label, state)
        /\ CarriesPending(msg.label, state, msg.pending)
        /\ rows' = [r \in Rows |-> IF r \in gone /\ rows[r] \notin Final
                                   THEN "ABORTED" ELSE rows[r]]
        /\ reopens' = CountReopens(rows')
        /\ turns' = [turns EXCEPT ![t] =
              [pc |-> IF out.status = "CONFIRMED" THEN "execute" ELSE "save",
               label |-> msg.label, prev |-> active, result |-> "NONE", out |-> out,
               retained |-> retained, stale |-> FALSE,
               quiet |-> retained /\ SameAsLoaded(out, msg.label)]]
        /\ UNCHANGED <<dialog, human, old, claims, calls>>

\* The identity level is too low: the execution right is not touched.
NeedIdentity(t) ==
    /\ Pc(t) = "execute"
    /\ FALSE \in Identity
    /\ turns' = [turns EXCEPT ![t].pc = "save", ![t].result = "IDENTITY"]
    /\ UNCHANGED <<begun, dialog, human, rows, old, claims, reopens, calls>>

\* Mutant: the UPDATE does not exclude a row that is being executed.
TakeRightAnyway(r) ==
    /\ rows[r] \in {"CONFIRMING", "COLLECTING", "EXECUTING"} /\ ~Locked(r)
    /\ rows' = [rows EXCEPT ![r] = "EXECUTING"]
    /\ claims' = [claims EXCEPT ![r] = @ + 1]

\* claim_for_execution: one conditional UPDATE, committed at once.
TakeRight(r) ==
    /\ rows[r] \in {"CONFIRMING", "COLLECTING"} /\ ~Locked(r)
    /\ rows' = [rows EXCEPT ![r] = "EXECUTING"]
    /\ claims' = [claims EXCEPT ![r] = @ + 1]

Claim(t) ==
    /\ Pc(t) = "execute"
    /\ TRUE \in Identity
    /\ TakeRight(Finished(t).row)
    /\ turns' = [turns EXCEPT ![t].pc = "invoke"]
    /\ UNCHANGED <<begun, dialog, human, old, reopens, calls>>

\* Mutant: an error of the claim statement does not stop the execution.
ClaimErrorIgnored(t) ==
    /\ Pc(t) = "execute"
    /\ TRUE \in Identity
    /\ turns' = [turns EXCEPT ![t].pc = "invoke"]
    /\ UNCHANGED <<begun, dialog, human, rows, old, claims, reopens, calls>>

\* The claim statement failed, or its commit succeeded and the answer was
\* lost: the executor catches the error, does not call the tool, and the
\* turn goes on.
ClaimError(t) ==
    /\ Pc(t) = "execute"
    /\ TRUE \in Identity
    /\ \/ UNCHANGED <<rows, claims>>
       \/ TakeRight(Finished(t).row)
    /\ turns' = [turns EXCEPT ![t].pc = "save", ![t].result = "UNCLAIMED"]
    /\ UNCHANGED <<begun, dialog, human, old, reopens, calls>>

\* No execution right.  A row that has been EXECUTING for too long counts as
\* interrupted; every other status is reported as executed already.
Refused(t) ==
    LET r == Finished(t).row
    IN  /\ Pc(t) = "execute"
        /\ TRUE \in Identity
        /\ rows[r] \notin {"CONFIRMING", "COLLECTING"}
        /\ \E result \in {"ALREADY"} \cup
                         IF rows[r] = "EXECUTING" THEN {"INTERRUPTED"} ELSE {} :
              turns' = [turns EXCEPT ![t].pc = "save", ![t].result = result]
        /\ UNCHANGED <<begun, dialog, human, rows, old, claims, reopens, calls>>

\* Mutant: a call that fails is repeated.
InvokeRetrying(t) ==
    LET r == Finished(t).row
    IN  /\ Pc(t) = "invoke"
        /\ ~Locked(r)
        /\ \/ /\ calls' = [calls EXCEPT ![r] = @ + 1]
              /\ turns' = [turns EXCEPT ![t].pc = "executed", ![t].result = "OK"]
           \/ /\ calls' = [calls EXCEPT ![r] = @ + 2]
              /\ turns' = [turns EXCEPT ![t].pc = "executed", ![t].result = "FAILED"]
        /\ UNCHANGED <<begun, dialog, human, rows, old, claims, reopens>>

\* The tool runs and answers; the outcome of the row is flushed, not committed.
Invoke(t) ==
    LET r == Finished(t).row
    IN  /\ Pc(t) = "invoke"
        /\ ~Locked(r)
        /\ calls' = [calls EXCEPT ![r] = @ + 1]
        /\ \E result \in {"OK", "FAILED"} :
              turns' = [turns EXCEPT ![t].pc = "executed", ![t].result = result]
        /\ UNCHANGED <<begun, dialog, human, rows, old, claims, reopens>>

(***************************************************************************)
(* save_turn: the outcome the executor has flushed, then _sync_task_rows   *)
(* (the current task, the suspended ones, the previous one if it is gone), *)
(* then the dialog state and the handoff to a human.                       *)
(***************************************************************************)
AfterExecutor(t) ==
    IF Pc(t) = "executed"
    THEN [rows EXCEPT ![Finished(t).row] = IF turns[t].result = "OK" THEN "DONE" ELSE "FAILED"]
    ELSE rows

\* Mutant: the row of a task that was resumed stays SUSPENDED.
SyncActiveSkipping(before, row, state) ==
    [r \in Rows |-> IF r = row /\ before[r] \notin Final \cup {"SUSPENDED"}
                    THEN IF state = "CONFIRMING" THEN "CONFIRMING" ELSE "COLLECTING"
                    ELSE before[r]]

SyncActive(before, row, state) ==
    [r \in Rows |-> IF r = row /\ before[r] \notin Final
                    THEN IF state = "CONFIRMING" THEN "CONFIRMING" ELSE "COLLECTING"
                    ELSE before[r]]

\* Mutant: the rows of suspended tasks are not updated.
SyncStackNever(before, stack) == before

SyncStack(before, stack) ==
    [r \in Rows |-> IF r \in LiveRows(NoTask, stack) /\ before[r] \notin Final
                    THEN "SUSPENDED" ELSE before[r]]

SyncPrevious(before, prev, live, finished, status) ==
    [r \in Rows |-> IF /\ r = RowOf(prev) /\ r \notin live
                       /\ RowOf(finished) # r /\ before[r] \notin Final
                    THEN IF status \in {"ABORTED", "HANDOFF"} THEN "ABORTED" ELSE "DONE"
                    ELSE before[r]]

Synced(t, active) ==
    LET out == turns[t].out
    IN  SyncPrevious(
            SyncStack(SyncActive(AfterExecutor(t), RowOf(active), out.state), out.stack),
            turns[t].prev, LiveRows(active, out.stack), out.finished, out.status)

Saved(task) ==
    IF NeedsRow(task)
    THEN {[task EXCEPT !.row = r] : r \in {q \in Rows : rows[q] = "NONE"}}
    ELSE {task}

Save(t) ==
    LET out == turns[t].out
    IN  /\ Pc(t) \in {"save", "executed"}
        /\ \E active \in Saved(out.active) :
              /\ \A r \in LiveRows(active, out.stack) \cup {RowOf(turns[t].prev)} :
                    r \in Rows /\ Locked(r) => RowOf(out.finished) = r /\ Pc(t) = "executed"
              /\ \/ /\ ~(turns[t].stale /\ turns[t].retained)
                    /\ dialog' = [state |-> out.state, active |-> active, stack |-> out.stack]
                    /\ turns' = StaleBut(t)
                 \/ /\ turns[t].quiet
                    /\ dialog' = dialog
                    /\ turns' = [turns EXCEPT ![t] = IdleTurn]
              /\ rows' = Synced(t, active)
        /\ old' = (old \ Refreshed(t)) \cap (InFlight(t) \cup LiveRows(dialog'.active, dialog'.stack))
        /\ reopens' = CountReopens(rows')
        /\ human' = (human \/ out.state = "HANDOFF" \/ out.intent = "PAYMENT")
        /\ UNCHANGED <<begun, claims, calls>>

Rollback(t) ==
    /\ Pc(t) # "idle"
    /\ Failures \/ turns[t].stale
    /\ turns' = [turns EXCEPT ![t] = IdleTurn]
    /\ UNCHANGED <<begun, dialog, human, rows, old, claims, reopens, calls>>

-----------------------------------------------------------------------------
(* The environment of the turns *)

\* Mutant: the UPDATE of the reset lacks its condition on the status.
ResetEverything ==
    /\ \A r \in Rows : ~Locked(r)
    /\ dialog' = EmptyDialog
    /\ human' = FALSE
    /\ rows' = [r \in Rows |-> IF rows[r] # "NONE" THEN "ABORTED" ELSE rows[r]]
    /\ reopens' = CountReopens(rows')
    /\ turns' = [u \in Turns |-> [turns[u] EXCEPT !.stale = turns[u].pc # "idle"]]
    /\ UNCHANGED <<begun, old, claims, calls>>

\* handoff_service.resolve, close_idle_sessions and close_stale_tickets: the
\* dialog restarts and abort_open_by_session ends every open row.
Reset ==
    /\ \A r \in Rows : ~Locked(r)
    /\ dialog' = EmptyDialog
    /\ human' = FALSE
    /\ rows' = [r \in Rows |-> IF rows[r] \in Open THEN "ABORTED" ELSE rows[r]]
    /\ reopens' = CountReopens(rows')
    /\ turns' = [u \in Turns |-> [turns[u] EXCEPT !.stale = turns[u].pc # "idle"]]
    /\ UNCHANGED <<begun, old, claims, calls>>

\* A task outlives its TTL.
Age(r) ==
    /\ r \in LiveRows(dialog.active, dialog.stack) \ old
    /\ old' = old \cup {r}
    /\ UNCHANGED <<begun, dialog, human, rows, turns, claims, reopens, calls>>

Step(t) ==
    \/ \E msg \in Messages, f \in Picks(Len(dialog.stack)), retained \in Retention :
          Begin(t, msg, f, retained)
    \/ NeedIdentity(t) \/ Claim(t) \/ ClaimError(t) \/ Refused(t) \/ Invoke(t)
    \/ Rollback(t)

Next == \/ \E t \in Turns : Step(t) \/ Save(t)
        \/ Reset
        \/ \E r \in Rows : Age(r)

Spec == Init /\ [][Next]_vars

-----------------------------------------------------------------------------
(* Safety *)

\* The write tool runs at most once for each execution right that was taken,
\* also when turns are rolled back between the claim and the call.
CallsAreClaimed ==
    \A r \in Rows :
        calls[r] + Cardinality({t \in Turns : Pc(t) = "invoke" /\ Finished(t).row = r})
            <= claims[r]

\* The conditional UPDATE gives the execution right of a row away again only
\* after something else took the row out of EXECUTING: two confirmations that
\* race for the row, in any number, never both win.
ClaimsNeedReopening == \A r \in Rows : claims[r] <= 1 + reopens[r]

(* With one turn at a time, that no failure rolls back *)

\* A confirmed operation is executed at most once (executor.py:9-10).
AtMostOnce == \A r \in Rows : calls[r] <= 1

\* A confirmation at the gate is refused the execution right only when the
\* session was reset under the turn.
ConfirmExecutes ==
    \A t \in Turns : turns[t].result \in {"ALREADY", "INTERRUPTED"} => turns[t].stale

\* Between turns the rows agree with the dialog: the current task has the
\* status of the state machine and the suspended ones are SUSPENDED, except
\* for those the TTL has aborted.
RowsFollowDialog ==
    (\A t \in Turns : Pc(t) = "idle") =>
        /\ dialog.active # NoTask => rows[RowOf(dialog.active)] = dialog.state
        /\ \A i \in DOMAIN dialog.stack :
              RowOf(dialog.stack[i]) # NoRow => rows[RowOf(dialog.stack[i])] = "SUSPENDED"

\* The recorded outcome of an operation is never rewritten.
OutcomesStay ==
    [][\A r \in Rows : rows[r] \in Final => rows'[r] = rows[r]]_vars

(* What the documents say and the code does not do; see the violation runs *)

\* "dialog_state optimistic locking still stands guard at the commit of
\* save_turn" (load_session_state.py:37): no turn overwrites a dialog state
\* that was committed after the turn had read it.
NoLostUpdate ==
    [][\A t \in Turns : turns[t].stale /\ Pc(t) # "idle" /\ turns'[t].pc = "idle"
            => dialog' = dialog]_vars
=============================================================================
