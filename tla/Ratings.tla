------------------------------ MODULE Ratings ------------------------------
(***************************************************************************)
(* The question for a rating.  An agent who resolves a ticket, or the cron *)
(* job that closes an idle session, asks for one: csat_pending in          *)
(* context_stacks_json of the dialog state, next to unknown_streak, the    *)
(* messages in a row that were not understood.  The next message is either *)
(* the rating, then the turn takes a short cut, or the question lapses.    *)
(*                                                                         *)
(* Turns of the session overlap as in ChatTurn: a turn decides on what it  *)
(* has loaded and writes when it is saved.  The UPDATE carries the version *)
(* loaded only if the session still holds the instance (retained), and     *)
(* there is none when the columns have their loaded values again.          *)
(*                                                                         *)
(* A question is a number, 0 where none is pending.  The service case of a *)
(* low rating is in ServiceCases, the race for the ticket in Handoff.      *)
(***************************************************************************)
EXTENDS Naturals, FiniteSetsExt

CONSTANTS
    Turns,        \* concurrent requests of the session
    Questions,    \* bound: how many ratings are asked for
    StreakLimit,  \* HANDOFF_UNKNOWN_STREAK
    AskOnClose,   \* CSAT_ON_CLOSE
    None

\* What is assumed of the constants.
RatingsAssumption ==
    /\ Questions \in Nat
    /\ StreakLimit \in Nat \ {0}
    /\ AskOnClose \in BOOLEAN

VARIABLES
    context,    \* chat_dialog_state: state, active task, csat_pending, unknown_streak
    status,     \* chat_session.status
    ticket,     \* a handoff ticket is open
    turns,      \* the turns in flight
    asked,      \* the number of the latest question
    ratings,    \* history: the rows of chat_csat for every question
    settled,    \* history: questions a turn has seen that was saved
    unchecked   \* history: a turn was saved over a dialog state it had not seen

vars == <<context, status, ticket, turns, asked, ratings, settled, unchecked>>

Quiet == [state |-> "IDLE", task |-> FALSE, pending |-> 0, streak |-> 0]
Idle == [kind |-> None, seen |-> Quiet, stale |-> FALSE]

Init ==
    /\ context = Quiet
    /\ status = "active" /\ ticket = FALSE
    /\ turns = [t \in Turns |-> Idle]
    /\ asked = 0
    /\ ratings = [q \in 1..Questions |-> 0]
    /\ settled = {} /\ unchecked = FALSE

-----------------------------------------------------------------------------
(* Turns *)

\* What a message may be: "4" is a rating only where one is asked for, otherwise
\* it is a message like any other.
Talk == {"question", "request", "unclear", "human"}
Texts == Talk \cup {"rating", "blocked", "abuse"}

Heard(text) ==
    IF status = "handoff" THEN "silent"
    ELSE IF text = "rating" /\ context.pending = 0 THEN "question" ELSE text

\* load_session_state; a closed session is opened again.
Begin(t, text) ==
    /\ turns[t] = Idle
    /\ turns' = [turns EXCEPT ![t] =
          [kind |-> Heard(text), stale |-> FALSE,
           seen |-> IF status = "handoff" THEN Quiet ELSE context]]
    /\ status' = IF status = "closed" THEN "active" ELSE status
    /\ UNCHANGED <<context, ticket, asked, ratings, settled, unchecked>>

\* Mutant: a message that is blocked leaves the question pending.
PassesNever(kind, seen) == kind = "silent" \/ kind \in {"blocked", "abuse"}

\* The turn does not touch the dialog state: an agent answers, or the guardrail
\* has blocked it and no question is to be cleared.
Passes(kind, seen) ==
    \/ kind = "silent"
    \/ kind \in {"blocked", "abuse"} /\ seen.pending = 0

\* What save_turn writes over `base`, the instance it has or has selected again;
\* the short cut of a rating does not pass the task.
Written(kind, seen, base) ==
    LET Says(state, task, streak) ==
            [state |-> state, task |-> task, pending |-> 0, streak |-> streak]
    IN  CASE Passes(kind, seen) -> base
          [] kind \notin Talk /\ ~Passes(kind, seen) ->
                [base EXCEPT !.state = seen.state, !.pending = 0, !.streak = seen.streak]
          [] kind = "question" -> Says(seen.state, seen.task, 0)
          [] kind = "request" -> Says("WAITING", TRUE, 0)
          [] kind = "unclear" -> Says(seen.state, seen.task, Min({seen.streak + 1, StreakLimit}))
          [] kind = "human" -> Says("HANDOFF", FALSE, 0)

HandsOver(kind) == kind \in {"human", "abuse"}
Escalates(kind, new) == kind = "unclear" /\ new.streak >= StreakLimit

\* Mutant: the version of the dialog state is not checked.
ConflictsNever(turn, retained) == FALSE

\* The version an UPDATE would carry is not the stored one any more.
Conflicts(turn, retained) == retained /\ turn.stale

\* The snapshots the other turns have are of a row that was written since.
Outdated(t, written) ==
    [u \in Turns |-> IF u = t \/ turns[u] = Idle THEN Idle
                     ELSE [turns[u] EXCEPT !.stale = @ \/ written]]

\* There is an UPDATE if something has changed: what is kept here, or another part
\* of the task.
Save(t, retained) ==
    LET turn == turns[t]
        base == IF retained THEN turn.seen ELSE context
        new == Written(turn.kind, turn.seen, base)
    IN  /\ turn # Idle
        /\ \E written \in BOOLEAN :
              /\ new # base => written
              /\ written => /\ ~Conflicts(turn, retained)
                            /\ new # base \/ turn.kind \in Talk
              /\ context' = IF written THEN new ELSE context
              /\ turns' = Outdated(t, written)
        /\ unchecked' = (unchecked \/ (turn.stale /\ ~retained))
        /\ settled' = settled \cup ({turn.seen.pending} \ {0})
        /\ ratings' = [q \in 1..Questions |->
              IF turn.kind = "rating" /\ turn.seen.pending = q THEN ratings[q] + 1
              ELSE ratings[q]]
        /\ status' = IF HandsOver(turn.kind) THEN "handoff" ELSE status
        /\ ticket' = (ticket \/ HandsOver(turn.kind) \/ Escalates(turn.kind, new))
        /\ UNCHANGED asked

\* A conflict, an error or a crash.
Rollback(t) ==
    /\ turns[t] # Idle
    /\ turns' = [turns EXCEPT ![t] = Idle]
    /\ UNCHANGED <<context, status, ticket, asked, ratings, settled, unchecked>>

-----------------------------------------------------------------------------
(* Agents and the cron job *)

\* All of them start the dialog over.
Asks(pending) == [Quiet EXCEPT !.pending = pending]

Stale == [u \in Turns |-> IF turns[u] = Idle THEN Idle ELSE [turns[u] EXCEPT !.stale = TRUE]]

\* An agent is done: the bot answers again and asks how it was.
Resolve ==
    /\ ticket /\ asked < Questions
    /\ asked' = asked + 1
    /\ context' = Asks(asked')
    /\ status' = "active" /\ ticket' = FALSE
    /\ turns' = Stale
    /\ UNCHANGED <<ratings, settled, unchecked>>

CloseIdle ==
    /\ status = "active" /\ asked < Questions
    /\ asked' = IF AskOnClose THEN asked + 1 ELSE asked
    /\ context' = Asks(IF AskOnClose THEN asked' ELSE 0)
    /\ status' = "closed"
    /\ turns' = Stale
    /\ UNCHANGED <<ticket, ratings, settled, unchecked>>

\* A ticket nobody works on: the context stacks are not passed and stay.
CloseStale ==
    /\ ticket
    /\ context' = [context EXCEPT !.state = "IDLE", !.task = FALSE]
    /\ status' = IF status = "handoff" THEN "active" ELSE status
    /\ ticket' = FALSE
    /\ turns' = IF context' # context THEN Stale ELSE turns
    /\ UNCHANGED <<asked, ratings, settled, unchecked>>

Next ==
    \/ \E t \in Turns :
          \/ \E text \in Texts : Begin(t, text)
          \/ \E retained \in BOOLEAN : Save(t, retained)
          \/ Rollback(t)
    \/ Resolve \/ CloseIdle \/ CloseStale

Spec == Init /\ [][Next]_vars

-----------------------------------------------------------------------------
(* Properties *)

\* A question is answered at once or never: none is pending any more after a turn
\* that has seen it was saved, however the turn ended (save_turn.py:231-233), and it
\* is rated once, unless a turn was saved whose version was not checked.
RatedOnce ==
    /\ context.pending \notin settled
    /\ unchecked \/ \A q \in 1..Questions : ratings[q] <= 1
=============================================================================
