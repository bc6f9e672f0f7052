----------------------------- MODULE Proactive -----------------------------
(***************************************************************************)
(* The suggestions one user is shown: the welcome of a new session         *)
(* (chat/proactive/welcome.py), the one offer a turn may append to its     *)
(* answer (nba.py) and the acceptance of an offer (accept.py), over the    *)
(* frequency keys in Redis.  The applying mode (PROACTIVE_APPLY) is on.    *)
(*                                                                         *)
(* Each call to Redis is a step; it fails while Redis is down.  What the   *)
(* user says is one of Sayings; whether an offer fits the turn, and all the*)
(* reasons to suppress it that are not in Redis, are nondeterministic.     *)
(***************************************************************************)
EXTENDS Naturals, Sequences

CONSTANTS
    Turns,      \* turns and session creations at the same time
    Sessions,
    Ladder,     \* the offers, the preferred ones first
    Cap,        \* how often each offer may be shown to a user, 0: no cap
    SessionMax, \* PROACTIVE_SESSION_MAX
    None

Offers == {Ladder[i] : i \in DOMAIN Ladder}
Refusals == {"rejection", "opt out"}
Sayings == Refusals \cup {"pure accept", "other"}

VARIABLES
    optout,    \* the user wants no suggestions any more
    cool,      \* the user rejected one a short time ago
    welcomed,  \* the user was welcomed today
    shown,     \* the offers shown in each session today, as far as SessionMax
    imp,       \* impressions of each offer, as far as its cap
    last,      \* the window of each session: the offer shown last
    redis,     \* Redis answers
    turns,
    said,      \* history: what the user has refused, a rejection for its cooldown
    lost       \* history: of that, what the program took no notice of: no offer
               \* stood in the window, or a call to Redis failed

vars == <<optout, cool, welcomed, shown, imp, last, redis, turns, said, lost>>
keys == <<optout, cool, welcomed, shown, imp, last>>
words == <<said, lost>>

Stands(refusal) == refusal \in said \ lost

\* barred: history, what the user had said when the turn began, without what was
\* lost, as long as it holds.  Not even the welcome is sent after an opt-out.
Idle == [pc |-> "idle"]
NewTurn(pc, s, says) ==
    [pc |-> pc, session |-> s, says |-> says, step |-> 1,
     barred |-> IF Stands("opt out") THEN "for ever"
                ELSE IF Stands("rejection") /\ pc # "welcome" THEN "for now" ELSE "no"]

\* The user may have refused in an earlier session; that outlives it.
Init ==
    /\ optout \in BOOLEAN
    /\ cool \in BOOLEAN
    /\ welcomed = FALSE
    /\ shown = [s \in Sessions |-> 0]
    /\ imp = [o \in Offers |-> 0]
    /\ last = [s \in Sessions |-> None]
    /\ redis = TRUE
    /\ turns = [t \in Turns |-> Idle]
    /\ said = {r \in Refusals : IF r = "opt out" THEN optout ELSE cool}
    /\ lost = {}

At(t, pc) == turns[t].pc = pc
Goto(t, pc) == turns' = [turns EXCEPT ![t].pc = pc]
End(t) == turns' = [turns EXCEPT ![t] = Idle]
UpTo(max, n) == IF n < max THEN n + 1 ELSE max

-----------------------------------------------------------------------------
(* Acceptance: only without a task, and not while one is being asked for *)

Begin(t, s, says) ==
    /\ turns[t] = Idle
    /\ turns' = [turns EXCEPT ![t] =
          NewTurn(IF says = "pure accept" THEN "window" ELSE "reject", s, says)]
    /\ UNCHANGED <<keys, redis, words>>

\* pop_offer_accept reads the window ...
ReadWindow(t) ==
    /\ At(t, "window")
    /\ Goto(t, IF redis /\ last[turns[t].session] # None THEN "consume" ELSE "reject")
    /\ UNCHANGED <<keys, redis, words>>

\* ... and deletes it, whether the offer has an intent that opens a task or not.
Consume(t) ==
    /\ At(t, "consume")
    /\ last' = IF redis THEN [last EXCEPT ![turns[t].session] = None] ELSE last
    /\ Goto(t, "reject")
    /\ UNCHANGED <<optout, cool, welcomed, shown, imp, redis, words>>

-----------------------------------------------------------------------------
(* The decision, when the answer of the turn is saved *)

\* The user said it, and no key will say so; an earlier refusal still stands.
Unheard(refusal) ==
    /\ said' = said \cup {refusal}
    /\ lost' = IF Stands(refusal) THEN lost ELSE lost \cup {refusal}

\* _check_rejection: a refusal counts only against an offer in the window, and
\* without Redis the turn shows nothing.  Then suppression_reason: blocked,
\* handed over, rated, not done, high risk, ...
Reject(t, suppressed) ==
    LET refuses == turns[t].says \in Refusals
        offered == last[turns[t].session] # None
    IN  /\ At(t, "reject")
        /\ IF refuses /\ ~(redis /\ offered) THEN Unheard(turns[t].says) ELSE UNCHANGED words
        /\ IF refuses /\ redis /\ offered THEN Goto(t, "note")
           ELSE IF (refuses /\ ~redis) \/ suppressed THEN End(t)
           ELSE turns' = [turns EXCEPT ![t].pc = "gate optout", ![t].says = "other"]
        /\ UNCHANGED <<keys, redis>>

\* The key of the refusal is set by a call of its own; the turn shows nothing,
\* but if the call fails the refusal is lost.
Note(t) ==
    /\ At(t, "note")
    /\ IF redis
       THEN /\ optout' = (optout \/ turns[t].says = "opt out")
            /\ cool' = (cool \/ turns[t].says = "rejection")
            /\ said' = said \cup {turns[t].says}
            /\ lost' = lost \ {turns[t].says}
       ELSE Unheard(turns[t].says) /\ UNCHANGED <<optout, cool>>
    /\ End(t)
    /\ UNCHANGED <<welcomed, shown, imp, last, redis>>

\* Mutant: a failing Redis does not suppress the offer.
GateOpen(t, gate, passes, next) ==
    /\ At(t, gate)
    /\ IF passes \/ ~redis THEN Goto(t, next) ELSE End(t)
    /\ UNCHANGED <<keys, redis, words>>

\* _redis_gate, one key after the other; a failing Redis counts as refused.
Gate(t, gate, passes, next) ==
    /\ At(t, gate)
    /\ IF passes /\ redis THEN Goto(t, next) ELSE End(t)
    /\ UNCHANGED <<keys, redis, words>>

\* The ladder: an offer that fits and whose cap is not reached.  Without a cap
\* the impressions are not asked for, otherwise a failing Redis is a full cap.
Choose(t, fits) ==
    LET offer == Ladder[turns[t].step]
        capped == Cap[offer] # 0 /\ (~redis \/ imp[offer] >= Cap[offer])
    IN  /\ At(t, "choose")
        /\ IF fits /\ ~capped
           THEN Goto(t, "record")
           ELSE IF turns[t].step < Len(Ladder)
           THEN turns' = [turns EXCEPT ![t].step = @ + 1]
           ELSE End(t)
        /\ UNCHANGED <<keys, redis, words>>

\* _record_impression: one pipeline; a failure is logged and the offer shown.
Record(t) ==
    LET s == turns[t].session
        o == Ladder[turns[t].step]
    IN  /\ At(t, "record")
        /\ IF redis
           THEN /\ shown' = [shown EXCEPT ![s] = UpTo(SessionMax, @)]
                /\ imp' = [imp EXCEPT ![o] = UpTo(Cap[o], @)]
                /\ last' = [last EXCEPT ![s] = o]
           ELSE UNCHANGED <<shown, imp, last>>
        /\ turns' = [turns EXCEPT ![t].pc = "reply", ![t].step = 1]
        /\ UNCHANGED <<optout, cool, welcomed, redis, words>>

\* The answer is committed, or fails with its turn.
Reply(t) ==
    /\ At(t, "reply")
    /\ End(t)
    /\ UNCHANGED <<keys, redis, words>>

-----------------------------------------------------------------------------
(* A session is created *)

Create(t, s) ==
    /\ turns[t] = Idle
    /\ turns' = [turns EXCEPT ![t] = NewTurn("welcome", s, "other")]
    /\ UNCHANGED <<keys, redis, words>>

AskOptout(t) ==
    /\ At(t, "welcome")
    /\ IF redis /\ ~optout THEN Goto(t, "place") ELSE End(t)
    /\ UNCHANGED <<keys, redis, words>>

\* SET NX; afterwards a user at risk and a stage without a text get no welcome,
\* and have had the one of the day.
Welcome(t, suits) ==
    /\ At(t, "place")
    /\ IF redis /\ ~welcomed /\ suits
       THEN Goto(t, "reply")
       ELSE End(t)
    /\ welcomed' = (welcomed \/ redis)
    /\ UNCHANGED <<optout, cool, shown, imp, last, redis, words>>

-----------------------------------------------------------------------------
(* Keys expire; an opt-out never does *)

CoolExpires ==
    /\ cool
    /\ cool' = FALSE
    /\ turns' = [t \in Turns |->
           IF turns[t] # Idle /\ turns[t].barred = "for now"
           THEN [turns[t] EXCEPT !.barred = "no"] ELSE turns[t]]
    /\ said' = said \ {"rejection"}
    /\ lost' = lost \ {"rejection"}
    /\ UNCHANGED <<optout, welcomed, shown, imp, last, redis>>

WindowExpires(s) ==
    /\ last[s] # None
    /\ last' = [last EXCEPT ![s] = None]
    /\ UNCHANGED <<optout, cool, welcomed, shown, imp, redis, turns, words>>

\* The counters of the day and of the month, and the mark of the welcome.
CountsExpire ==
    /\ shown' = [s \in Sessions |-> 0]
    /\ imp' \in {imp, [o \in Offers |-> 0]}
    /\ welcomed' = FALSE
    /\ UNCHANGED <<optout, cool, last, redis, turns, words>>

Outage ==
    /\ redis' = ~redis
    /\ UNCHANGED <<keys, turns, words>>

Next ==
    \/ \E t \in Turns :
          \/ \E s \in Sessions, says \in Sayings : Begin(t, s, says)
          \/ ReadWindow(t) \/ Consume(t) \/ Note(t)
          \/ Gate(t, "gate optout", ~optout, "gate cooldown")
          \/ Gate(t, "gate cooldown", ~cool, "gate session")
          \/ Gate(t, "gate session", turns[t] # Idle /\ shown[turns[t].session] < SessionMax,
                  "choose")
          \/ \E b \in BOOLEAN : Reject(t, b) \/ Choose(t, b) \/ Welcome(t, b)
          \/ Record(t) \/ Reply(t)
          \/ \E s \in Sessions : Create(t, s)
          \/ AskOptout(t)
    \/ CoolExpires \/ CountsExpire \/ Outage
    \/ \E s \in Sessions : WindowExpires(s)

Spec == Init /\ [][Next]_vars

-----------------------------------------------------------------------------
(* Properties *)

\* A user whose refusal was heard is left alone: a turn that began after an
\* opt-out or within the cooldown of a rejection, and a session created after an
\* opt-out, suggest nothing, in whatever session it was said and though Redis
\* fails between any two later steps.  What is lost when it is said is not heard:
\* no offer is in the window any more, or one of the two calls to Redis fails.
\* Then this turn may show nothing, but the next one may.
RefusalHeeded ==
    \A t \in Turns : turns[t].pc = "reply" => turns[t].barred = "no"
=============================================================================
