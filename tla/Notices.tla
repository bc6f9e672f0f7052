------------------------------ MODULE Notices ------------------------------
(***************************************************************************)
(* A business event that becomes a message of a session and a push to the  *)
(* web sockets of its user: services/event_service.py behind the webhook of*)
(* routes/events.py, and the hub of services/notify_service.py, one in     *)
(* every process, with Redis Pub/Sub between them.                         *)
(*                                                                         *)
(* The sender of the event may deliver it several times, at the same time  *)
(* too.  Credentials and ownership, which routes/ws.py checks before a     *)
(* socket is registered, and the wording of the message are left out.      *)
(***************************************************************************)
EXTENDS Naturals, FiniteSets

CONSTANTS
    Deliveries,  \* bound: how often the event is delivered
    Processes,
    Clients,     \* web sockets of the session's user
    NoProcess

VARIABLES
    deliveries,  \* [pc, at]: a delivery and the process that handles it
    seen,        \* the mark of the event in Redis
    optedOut,    \* the user opted out, or is in a cooldown
    messages,    \* the committed messages, named by their deliveries
    tasks,       \* publications scheduled but not made
    inbox,       \* what the listener of a process has received
    listener,    \* "none", "connecting" (also between two attempts) or "listening"
    socket,      \* the process a client is connected to
    received,    \* what a client was sent
    redis,       \* Redis answers
    forgotten    \* history: the mark of the event expired

vars == <<deliveries, seen, optedOut, messages, tasks, inbox, listener,
          socket, received, redis, forgotten>>

webhook == <<deliveries, seen, optedOut, messages, forgotten>>
hub == <<tasks, inbox, listener, socket, received>>

Init ==
    /\ deliveries = [d \in Deliveries |-> [pc |-> "new", at |-> NoProcess]]
    /\ seen = FALSE
    /\ optedOut = FALSE
    /\ messages = {}
    /\ tasks = [p \in Processes |-> {}]
    /\ inbox = [p \in Processes |-> {}]
    /\ listener = [p \in Processes |-> "none"]
    /\ socket = [c \in Clients |-> NoProcess]
    /\ received = [c \in Clients |-> {}]
    /\ redis = TRUE
    /\ forgotten = FALSE

-----------------------------------------------------------------------------
(* The webhook *)

Goto(d, pc) == deliveries' = [deliveries EXCEPT ![d].pc = pc]
At(d, pc) == deliveries[d].pc = pc

Deliver(d, p) ==
    /\ At(d, "new")
    /\ deliveries' = [deliveries EXCEPT ![d] = [pc |-> "mark", at |-> p]]
    /\ UNCHANGED <<seen, optedOut, messages, forgotten, redis, hub>>

\* Mutant: the event is looked up, its mark left to a step after the delivery.
MarkLater(d) ==
    /\ At(d, "mark")
    /\ Goto(d, IF ~redis \/ seen THEN "ended" ELSE "consent")
    /\ UNCHANGED <<seen, optedOut, messages, forgotten, redis, hub>>

\* SET NX: a duplicate ends here, and without Redis nothing is sent.
Mark(d) ==
    /\ At(d, "mark")
    /\ Goto(d, IF ~redis \/ seen THEN "ended" ELSE "consent")
    /\ seen' = (seen \/ redis)
    /\ UNCHANGED <<optedOut, messages, forgotten, redis, hub>>

AskConsent(d) ==
    /\ At(d, "consent")
    /\ Goto(d, IF ~redis \/ optedOut THEN "ended" ELSE "verify")
    /\ UNCHANGED <<seen, optedOut, messages, forgotten, redis, hub>>

Schedule(p, d) == tasks' = [tasks EXCEPT ![p] = @ \cup {d}]

\* Mutant: the message is published when it is written.
VerifyPublishing(d, confirmed) ==
    /\ At(d, "verify")
    /\ Goto(d, IF confirmed THEN "commit" ELSE "ended")
    /\ IF confirmed THEN Schedule(deliveries[d].at, d) ELSE UNCHANGED tasks
    /\ UNCHANGED <<seen, optedOut, messages, forgotten, redis,
                   inbox, listener, socket, received>>

\* Quiet hours, a user without a session and a tool that does not confirm the
\* event end it, and the mark stays.
Verify(d, confirmed) ==
    /\ At(d, "verify")
    /\ Goto(d, IF confirmed THEN "commit" ELSE "ended")
    /\ UNCHANGED <<seen, optedOut, messages, forgotten, redis, hub>>

\* The commit, and _drain_after_commit in the process of the delivery.
Commit(d) ==
    /\ At(d, "commit")
    /\ Goto(d, "ended")
    /\ messages' = messages \cup {d}
    /\ Schedule(deliveries[d].at, d)
    /\ UNCHANGED <<seen, optedOut, forgotten, redis, inbox, listener, socket, received>>

\* The commit fails; what was to be published goes with the session.
Rollback(d) ==
    /\ At(d, "commit")
    /\ Goto(d, "ended")
    /\ UNCHANGED <<seen, optedOut, messages, forgotten, redis, hub>>

OptOut ==
    /\ optedOut' = ~optedOut
    /\ UNCHANGED <<deliveries, seen, messages, forgotten, redis, hub>>

MarkExpires ==
    /\ seen
    /\ seen' = FALSE
    /\ forgotten' = TRUE
    /\ UNCHANGED <<deliveries, optedOut, messages, redis, hub>>

-----------------------------------------------------------------------------
(* The hub *)

Connected(p) == {c \in Clients : socket[c] = p}
Listening == {p \in Processes : listener[p] = "listening"}

SendTo(p, d) ==
    received' = [c \in Clients |->
        IF c \in Connected(p) THEN received[c] \cup {d} ELSE received[c]]

Connect(c, p) ==
    /\ socket[c] = NoProcess
    /\ socket' = [socket EXCEPT ![c] = p]
    /\ listener' = [listener EXCEPT ![p] = IF @ = "none" THEN "connecting" ELSE @]
    /\ UNCHANGED <<webhook, redis, tasks, inbox, received>>

Disconnect(c) ==
    /\ socket[c] # NoProcess
    /\ socket' = [socket EXCEPT ![c] = NoProcess]
    /\ UNCHANGED <<webhook, redis, tasks, inbox, listener, received>>

\* The loop of _listen subscribes, after a back-off when it had failed.
Subscribe(p) ==
    /\ listener[p] = "connecting"
    /\ redis
    /\ listener' = [listener EXCEPT ![p] = "listening"]
    /\ UNCHANGED <<webhook, redis, tasks, inbox, socket, received>>

\* publish: to every process that listens now.  When Redis fails, and also when
\* only its answer is lost, the clients of this process are sent it directly.
Publish(p, d, answered) ==
    /\ d \in tasks[p]
    /\ tasks' = [tasks EXCEPT ![p] = @ \ {d}]
    /\ inbox' = [q \in Processes |->
           IF redis /\ q \in Listening THEN inbox[q] \cup {d} ELSE inbox[q]]
    /\ IF redis /\ answered THEN UNCHANGED received ELSE SendTo(p, d)
    /\ UNCHANGED <<webhook, redis, listener, socket>>

\* A message the listener has received, to the sockets of its process.
Dispatch(p, d) ==
    /\ d \in inbox[p]
    /\ inbox' = [inbox EXCEPT ![p] = @ \ {d}]
    /\ SendTo(p, d)
    /\ UNCHANGED <<webhook, redis, tasks, listener, socket>>

\* Redis fails under the listeners.
Outage ==
    /\ redis
    /\ redis' = FALSE
    /\ listener' = [p \in Processes |-> IF p \in Listening THEN "connecting" ELSE listener[p]]
    /\ UNCHANGED <<webhook, tasks, inbox, socket, received>>

RedisReturns ==
    /\ ~redis
    /\ redis' = TRUE
    /\ UNCHANGED <<webhook, hub>>

\* A process is restarted.
Restart(p) ==
    /\ deliveries' = [d \in Deliveries |->
           IF deliveries[d].at = p THEN [deliveries[d] EXCEPT !.pc = "ended"]
           ELSE deliveries[d]]
    /\ tasks' = [tasks EXCEPT ![p] = {}]
    /\ inbox' = [inbox EXCEPT ![p] = {}]
    /\ listener' = [listener EXCEPT ![p] = "none"]
    /\ socket' = [c \in Clients |-> IF socket[c] = p THEN NoProcess ELSE socket[c]]
    /\ UNCHANGED <<seen, optedOut, messages, forgotten, redis, received>>

Next ==
    \/ \E d \in Deliveries :
          \/ Mark(d) \/ AskConsent(d) \/ Commit(d) \/ Rollback(d)
          \/ \E confirmed \in BOOLEAN : Verify(d, confirmed)
          \/ \E p \in Processes : Deliver(d, p) \/ Dispatch(p, d)
          \/ \E p \in Processes, answered \in BOOLEAN : Publish(p, d, answered)
    \/ \E c \in Clients : Disconnect(c) \/ \E p \in Processes : Connect(c, p)
    \/ \E p \in Processes : Subscribe(p) \/ Restart(p)
    \/ OptOut \/ MarkExpires \/ Outage \/ RedisReturns

Spec == Init /\ [][Next]_vars

-----------------------------------------------------------------------------
(* Properties *)

\* However often and wherever the sender delivers an event, whatever fails, the
\* user gets at most one message for it while its mark lives.
OneMessage == forgotten \/ Cardinality(messages) =< 1

\* What a socket was sent is in the history the user loads: no push comes before
\* the commit of its message or without it.
PushedIsCommitted == \A c \in Clients : received[c] \subseteq messages
=============================================================================
