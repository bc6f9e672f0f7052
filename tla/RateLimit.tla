----------------------------- MODULE RateLimit -----------------------------
(***************************************************************************)
(* The sliding windows of core/rate_limit.py: check_chat_rate_limit counts *)
(* and extends the window of the tenant, then the one of the session.      *)
(* Counting and extending are two calls to Redis; a client that is refused *)
(* tries again.  An entry that leaves a window after a minute is a step of *)
(* its own.                                                                *)
(***************************************************************************)
EXTENDS Naturals, FiniteSets

CONSTANTS
    Clients,        \* clients of one session that send at the same time
    Messages,       \* bound: the messages each of them has to send
    TenantLimit,
    SessionLimit

\* What is assumed of the constants; a limit of 0 admits nobody.
LimitsAssumption ==
    /\ {Messages, TenantLimit, SessionLimit} \subseteq Nat
    /\ IsFiniteSet(Clients) /\ Clients # {}

Limits == [tenant |-> TenantLimit, session |-> SessionLimit]
Scopes == DOMAIN Limits

VARIABLES
    window,   \* the number of entries in each window
    clients   \* [pc, scope, left]: the next call, and the messages to go

vars == <<window, clients>>

Init ==
    /\ window = [s \in Scopes |-> 0]
    /\ clients = [c \in Clients |->
                     [pc |-> "count", scope |-> "tenant", left |-> Messages]]

Go(c, pc, scope) ==
    clients' = [clients EXCEPT ![c].pc = pc, ![c].scope = scope]

\* The window of the session is checked after that of the tenant.
Passed(c) ==
    IF clients[c].scope = "tenant" THEN Go(c, "count", "session")
                                   ELSE Go(c, "admitted", "session")

\* Mutant: a window with limit entries has room for one more.
CountOffByOne(c) ==
    LET s == clients[c].scope IN
    /\ clients[c].pc = "count"
    /\ Go(c, IF window[s] =< Limits[s] THEN "extend" ELSE "refused", s)
    /\ UNCHANGED window

\* Mutant: the refused request is written into the window as well.
CountWriting(c) ==
    LET s == clients[c].scope IN
    /\ clients[c].pc = "count"
    /\ IF window[s] < Limits[s]
       THEN Go(c, "extend", s) /\ UNCHANGED window
       ELSE /\ Go(c, "refused", s)
            /\ window' = [window EXCEPT ![s] = IF @ > Limits[s] THEN @ ELSE @ + 1]

\* The first pipeline: old entries are dropped and the others counted.
Count(c) ==
    LET s == clients[c].scope IN
    /\ clients[c].pc = "count"
    /\ Go(c, IF window[s] < Limits[s] THEN "extend" ELSE "refused", s)
    /\ UNCHANGED window

\* The second pipeline.
Extend(c) ==
    LET s == clients[c].scope IN
    /\ clients[c].pc = "extend"
    /\ window' = [window EXCEPT ![s] = @ + 1]
    /\ Passed(c)

\* A failing Redis lets the request pass.
Unchecked(c) ==
    /\ clients[c].pc \in {"count", "extend"}
    /\ Passed(c)
    /\ UNCHANGED window

\* The client comes back after Retry-After.
Retry(c) ==
    /\ clients[c].pc = "refused"
    /\ Go(c, "count", "tenant")
    /\ UNCHANGED window

\* The next message of a client that got through.
SendNext(c) ==
    /\ clients[c].pc = "admitted"
    /\ clients[c].left > 1
    /\ clients' = [clients EXCEPT ![c] =
          [pc |-> "count", scope |-> "tenant", left |-> clients[c].left - 1]]
    /\ UNCHANGED window

Slide(s) ==
    /\ window[s] > 0
    /\ window' = [window EXCEPT ![s] = @ - 1]
    /\ UNCHANGED clients

Next ==
    \/ \E c \in Clients : Count(c) \/ Extend(c) \/ Unchecked(c) \/ Retry(c) \/ SendNext(c)
    \/ \E s \in Scopes : Slide(s)

\* A request is carried to its end, a refused client tries again, and entries
\* leave the windows.
Fairness ==
    /\ \A c \in Clients : WF_vars(Count(c) \/ Extend(c) \/ Retry(c))
    /\ \A s \in Scopes : WF_vars(Slide(s))

Spec == Init /\ [][Next]_vars /\ Fairness

-----------------------------------------------------------------------------
(* Properties *)

Extending(s) == {c \in Clients : clients[c].pc = "extend" /\ clients[c].scope = s}

\* Requests that count a window at the same time all see its last free place:
\* a window exceeds its limit by less than the number of clients, never more.
BoundedOvershoot ==
    \A s \in Scopes :
       window[s] + Cardinality(Extending(s)) =< Limits[s] + Cardinality(Clients) - 1

\* A client that is refused and keeps trying gets through: what it tries while
\* it is refused does not keep the windows full.
RefusedRecovers ==
    \A c \in Clients : clients[c].pc = "refused" ~> clients[c].pc = "admitted"
=============================================================================
