------------------------------ MODULE Handoff ------------------------------
(***************************************************************************)
(* The handoff of one session to a human and back: chat_session.status and *)
(* the tickets of the session, changed by turns (save_turn, action_execute,*)
(* guardrail_check), by agents (handoff_service) and by the cron job       *)
(* scripts/close_idle_sessions.py, each in a transaction of its own.       *)
(*                                                                         *)
(* A transaction is cut where it reads what it relies on later; its writes *)
(* appear at its commit.  Three locks it holds until then matter: the row  *)
(* of dialog_state (holder), the row of chat_session (a turn that silences *)
(* the bot) and, for a ticket that is inserted but not committed, its      *)
(* entry in the partial unique index (fresh).  The first two are taken     *)
(* only if an UPDATE is emitted: the upsert of dialog_state selects the    *)
(* row again and gives it values, and if it has them already nothing is    *)
(* written and nothing waits.  Whether it has them is left open here.      *)
(* Every transaction may fail at any point: version conflict, database     *)
(* deadlock, crash.                                                        *)
(***************************************************************************)
EXTENDS FiniteSets

CONSTANTS
    Turns,    \* concurrent requests of the session
    Agents,   \* concurrent resolve requests
    Tickets,  \* bound: the tickets that are opened for the session
    Nobody,   \* no transaction holds the row of dialog_state
    NoTicket

ASSUME HandoffAssumption == Nobody \notin Turns /\ NoTicket \notin Tickets

VARIABLES
    status,   \* chat_session.status
    tickets,  \* chat_handoff_ticket.status of every ticket
    turns,    \* the turns in flight
    agents,   \* the resolve requests in flight
    cron,     \* the run of the cron job
    holder,   \* the turn that holds the row of dialog_state
    quiet     \* history: tickets ended by a transaction that found the values
              \* it gave dialog_state there, and so did not wait for its row

vars == <<status, tickets, turns, agents, cron, holder, quiet>>

SessionStatuses == {"active", "handoff", "closed"}
OpenStatuses == {"PENDING", "ASSIGNED"}
TicketStatuses == OpenStatuses \cup {"NONE", "RESOLVED", "CLOSED"}

(***************************************************************************)
(* HANDOVER   the user asks for a human, or reports a payment problem      *)
(* UNKNOWN    the bot has not understood several messages in a row         *)
(* FAILED     a tool failed, or needs a higher identity level              *)
(* ABUSE      the guardrail hands an abusive user over; the rest of the    *)
(*            turn is blocked and touches dialog_state only to clear a     *)
(*            pending rating question                                      *)
(***************************************************************************)
Kinds == {"HANDOVER", "UNKNOWN", "FAILED", "ABUSE"}

TurnRecords ==
    [pc : {"idle", "lock", "lookup", "insert", "ensured", "commit"}, kind : Kinds,
     ticket : Tickets \cup {NoTicket}, fresh : BOOLEAN, silences : BOOLEAN]

IdleTurn(kind) == [pc |-> "idle", kind |-> kind, ticket |-> NoTicket,
                   fresh |-> FALSE, silences |-> FALSE]

Init ==
    /\ status = "active"
    /\ tickets = [k \in Tickets |-> "NONE"]
    /\ turns = [t \in Turns |-> IdleTurn("UNKNOWN")]
    /\ agents = [a \in Agents |-> [ticket |-> NoTicket, before |-> "active"]]
    /\ cron = [job |-> "none", ticket |-> NoTicket]
    /\ holder = Nobody
    /\ quiet = {}

-----------------------------------------------------------------------------
(* Turns *)

Open == {k \in Tickets : tickets[k] \in OpenStatuses}
Pc(t) == turns[t].pc

\* Tickets inserted by turns that have not committed.
Uncommitted == {turns[u].ticket : u \in {v \in Turns : turns[v].fresh}}
\* The row of chat_session is locked by a turn that set it to handoff.
SessionLocked == \E t \in Turns : turns[t].silences

Unused == {k \in Tickets : tickets[k] = "NONE"} \ Uncommitted

\* get_open_by_session inside the transaction of t.
Found(t) == IF Open = {} THEN NoTicket ELSE CHOOSE k \in Open : TRUE

\* save_turn writes dialog_state before it opens a ticket; action_execute,
\* tool_invoke and the guardrail open theirs earlier.
FirstStep(kind) == IF kind \in {"HANDOVER", "UNKNOWN"} THEN "lock" ELSE "lookup"

\* What is left of a turn whose ticket is settled.
LastSteps(t) ==
    {pc \in {"lock", "commit"} :
        /\ pc = "lock" => turns[t].kind \in {"FAILED", "ABUSE"}
        /\ pc = "commit" => turns[t].kind # "FAILED"}

\* load_session_state: silent while a human answers; a closed session is
\* reopened, which is committed at once.
Begin(t, kind) ==
    /\ Pc(t) = "idle"
    /\ status # "handoff"
    /\ status = "closed" => ~SessionLocked
    /\ status' = "active"
    /\ turns' = [turns EXCEPT ![t] = [IdleTurn(kind) EXCEPT !.pc = FirstStep(kind)]]
    /\ UNCHANGED <<tickets, agents, cron, holder, quiet>>

\* The upsert of dialog_state in save_turn, and for a handover the assignment
\* of chat_session.status: an UPDATE of the one unless the row has the values,
\* one of the other unless the instance says handoff.
Lock(t) ==
    /\ Pc(t) = "lock"
    /\ \E writes \in BOOLEAN,
          seen \in IF turns[t].kind = "HANDOVER" THEN {"active", status} ELSE {"handoff"} :
          /\ writes => holder = Nobody
          /\ seen # "handoff" => ~SessionLocked
          /\ holder' = IF writes THEN t ELSE holder
          /\ turns' = [turns EXCEPT ![t] = [turns[t] EXCEPT
                !.pc = IF turns[t].kind \in {"FAILED", "ABUSE"} THEN "commit" ELSE "lookup",
                !.silences = turns[t].silences \/ seen # "handoff"]]
    /\ UNCHANGED <<status, tickets, agents, cron, quiet>>

\* ensure_ticket: an open ticket is reused, otherwise one is to be inserted.
Lookup(t) ==
    /\ Pc(t) = "lookup"
    /\ turns' = [turns EXCEPT ![t] = [turns[t] EXCEPT
          !.ticket = Found(t), !.pc = IF Open = {} THEN "insert" ELSE "ensured"]]
    /\ UNCHANGED <<status, tickets, agents, cron, holder, quiet>>

Holding(t, k, fresh) ==
    [turns[t] EXCEPT !.ticket = k, !.fresh = fresh, !.pc = "ensured"]

\* Mutant: nothing prevents a second open ticket.
InsertUnchecked(t) ==
    /\ Pc(t) = "insert"
    /\ \E k \in Unused :
          turns' = [turns EXCEPT ![t] = Holding(t, k, TRUE)]
    /\ UNCHANGED <<status, tickets, agents, cron, holder, quiet>>

\* The INSERT waits for another uncommitted one; when a ticket has been opened
\* meanwhile, the savepoint is rolled back and that ticket is reused.
Insert(t) ==
    /\ Pc(t) = "insert"
    /\ Uncommitted = {}
    /\ \/ /\ Open = {}
          /\ \E k \in Unused :
                turns' = [turns EXCEPT ![t] = Holding(t, k, TRUE)]
       \/ /\ Open # {}
          /\ turns' = [turns EXCEPT ![t] = Holding(t, Found(t), FALSE)]
    /\ UNCHANGED <<status, tickets, agents, cron, holder, quiet>>

\* The ticket it collided with has ended before it was looked up again: the
\* error is swallowed everywhere but in save_turn.
Unticketed(t) ==
    /\ Pc(t) = "insert"
    /\ turns[t].kind \in {"FAILED", "ABUSE"}
    /\ \E k \in Tickets : tickets[k] \in {"RESOLVED", "CLOSED"}
    /\ \E pc \in LastSteps(t) : turns' = [turns EXCEPT ![t].pc = pc]
    /\ UNCHANGED <<status, tickets, agents, cron, holder, quiet>>

\* The guardrail sets the session to handoff with an ORM assignment: no UPDATE
\* is emitted when the instance, loaded before or again now, says so already.
Ensured(t) ==
    /\ Pc(t) = "ensured"
    /\ \E seen \in IF turns[t].kind = "ABUSE" THEN {"active", status} ELSE {"handoff"},
          pc \in LastSteps(t) :
          /\ seen # "handoff" => ~SessionLocked
          /\ turns' = [turns EXCEPT ![t] = [turns[t] EXCEPT
                !.silences = turns[t].silences \/ seen # "handoff", !.pc = pc]]
    /\ UNCHANGED <<status, tickets, agents, cron, holder, quiet>>

EndOf(t) ==
    /\ turns' = [turns EXCEPT ![t] = IdleTurn(turns[t].kind)]
    /\ holder' = IF holder = t THEN Nobody ELSE holder

Commit(t) ==
    /\ Pc(t) = "commit"
    /\ status' = IF turns[t].silences THEN "handoff" ELSE status
    /\ tickets' = [k \in Tickets |-> IF turns[t].fresh /\ turns[t].ticket = k
                                     THEN "PENDING" ELSE tickets[k]]
    /\ EndOf(t)
    /\ UNCHANGED <<agents, cron, quiet>>

Rollback(t) ==
    /\ Pc(t) # "idle"
    /\ EndOf(t)
    /\ UNCHANGED <<status, tickets, agents, cron, quiet>>

-----------------------------------------------------------------------------
(* Agents *)

\* Mutant: the UPDATE does not ask for a pending ticket.
ClaimAny(k) ==
    /\ tickets[k] # "NONE"
    /\ tickets' = [tickets EXCEPT ![k] = "ASSIGNED"]
    /\ UNCHANGED <<status, turns, agents, cron, holder, quiet>>

\* One conditional UPDATE.
Claim(k) ==
    /\ tickets[k] = "PENDING"
    /\ tickets' = [tickets EXCEPT ![k] = "ASSIGNED"]
    /\ UNCHANGED <<status, turns, agents, cron, holder, quiet>>

\* resolve reads the ticket and the session.
ResolveRead(a, k) ==
    /\ agents[a].ticket = NoTicket
    /\ tickets[k] \in OpenStatuses
    /\ agents' = [agents EXCEPT ![a] = [ticket |-> k, before |-> status]]
    /\ UNCHANGED <<status, tickets, turns, cron, holder, quiet>>

AgentDone(a) == agents' = [agents EXCEPT ![a].ticket = NoTicket]

\* Mutant: the end of the ticket is committed before the row is reset.
EndsFirst(k, new) ==
    /\ tickets' = [tickets EXCEPT ![k] = new]
    /\ quiet' = quiet

\* A transaction that resets dialog_state ends a ticket: it waits for the row
\* if the reset is an UPDATE.
Ends(k, new) ==
    /\ tickets' = [tickets EXCEPT ![k] = new]
    /\ \/ holder = Nobody /\ quiet' = quiet
       \/ quiet' = quiet \cup {k}

\* It writes what it decided on; the session only if it was not active.
ResolveCommit(a) ==
    /\ agents[a].ticket # NoTicket
    /\ agents[a].before # "active" => ~SessionLocked
    /\ Ends(agents[a].ticket, "RESOLVED")
    /\ status' = IF agents[a].before = "active" THEN status ELSE "active"
    /\ AgentDone(a)
    /\ UNCHANGED <<turns, cron, holder>>

ResolveRollback(a) ==
    /\ agents[a].ticket # NoTicket
    /\ AgentDone(a)
    /\ UNCHANGED <<status, tickets, turns, cron, holder, quiet>>

-----------------------------------------------------------------------------
(* The cron job *)

\* close_stale_tickets: an ASSIGNED ticket that was not updated for long.
SelectStale(k) ==
    /\ cron.job = "none"
    /\ tickets[k] = "ASSIGNED"
    /\ cron' = [job |-> "stale", ticket |-> k]
    /\ UNCHANGED <<status, tickets, turns, agents, holder, quiet>>

\* close_idle_sessions: an active session without a message for long.
SelectIdle ==
    /\ cron.job = "none"
    /\ status = "active"
    /\ cron' = [job |-> "idle", ticket |-> NoTicket]
    /\ UNCHANGED <<status, tickets, turns, agents, holder, quiet>>

CronDone == cron' = [job |-> "none", ticket |-> NoTicket]

\* The UPDATEs name the ticket, not the status it had.
CloseStale ==
    /\ cron.job = "stale"
    /\ status = "handoff" => ~SessionLocked
    /\ Ends(cron.ticket, "CLOSED")
    /\ status' = IF status = "handoff" THEN "active" ELSE status
    /\ CronDone
    /\ UNCHANGED <<turns, agents, holder>>

\* Whether it waits for the row of dialog_state or not, the session is closed.
CloseIdle ==
    /\ cron.job = "idle"
    /\ ~SessionLocked
    /\ status' = "closed"
    /\ CronDone
    /\ UNCHANGED <<tickets, turns, agents, holder, quiet>>

CronRollback ==
    /\ cron.job # "none"
    /\ CronDone
    /\ UNCHANGED <<status, tickets, turns, agents, holder, quiet>>

-----------------------------------------------------------------------------
TurnStep(t) == Lock(t) \/ Lookup(t) \/ Insert(t) \/ Unticketed(t) \/ Ensured(t) \/ Commit(t)

Next ==
    \/ \E t \in Turns : (\E kind \in Kinds : Begin(t, kind)) \/ TurnStep(t) \/ Rollback(t)
    \/ \E k \in Tickets : Claim(k) \/ SelectStale(k)
    \/ \E a \in Agents : \/ \E k \in Tickets : ResolveRead(a, k)
                         \/ ResolveCommit(a) \/ ResolveRollback(a)
    \/ SelectIdle \/ CloseStale \/ CloseIdle \/ CronRollback

Spec == Init /\ [][Next]_vars

-----------------------------------------------------------------------------
(* Safety *)

TypeOK ==
    /\ status \in SessionStatuses
    /\ tickets \in [Tickets -> TicketStatuses]
    /\ turns \in [Turns -> TurnRecords]
    /\ agents \in [Agents -> [ticket : Tickets \cup {NoTicket}, before : SessionStatuses]]
    /\ cron \in [job : {"stale"}, ticket : Tickets] \cup [job : {"none", "idle"}, ticket : {NoTicket}]
    /\ holder \in Turns \cup {Nobody}
    /\ quiet \subseteq Tickets

\* However many turns open a ticket at the same time, at most one is open: the
\* lookup of ensure_ticket is stale by the time of the INSERT.
OneOpenTicket == \A k, l \in Open : k = l

\* A user who asked for a human gets one: once save_turn has changed the row of
\* dialog_state for a handover, nobody who changes it too can end the ticket it
\* found, until it has committed the promise.  An end that left the row as it
\* was (quiet) does not wait, and a handover that did not change it keeps nobody
\* out: what follows from those is what HumanReachable shows.
HandoverHasTicket ==
    \A t \in Turns : turns[t].kind = "HANDOVER" /\ holder = t /\ Pc(t) \in {"ensured", "commit"}
        => turns[t].fresh \/ turns[t].ticket \in Open \cup quiet

\* A ticket that has ended is never open again: not by a claim that raced with
\* the resolution, nor by the cron job.
EndedStaysEnded ==
    [][\A k \in Tickets : tickets[k] \in {"RESOLVED", "CLOSED"}
          => tickets'[k] \in {"RESOLVED", "CLOSED"}]_vars

(* What the documents say and the code does not do; see the violation runs *)

\* status = handoff is the switch that silences the bot, "restored to active
\* when the ticket is resolved" (docs/database/chat_tables.md:353): no session
\* is silent without an open ticket, from which alone it can be restored.
HumanReachable == status = "handoff" => Open # {}
=============================================================================
