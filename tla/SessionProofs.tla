--------------------------- MODULE SessionProofs ----------------------------
(***************************************************************************)
(* For any number of turns, of resolve requests, of tickets and of         *)
(* questions: at most one ticket of the session is open, the ticket        *)
(* promised to the user cannot be ended by a transaction that waits for    *)
(* the row of dialog_state, an ended ticket stays ended, and a question    *)
(* for a rating is answered at once or never.                              *)
(***************************************************************************)
EXTENDS Session, TLAPS

\* An uncommitted ticket is the only one on its way, and none is open.
FreshInv ==
    /\ \A t \in Turns : turns[t].fresh =>
          /\ turns[t].ticket \in Tickets /\ tickets[turns[t].ticket] = "NONE"
          /\ Open = {}
    /\ \A t, u \in Turns : turns[t].fresh /\ turns[u].fresh => t = u

\* What agents and the cron job have read was a ticket that existed.
ReadInv ==
    /\ \A a \in Agents : agents[a].ticket # NoTicket => tickets[agents[a].ticket] # "NONE"
    /\ cron.job = "stale" => cron.ticket \in Tickets /\ tickets[cron.ticket] # "NONE"

\* A turn has an uncommitted ticket only after its INSERT.
AfterInsert ==
    \A t \in Turns :
        turns[t].fresh => \/ Pc(t) \in {"ensured", "commit"}
                          \/ Pc(t) = "lock" /\ turns[t].kind \in {"FAILED", "ABUSE"}

\* Each part needs another: OneOpenTicket at a commit needs FreshInv,
\* HandoverHasTicket needs that nobody else has the row, and EndedStaysEnded at
\* a commit needs the ticket of FreshInv to be unused, which ReadInv keeps.
HandoffInv ==
    TypeOK /\ OneOpenTicket /\ FreshInv /\ ReadInv /\ AfterInsert /\ HandoverHasTicket

-----------------------------------------------------------------------------

LEMMA InitHandoffInv == Init => HandoffInv
BY HandoffAssumption
DEF Init, HandoffInv, TypeOK, OneOpenTicket, FreshInv, ReadInv, AfterInsert,
    HandoverHasTicket, Open, Pc, SessionStatuses, OpenStatuses, TicketStatuses, Kinds, TurnRecords, IdleTurn

\* A step that leaves the tickets alone, and adds no uncommitted one.
LEMMA TicketsStay ==
    ASSUME HandoffInv, TypeOK', tickets' = tickets,
           \A t \in Turns : turns'[t].fresh => turns[t].fresh /\ turns'[t].ticket = turns[t].ticket
    PROVE  OneOpenTicket' /\ FreshInv'
BY DEF HandoffInv, OneOpenTicket, FreshInv, Open

\* A step that changes tickets between the statuses of an existing ticket.
LEMMA TicketEnds ==
    ASSUME HandoffInv, TypeOK', turns' = turns,
           NEW k \in Tickets, tickets[k] # "NONE",
           NEW new \in TicketStatuses, tickets' = [tickets EXCEPT ![k] = new],
           new \in OpenStatuses => tickets[k] \in OpenStatuses, new # "NONE"
    PROVE  OneOpenTicket' /\ FreshInv'
<1>1. Open' \subseteq Open
  BY DEF Open, HandoffInv, TypeOK
<1>2. OneOpenTicket'
  BY <1>1 DEF OneOpenTicket, HandoffInv
<1>3. FreshInv'
  BY <1>1 DEF FreshInv, HandoffInv, TypeOK
<1>4. QED  BY <1>2, <1>3

-----------------------------------------------------------------------------
(* The steps of a turn *)

LEMMA FoundIsOpen == \A t : Open # {} => Found(t) \in Open
BY DEF Found

\* A step that replaces the record of one turn.
LEMMA TurnType ==
    ASSUME TypeOK, NEW t \in Turns, NEW rec \in TurnRecords,
           turns' = [turns EXCEPT ![t] = rec],
           tickets' = tickets, agents' = agents, cron' = cron, status' = status,
           holder' \in Turns \cup {Nobody}, quiet' = quiet
    PROVE  TypeOK'
BY DEF TypeOK

LEMMA TypeStep == TypeOK /\ [Next]_vars => TypeOK'
<1> SUFFICES ASSUME TypeOK, [Next]_vars PROVE TypeOK'
  OBVIOUS
<1>1. ASSUME NEW t \in Turns, NEW kind \in Kinds, Begin(t, kind) PROVE TypeOK'
  BY <1>1 DEF Begin, FirstStep, IdleTurn, TypeOK, TurnRecords, SessionStatuses
<1>2. ASSUME NEW t \in Turns, TurnStep(t) PROVE TypeOK'
  <2> turns[t] \in TurnRecords /\ Open \subseteq Tickets /\ Found(t) \in Tickets \cup {NoTicket}
    BY FoundIsOpen DEF TypeOK, Open, Found
  <2>1. CASE Lock(t)
    <3>1. PICK silences \in BOOLEAN, pc \in {"lookup", "commit"} :
             turns' = [turns EXCEPT ![t] = [turns[t] EXCEPT !.pc = pc, !.silences = silences]]
      <4>1. turns[t].silences \in BOOLEAN
        BY DEF TurnRecords
      <4>2. QED  BY <2>1, <4>1 DEF Lock
    <3>2. [turns[t] EXCEPT !.pc = pc, !.silences = silences] \in TurnRecords
      BY DEF TurnRecords
    <3>3. holder' \in Turns \cup {Nobody} /\ UNCHANGED <<status, tickets, agents, cron, quiet>>
      BY <2>1 DEF Lock, TypeOK
    <3>4. QED  BY <3>1, <3>2, <3>3, TurnType
  <2>2. CASE Lookup(t)
    <3> DEFINE rec == [turns[t] EXCEPT
          !.ticket = Found(t), !.pc = IF Open = {} THEN "insert" ELSE "ensured"]
    <3>1. rec \in TurnRecords
      BY DEF TurnRecords
    <3>2. turns' = [turns EXCEPT ![t] = rec]
          /\ UNCHANGED <<status, tickets, agents, cron, holder, quiet>>
      BY <2>2 DEF Lookup
    <3> HIDE DEF rec
    <3>3. QED  BY <3>1, <3>2, TurnType DEF TypeOK
  <2>3. CASE Insert(t)
    <3>1. PICK k \in Tickets \cup {NoTicket}, fresh \in BOOLEAN :
             turns' = [turns EXCEPT ![t] = Holding(t, k, fresh)]
      BY <2>3 DEF Insert, Unused
    <3>2. Holding(t, k, fresh) \in TurnRecords
      BY DEF Holding, TurnRecords
    <3>3. QED  BY <2>3, <3>1, <3>2, TurnType DEF Insert, TypeOK
  <2>4. CASE Unticketed(t)
    BY <2>4 DEF Unticketed, LastSteps, TypeOK, TurnRecords
  <2>5. CASE Ensured(t)
    <3>1. PICK silences \in BOOLEAN, pc \in {"lock", "commit"} :
             turns' = [turns EXCEPT ![t] = [turns[t] EXCEPT !.silences = silences, !.pc = pc]]
      <4>1. turns[t].silences \in BOOLEAN
        BY DEF TurnRecords
      <4>2. QED  BY <2>5, <4>1 DEF Ensured, LastSteps
    <3>2. [turns[t] EXCEPT !.silences = silences, !.pc = pc] \in TurnRecords
      BY DEF TurnRecords
    <3>3. QED  BY <2>5, <3>1, <3>2, TurnType DEF Ensured, TypeOK
  <2>6. CASE Commit(t)
    BY <2>6 DEF Commit, EndOf, IdleTurn, TypeOK, TurnRecords, SessionStatuses, TicketStatuses, OpenStatuses
  <2>7. QED  BY <1>2, <2>1, <2>2, <2>3, <2>4, <2>5, <2>6 DEF TurnStep
<1> USE DEF TypeOK, SessionStatuses, OpenStatuses, TicketStatuses, TurnRecords
<1>3. ASSUME NEW t \in Turns, Rollback(t) PROVE TypeOK'
  BY <1>3 DEF Rollback, EndOf, IdleTurn
<1>4. ASSUME NEW k \in Tickets, Claim(k) \/ SelectStale(k) PROVE TypeOK'
  BY <1>4 DEF Claim, SelectStale
<1>5. ASSUME NEW a \in Agents, NEW k \in Tickets, ResolveRead(a, k) PROVE TypeOK'
  BY <1>5 DEF ResolveRead
<1>6. ASSUME NEW a \in Agents, ResolveCommit(a) PROVE TypeOK'
  BY <1>6 DEF ResolveCommit, AgentDone, Ends
<1>7. ASSUME NEW a \in Agents, ResolveRollback(a) PROVE TypeOK'
  BY <1>7 DEF ResolveRollback, AgentDone
<1>8. CASE SelectIdle \/ CloseStale \/ CloseIdle \/ CronRollback
  BY <1>8 DEF SelectIdle, CloseStale, CloseIdle, CronRollback, CronDone, Ends
<1>9. CASE UNCHANGED vars
  BY <1>9 DEF vars
<1>10. QED
  BY <1>1, <1>2, <1>3, <1>4, <1>5, <1>6, <1>7, <1>8, <1>9 DEF Next

\* A step of turn t alone, which neither commits nor gains a ticket on its way.
LEMMA QuietTurnStep ==
    ASSUME HandoffInv, TypeOK', NEW t \in Turns,
           tickets' = tickets, agents' = agents, cron' = cron, quiet' = quiet,
           \A u \in Turns \ {t} : turns'[u] = turns[u] /\ (holder' = u => holder = u),
           turns'[t].fresh => turns[t].fresh /\ turns'[t].ticket = turns[t].ticket,
           turns'[t].fresh => (\/ turns'[t].pc \in {"ensured", "commit"}
                               \/ turns'[t].pc = "lock" /\ turns'[t].kind \in {"FAILED", "ABUSE"}),
           turns'[t].kind = "HANDOVER" /\ turns'[t].pc \in {"ensured", "commit"} /\ holder' = t
               => turns'[t].fresh \/ turns'[t].ticket \in Open \cup quiet
    PROVE  HandoffInv'
<1>1. OneOpenTicket' /\ FreshInv'
  BY TicketsStay
<1>2. ReadInv'
  BY DEF HandoffInv, ReadInv
<1>3. AfterInsert'
  BY DEF HandoffInv, AfterInsert, Pc
<1>4. HandoverHasTicket'
  BY DEF HandoffInv, HandoverHasTicket, Pc, Open
<1>5. QED  BY <1>1, <1>2, <1>3, <1>4 DEF HandoffInv

\* A step of an agent or of the cron job: a ticket it ends was not promised by a
\* handover that has the row of dialog_state, or it is noted that the step did
\* not wait for the row.
LEMMA OthersStep ==
    ASSUME HandoffInv, TypeOK', turns' = turns, holder' = holder, quiet \subseteq quiet',
           OneOpenTicket', FreshInv', ReadInv',
           holder = Nobody \/ Open \subseteq Open' \cup quiet'
    PROVE  HandoffInv'
<1>1. AfterInsert'
  BY DEF HandoffInv, AfterInsert, Pc
<1>2. HandoverHasTicket'
  <2>1. CASE holder = Nobody
    BY <2>1, HandoffAssumption DEF HandoverHasTicket
  <2>2. CASE Open \subseteq Open' \cup quiet'
    BY <2>2 DEF HandoffInv, HandoverHasTicket, Pc
  <2>3. QED  BY <2>1, <2>2
<1>3. QED  BY <1>1, <1>2 DEF HandoffInv

\* The end of a ticket is such a step.
LEMMA EndsKeeps ==
    ASSUME HandoffInv, TypeOK', turns' = turns, holder' = holder,
           NEW k \in Tickets, tickets[k] # "NONE",
           NEW new \in {"RESOLVED", "CLOSED"}, Ends(k, new), ReadInv'
    PROVE  HandoffInv'
<1>1. OneOpenTicket' /\ FreshInv'
  BY TicketEnds DEF Ends, OpenStatuses, TicketStatuses
<1>2. Open \subseteq Open' \cup {k}
  BY DEF Ends, Open, HandoffInv, TypeOK
<1>3. quiet \subseteq quiet' /\ (holder = Nobody \/ Open \subseteq Open' \cup quiet')
  BY <1>2 DEF Ends
<1>4. QED  BY <1>1, <1>3, OthersStep

\* The INSERT succeeds only while no other ticket is open or on its way.
LEMMA InsertKeeps ==
    ASSUME HandoffInv, TypeOK', NEW t \in Turns, Insert(t)
    PROVE  HandoffInv'
<1>1. /\ turns[t].pc = "insert" /\ Uncommitted = {}
      /\ UNCHANGED <<tickets, agents, cron, holder, quiet>>
  BY DEF Insert, Pc
<1>2. \A u \in Turns : ~turns[u].fresh
  BY <1>1 DEF Uncommitted
<1>3. ASSUME NEW k \in Tickets \cup {NoTicket}, NEW fresh \in BOOLEAN,
             turns' = [turns EXCEPT ![t] = Holding(t, k, fresh)]
      PROVE  /\ turns'[t].kind = turns[t].kind /\ turns'[t].pc = "ensured"
             /\ turns'[t].ticket = k /\ turns'[t].fresh = fresh
             /\ \A u \in Turns \ {t} : turns'[u] = turns[u]
  BY <1>3 DEF HandoffInv, TypeOK, TurnRecords, Holding
<1>4. CASE Open = {} /\ \E k \in Unused : turns' = [turns EXCEPT ![t] = Holding(t, k, TRUE)]
  <2>1. PICK k \in Unused : turns' = [turns EXCEPT ![t] = Holding(t, k, TRUE)]
    BY <1>4
  <2>2. k \in Tickets /\ tickets[k] = "NONE"
    BY DEF Unused
  <2>3. /\ turns'[t].kind = turns[t].kind /\ turns'[t].pc = "ensured"
        /\ turns'[t].ticket = k /\ turns'[t].fresh
        /\ \A u \in Turns \ {t} : turns'[u] = turns[u]
    BY <1>3, <2>1, <2>2
  <2>4. Open' = {} /\ OneOpenTicket'
    BY <1>1, <1>4 DEF Open, OneOpenTicket
  <2>5. FreshInv'
    BY <1>1, <1>2, <2>2, <2>3, <2>4 DEF FreshInv
  <2>6. ReadInv'
    BY <1>1 DEF HandoffInv, ReadInv
  <2>7. AfterInsert' /\ HandoverHasTicket'
    BY <1>1, <1>2, <1>4, <2>3 DEF HandoffInv, AfterInsert, HandoverHasTicket, Pc, Open
  <2>8. QED  BY <2>4, <2>5, <2>6, <2>7 DEF HandoffInv
<1>5. CASE Open # {} /\ turns' = [turns EXCEPT ![t] = Holding(t, Found(t), FALSE)]
  <2>1. Found(t) \in Open /\ Found(t) \in Tickets \cup {NoTicket}
    BY <1>5, FoundIsOpen DEF Open
  <2>2. /\ turns'[t].kind = turns[t].kind /\ turns'[t].pc = "ensured"
        /\ turns'[t].ticket = Found(t) /\ turns'[t].fresh = FALSE
        /\ \A u \in Turns \ {t} : turns'[u] = turns[u]
    BY <1>3, <1>5, <2>1
  <2>3. QED  BY <1>1, <1>2, <2>1, <2>2, QuietTurnStep
<1>6. QED  BY <1>4, <1>5 DEF Insert

\* A commit opens the ticket that was on its way: the only open one, since
\* none was open while it was on its way.
LEMMA CommitKeeps ==
    ASSUME HandoffInv, TypeOK', NEW t \in Turns, Commit(t)
    PROVE  HandoffInv'
<1>1. /\ ~turns'[t].fresh /\ turns'[t].pc = "idle"
      /\ \A u \in Turns \ {t} : turns'[u] = turns[u] /\ (holder' = u => holder = u)
      /\ UNCHANGED <<agents, cron, quiet>>
  BY HandoffAssumption DEF Commit, EndOf, IdleTurn, HandoffInv, TypeOK
<1>2. CASE ~turns[t].fresh
  <2>1. tickets' = tickets
    BY <1>2 DEF Commit, HandoffInv, TypeOK
  <2>2. QED  BY <1>1, <2>1, QuietTurnStep
<1>3. CASE turns[t].fresh
  <2> DEFINE k == turns[t].ticket
  <2>1. k \in Tickets /\ tickets[k] = "NONE" /\ Open = {}
    BY <1>3 DEF HandoffInv, FreshInv
  <2>2. tickets' = [l \in Tickets |-> IF l = k THEN "PENDING" ELSE tickets[l]]
    BY <1>3 DEF Commit
  <2>3. \A u \in Turns : ~turns'[u].fresh
    BY <1>1, <1>3 DEF HandoffInv, FreshInv
  <2> HIDE DEF k
  <2>4. Open' = {k}
    BY <2>1, <2>2 DEF Open, OpenStatuses
  <2>5. OneOpenTicket' /\ FreshInv'
    BY <2>3, <2>4 DEF OneOpenTicket, FreshInv
  <2>6. ReadInv'
    BY <1>1, <2>1, <2>2 DEF HandoffInv, ReadInv, TypeOK
  <2>7. AfterInsert' /\ HandoverHasTicket'
    BY <1>1, <2>1, <2>3 DEF HandoffInv, AfterInsert, HandoverHasTicket, Pc
  <2>8. QED  BY <2>5, <2>6, <2>7 DEF HandoffInv
<1>4. QED  BY <1>2, <1>3

LEMMA NextHandoffInv == HandoffInv /\ [Next]_vars => HandoffInv'
<1> SUFFICES ASSUME HandoffInv, [Next]_vars PROVE HandoffInv'
  OBVIOUS
<1>0. TypeOK /\ TypeOK'
  BY TypeStep DEF HandoffInv
<1>1. ASSUME NEW t \in Turns, NEW kind \in Kinds, Begin(t, kind) PROVE HandoffInv'
  BY <1>0, <1>1, QuietTurnStep DEF Begin, FirstStep, IdleTurn, TypeOK
<1>2. ASSUME NEW t \in Turns, Lock(t) PROVE HandoffInv'
  <2>1. /\ turns'[t].kind = turns[t].kind /\ turns'[t].fresh = turns[t].fresh
        /\ turns'[t].ticket = turns[t].ticket
        /\ turns'[t].pc = IF turns[t].kind \in {"FAILED", "ABUSE"} THEN "commit" ELSE "lookup"
        /\ \A u \in Turns \ {t} : turns'[u] = turns[u]
        /\ turns[t].pc = "lock"
    BY <1>0, <1>2 DEF Lock, TypeOK, TurnRecords, Pc
  <2>2. holder' \in {holder, t} /\ UNCHANGED <<tickets, agents, cron, quiet>>
    BY <1>2 DEF Lock
  <2>3. turns[t].fresh => turns[t].kind \in {"FAILED", "ABUSE"}
    BY <2>1 DEF HandoffInv, AfterInsert, Pc
  <2>4. turns[t].kind \in Kinds
    BY <1>0 DEF TypeOK, TurnRecords
  <2>5. QED  BY <1>0, <2>1, <2>2, <2>3, <2>4, QuietTurnStep DEF Kinds
<1>3. ASSUME NEW t \in Turns, Lookup(t) PROVE HandoffInv'
  <2>1. /\ turns'[t].kind = turns[t].kind /\ turns'[t].fresh = turns[t].fresh
        /\ turns'[t].ticket = Found(t)
        /\ turns'[t].pc = IF Open = {} THEN "insert" ELSE "ensured"
        /\ \A u \in Turns \ {t} : turns'[u] = turns[u]
        /\ turns[t].pc = "lookup"
    BY <1>0, <1>3 DEF Lookup, TypeOK, TurnRecords, Pc
  <2>2. UNCHANGED <<tickets, agents, cron, holder, quiet>>
    BY <1>3 DEF Lookup
  <2>3. ~turns[t].fresh
    BY <2>1 DEF HandoffInv, AfterInsert, Pc
  <2>4. QED  BY <1>0, <2>1, <2>2, <2>3, QuietTurnStep, FoundIsOpen
<1>4. ASSUME NEW t \in Turns, Insert(t) PROVE HandoffInv'
  BY <1>0, <1>4, InsertKeeps
<1>5. ASSUME NEW t \in Turns, Unticketed(t) PROVE HandoffInv'
  <2>1. /\ turns'[t].kind = turns[t].kind /\ turns'[t].fresh = turns[t].fresh
        /\ turns'[t].ticket = turns[t].ticket
        /\ turns[t].kind \in {"FAILED", "ABUSE"}
        /\ turns[t].pc = "insert" /\ turns'[t].pc \in LastSteps(t)
        /\ \A u \in Turns \ {t} : turns'[u] = turns[u]
    BY <1>0, <1>5 DEF Unticketed, TypeOK, TurnRecords, Pc
  <2>2. UNCHANGED <<tickets, agents, cron, holder, quiet>>
    BY <1>5 DEF Unticketed
  <2>3. ~turns[t].fresh
    BY <2>1 DEF HandoffInv, AfterInsert, Pc
  <2>4. QED  BY <1>0, <2>1, <2>2, <2>3, QuietTurnStep
<1>6. ASSUME NEW t \in Turns, Ensured(t) PROVE HandoffInv'
  <2>1. /\ turns'[t].kind = turns[t].kind /\ turns'[t].fresh = turns[t].fresh
        /\ turns'[t].ticket = turns[t].ticket
        /\ turns'[t].pc \in LastSteps(t)
        /\ turns[t].pc = "ensured"
        /\ \A u \in Turns \ {t} : turns'[u] = turns[u]
    BY <1>0, <1>6 DEF Ensured, TypeOK, TurnRecords, Pc
  <2>2. UNCHANGED <<tickets, agents, cron, holder, quiet>>
    BY <1>6 DEF Ensured
  <2>3. turns[t].kind = "HANDOVER" /\ holder = t
        => turns[t].fresh \/ turns[t].ticket \in Open \cup quiet
    BY <2>1 DEF HandoffInv, HandoverHasTicket, Pc
  <2>4. turns'[t].pc = "commit" \/ (turns'[t].pc = "lock" /\ turns'[t].kind \in {"FAILED", "ABUSE"})
    BY <2>1 DEF LastSteps
  <2>5. turns'[t].fresh => turns[t].fresh /\ turns'[t].ticket = turns[t].ticket
    BY <2>1
  <2>6. turns'[t].kind = "HANDOVER" /\ turns'[t].pc \in {"ensured", "commit"} /\ holder' = t
        => turns'[t].fresh \/ turns'[t].ticket \in Open \cup quiet
    BY <2>1, <2>2, <2>3
  <2>7. QED  BY <1>0, <2>1, <2>2, <2>4, <2>5, <2>6, QuietTurnStep
<1>7. ASSUME NEW t \in Turns, Commit(t) PROVE HandoffInv'
  BY <1>0, <1>7, CommitKeeps
<1>8. ASSUME NEW t \in Turns, Rollback(t) PROVE HandoffInv'
  BY <1>0, <1>8, QuietTurnStep, HandoffAssumption DEF Rollback, EndOf, IdleTurn, TypeOK, Pc
<1>9. ASSUME NEW k \in Tickets, Claim(k) PROVE HandoffInv'
  <2>1. turns' = turns /\ holder' = holder /\ quiet' = quiet /\ agents' = agents /\ cron' = cron
        /\ tickets[k] = "PENDING" /\ tickets' = [tickets EXCEPT ![k] = "ASSIGNED"]
    BY <1>9 DEF Claim
  <2>2. OneOpenTicket' /\ FreshInv'
    BY <1>0, <2>1, TicketEnds DEF OpenStatuses, TicketStatuses
  <2>3. ReadInv'
    BY <2>1 DEF HandoffInv, ReadInv, TypeOK
  <2>4. Open \subseteq Open'
    BY <1>0, <2>1 DEF Open, TypeOK, OpenStatuses
  <2>5. QED  BY <1>0, <2>1, <2>2, <2>3, <2>4, OthersStep
<1>10. ASSUME NEW k \in Tickets, SelectStale(k) PROVE HandoffInv'
  <2>1. turns' = turns /\ holder' = holder /\ quiet' = quiet /\ agents' = agents /\ tickets' = tickets
        /\ tickets[k] = "ASSIGNED" /\ cron' = [job |-> "stale", ticket |-> k]
    BY <1>10 DEF SelectStale
  <2>2. OneOpenTicket' /\ FreshInv'
    BY <1>0, <2>1, TicketsStay
  <2>3. ReadInv'
    BY <2>1 DEF HandoffInv, ReadInv
  <2>4. QED  BY <1>0, <2>1, <2>2, <2>3, OthersStep DEF Open
<1>11. ASSUME NEW a \in Agents, NEW k \in Tickets, ResolveRead(a, k) PROVE HandoffInv'
  <2>1. turns' = turns /\ holder' = holder /\ quiet' = quiet /\ cron' = cron /\ tickets' = tickets
        /\ tickets[k] \in OpenStatuses
        /\ agents' = [agents EXCEPT ![a] = [ticket |-> k, before |-> status]]
    BY <1>11 DEF ResolveRead
  <2>2. OneOpenTicket' /\ FreshInv'
    BY <1>0, <2>1, TicketsStay
  <2>3. ReadInv'
    BY <1>0, <2>1 DEF HandoffInv, ReadInv, TypeOK, OpenStatuses
  <2>4. QED  BY <1>0, <2>1, <2>2, <2>3, OthersStep DEF Open
<1>12. ASSUME NEW a \in Agents, ResolveCommit(a) PROVE HandoffInv'
  <2> DEFINE k == agents[a].ticket
  <2>1. turns' = turns /\ holder' = holder /\ cron' = cron /\ k # NoTicket
        /\ Ends(k, "RESOLVED") /\ agents' = [agents EXCEPT ![a].ticket = NoTicket]
    BY <1>12 DEF ResolveCommit, AgentDone
  <2>2. k \in Tickets /\ tickets[k] # "NONE"
    BY <1>0, <2>1 DEF HandoffInv, ReadInv, TypeOK
  <2> HIDE DEF k
  <2>3. ReadInv'
    BY <1>0, <2>1, <2>2 DEF HandoffInv, ReadInv, TypeOK, Ends
  <2>4. QED  BY <1>0, <2>1, <2>2, <2>3, EndsKeeps
<1>13. ASSUME NEW a \in Agents, ResolveRollback(a) PROVE HandoffInv'
  <2>1. turns' = turns /\ holder' = holder /\ quiet' = quiet /\ cron' = cron /\ tickets' = tickets
        /\ agents' = [agents EXCEPT ![a].ticket = NoTicket]
    BY <1>13 DEF ResolveRollback, AgentDone
  <2>2. OneOpenTicket' /\ FreshInv'
    BY <1>0, <2>1, TicketsStay
  <2>3. ReadInv'
    BY <1>0, <2>1 DEF HandoffInv, ReadInv, TypeOK
  <2>4. QED  BY <1>0, <2>1, <2>2, <2>3, OthersStep DEF Open
<1>14. CASE SelectIdle \/ CloseIdle \/ CronRollback
  <2>1. turns' = turns /\ holder' = holder /\ quiet' = quiet /\ agents' = agents /\ tickets' = tickets
        /\ cron'.job # "stale"
    BY <1>14 DEF SelectIdle, CloseIdle, CronRollback, CronDone
  <2>2. OneOpenTicket' /\ FreshInv'
    BY <1>0, <2>1, TicketsStay
  <2>3. ReadInv'
    BY <2>1 DEF HandoffInv, ReadInv
  <2>4. QED  BY <1>0, <2>1, <2>2, <2>3, OthersStep DEF Open
<1>15. CASE CloseStale
  <2> DEFINE k == cron.ticket
  <2>1. turns' = turns /\ holder' = holder /\ agents' = agents
        /\ cron.job = "stale" /\ cron'.job = "none" /\ Ends(k, "CLOSED")
    BY <1>15 DEF CloseStale, CronDone
  <2>2. k \in Tickets /\ tickets[k] # "NONE"
    BY <2>1 DEF HandoffInv, ReadInv
  <2> HIDE DEF k
  <2>3. ReadInv'
    BY <1>0, <2>1, <2>2 DEF HandoffInv, ReadInv, TypeOK, Ends
  <2>4. QED  BY <1>0, <2>1, <2>2, <2>3, EndsKeeps
<1>16. CASE UNCHANGED vars
  BY <1>0, <1>16 DEF vars, HandoffInv, OneOpenTicket, FreshInv, ReadInv, AfterInsert,
      HandoverHasTicket, Open, Pc
<1>17. QED
  BY <1>1, <1>2, <1>3, <1>4, <1>5, <1>6, <1>7, <1>8, <1>9, <1>10, <1>11, <1>12, <1>13,
     <1>14, <1>15, <1>16
  DEF Next, TurnStep

-----------------------------------------------------------------------------
(* The theorems *)

LEMMA HandoffInvariant == Spec => []HandoffInv
BY InitHandoffInv, NextHandoffInv, PTL DEF Spec

\* Every state of the handoff has its type.
THEOREM HandoffTypeTheorem == Spec => []TypeOK
<1>1. HandoffInv => TypeOK
  BY DEF HandoffInv
<1>2. QED  BY <1>1, HandoffInvariant, PTL

\* However many turns call ensure_ticket at the same time, at most one ticket
\* of the session is open.
THEOREM OneTicketTheorem == Spec => []OneOpenTicket
<1>1. HandoffInv => OneOpenTicket
  BY DEF HandoffInv
<1>2. QED  BY <1>1, HandoffInvariant, PTL

\* The ticket that save_turn promises to a user who asked for a human, having
\* changed the row of dialog_state, is resolved or closed before its commit only
\* by a transaction that left the row as it was.
THEOREM HandoverTheorem == Spec => []HandoverHasTicket
<1>1. HandoffInv => HandoverHasTicket
  BY DEF HandoffInv
<1>2. QED  BY <1>1, HandoffInvariant, PTL

LEMMA StepKeepsEnded ==
    ASSUME HandoffInv, [Next]_vars,
           NEW k \in Tickets, tickets[k] \in {"RESOLVED", "CLOSED"}
    PROVE  tickets'[k] \in {"RESOLVED", "CLOSED"}
<1>1. ASSUME NEW t \in Turns, Commit(t) PROVE tickets'[k] = tickets[k]
  <2>1. ~(turns[t].fresh /\ turns[t].ticket = k)
    BY DEF HandoffInv, FreshInv
  <2>2. QED  BY <1>1, <2>1 DEF Commit
<1>2. ASSUME NEW t \in Turns,
             \/ \E kind \in Kinds : Begin(t, kind)
             \/ Lock(t) \/ Lookup(t) \/ Insert(t) \/ Unticketed(t) \/ Ensured(t) \/ Rollback(t)
      PROVE  tickets' = tickets
  BY <1>2 DEF Begin, Lock, Lookup, Insert, Unticketed, Ensured, Rollback
<1>3. ASSUME NEW l \in Tickets, Claim(l) \/ SelectStale(l) PROVE tickets'[k] = tickets[k]
  BY <1>3 DEF Claim, SelectStale, HandoffInv, TypeOK
<1>4. ASSUME NEW a \in Agents, \/ \E l \in Tickets : ResolveRead(a, l)
                               \/ ResolveCommit(a) \/ ResolveRollback(a)
      PROVE  tickets'[k] \in {"RESOLVED", "CLOSED"}
  BY <1>4 DEF ResolveRead, ResolveCommit, ResolveRollback, HandoffInv, TypeOK, Ends
<1>5. CASE SelectIdle \/ CloseStale \/ CloseIdle \/ CronRollback
  BY <1>5 DEF SelectIdle, CloseStale, CloseIdle, CronRollback, HandoffInv, TypeOK, Ends
<1>6. CASE UNCHANGED vars
  BY <1>6 DEF vars
<1>7. QED  BY <1>1, <1>2, <1>3, <1>4, <1>5, <1>6 DEF Next, TurnStep

\* A ticket that was resolved or closed is never open again, whatever was read
\* before it ended and is written after it.
THEOREM EndedTheorem == Spec => EndedStaysEnded
<1>1. HandoffInv /\ [Next]_vars
        => [\A k \in Tickets : tickets[k] \in {"RESOLVED", "CLOSED"}
              => tickets'[k] \in {"RESOLVED", "CLOSED"}]_vars
  BY StepKeepsEnded
<1>2. QED  BY <1>1, HandoffInvariant, PTL DEF Spec, EndedStaysEnded

-----------------------------------------------------------------------------
(* The question for a rating *)

Contexts == [state : {"IDLE", "WAITING", "HANDOFF"}, task : BOOLEAN,
             pending : Nat, streak : Nat]

Requesting == [kind : RA!Texts \cup {"silent"}, seen : Contexts, stale : BOOLEAN]

RatingTypes ==
    /\ context \in Contexts
    /\ talking \in [Turns -> Requesting \cup {RA!Idle}]
    /\ asked \in Nat
    /\ ratings \in [1..Questions -> Nat]
    /\ settled \in SUBSET Nat
    /\ unchecked \in BOOLEAN

\* The numbers of questions are used one after the other.
Numbered ==
    /\ context.pending =< asked
    /\ \A q \in settled : 0 < q /\ q =< asked
    /\ \A t \in Turns : talking[t].seen.pending =< asked

\* A turn that is not silent and over whose snapshot nothing was written has seen
\* the dialog state as it is; a silent one has seen no question.
Snapshots ==
    \A t \in Turns : talking[t] # RA!Idle =>
        IF talking[t].kind = "silent" THEN talking[t].seen.pending = 0
        ELSE talking[t].stale \/ talking[t].seen = context

\* Only what is settled was rated, once.
Rated ==
    unchecked \/ \A q \in 1..Questions : ratings[q] =< IF q \in settled THEN 1 ELSE 0

RatingInv ==
    /\ RatingTypes
    /\ Numbered
    /\ Snapshots
    /\ context.pending \notin settled
    /\ Rated

LEMMA Quiets ==
    /\ RA!Quiet \in Contexts /\ RA!Quiet.pending = 0
    /\ RA!Idle.seen = RA!Quiet /\ RA!Idle.kind = Nobody
BY DEF RA!Quiet, RA!Idle, Contexts

LEMMA InitRatingInv == RA!Init => RatingInv
<1> SUFFICES ASSUME RA!Init PROVE RatingInv
  OBVIOUS
<1>1. RatingTypes
  BY Quiets DEF RA!Init, RatingTypes
<1>2. \A t \in Turns : talking[t] = RA!Idle
  BY DEF RA!Init
<1>3. QED  BY <1>1, <1>2, Quiets DEF RA!Init, RatingInv, Numbered, Snapshots, Rated

LEMMA SmallerOfTwo ==
    ASSUME NEW m \in Nat, NEW n \in Nat PROVE RA!Min({m, n}) \in Nat
<1>1. \E x \in {m, n} : \A y \in {m, n} : x =< y
  OBVIOUS
<1>2. QED  BY <1>1 DEF RA!Min

\* What a turn writes is what was there, or has no question.
LEMMA WritesNoQuestion ==
    ASSUME NEW kind \in RA!Texts \cup {"silent"}, NEW seen \in Contexts, NEW base \in Contexts
    PROVE  /\ RA!Written(kind, seen, base) \in Contexts
           /\ RA!Passes(kind, seen) => RA!Written(kind, seen, base) = base
           /\ ~RA!Passes(kind, seen) => RA!Written(kind, seen, base).pending = 0
<1>1. RA!Min({seen.streak + 1, StreakLimit}) \in Nat
  BY SessionAssumption, SmallerOfTwo DEF RA!RatingsAssumption, Contexts
<1>2. CASE RA!Passes(kind, seen)
  BY <1>2 DEF RA!Written, RA!Passes, RA!Talk, RA!Texts
<1>3. CASE ~RA!Passes(kind, seen)
  BY <1>1, <1>3 DEF RA!Written, RA!Talk, RA!Texts, Contexts
<1>4. QED  BY <1>2, <1>3

\* The turns after t was saved.
LEMMA OutdatedTurns ==
    ASSUME RatingTypes, NEW t \in Turns, NEW written \in BOOLEAN,
           talking' = RA!Outdated(t, written)
    PROVE  /\ talking' \in [Turns -> Requesting \cup {RA!Idle}]
           /\ talking'[t] = RA!Idle
           /\ \A u \in Turns \ {t} : talking[u] = RA!Idle => talking'[u] = RA!Idle
           /\ \A u \in Turns \ {t} : talking[u] # RA!Idle =>
                 /\ talking'[u].kind = talking[u].kind
                 /\ talking'[u].seen = talking[u].seen
                 /\ talking'[u].stale = (talking[u].stale \/ written)
BY DEF RatingTypes, Requesting, RA!Outdated

\* The turns after the dialog was started over.
LEMMA StaleTurns ==
    ASSUME RatingTypes, talking' = RA!Stale
    PROVE  /\ talking' \in [Turns -> Requesting \cup {RA!Idle}]
           /\ \A u \in Turns : talking[u] = RA!Idle => talking'[u] = RA!Idle
           /\ \A u \in Turns : talking[u] # RA!Idle =>
                 /\ talking'[u].kind = talking[u].kind
                 /\ talking'[u].seen = talking[u].seen
                 /\ talking'[u].stale
BY DEF RatingTypes, Requesting, RA!Stale

LEMMA BeginRating ==
    ASSUME RatingInv, NEW t \in Turns, NEW text \in RA!Texts, RA!Begin(t, text)
    PROVE  RatingInv'
<1> DEFINE new == [kind |-> RA!Heard(text), stale |-> FALSE,
                   seen |-> IF bot = "handoff" THEN RA!Quiet ELSE context]
<1>1. RA!Heard(text) \in RA!Texts \cup {"silent"}
  BY DEF RA!Heard, RA!Texts, RA!Talk
<1>2. /\ new.kind = RA!Heard(text) /\ new.stale = FALSE
      /\ bot = "handoff" => new.kind = "silent" /\ new.seen.pending = 0
      /\ bot # "handoff" => new.kind # "silent" /\ new.seen = context
  BY Quiets DEF RA!Heard, RA!Texts, RA!Talk
<1>3. new \in Requesting
  BY <1>1, Quiets DEF RatingInv, RatingTypes, Requesting
<1>4. new.seen.pending =< asked
  BY Quiets, <1>2 DEF RatingInv, RatingTypes, Numbered
<1> HIDE DEF new
<1>5. talking' = [talking EXCEPT ![t] = new]
      /\ UNCHANGED <<context, asked, ratings, settled, unchecked>>
  BY DEF RA!Begin, new
<1>6. talking' \in [Turns -> Requesting \cup {RA!Idle}]
      /\ talking'[t] = new /\ \A u \in Turns \ {t} : talking'[u] = talking[u]
  BY <1>3, <1>5 DEF RatingInv, RatingTypes
<1>7. Numbered' /\ RatingTypes' /\ Rated' /\ context'.pending \notin settled'
  BY <1>4, <1>5, <1>6 DEF RatingInv, RatingTypes, Numbered, Rated
<1>8. Snapshots'
  <2>1. CASE bot = "handoff"
    BY <1>2, <1>5, <1>6, <2>1 DEF RatingInv, Snapshots
  <2>2. CASE bot # "handoff"
    BY <1>2, <1>5, <1>6, <2>2 DEF RatingInv, Snapshots
  <2>3. QED  BY <2>1, <2>2
<1>9. QED  BY <1>7, <1>8 DEF RatingInv

LEMMA SaveRating ==
    ASSUME RatingInv, NEW t \in Turns, NEW retained \in BOOLEAN, RA!Save(t, retained)
    PROVE  RatingInv'
<1> DEFINE turn == talking[t]
           seen == turn.seen
           base == IF retained THEN seen ELSE context
           new == RA!Written(turn.kind, seen, base)
<1>1. turn # RA!Idle /\ turn \in Requesting
  BY DEF RA!Save, RatingInv, RatingTypes
<1>2. turn.kind \in RA!Texts \cup {"silent"} /\ seen \in Contexts /\ base \in Contexts
      /\ turn.stale \in BOOLEAN /\ seen.pending \in Nat /\ seen.pending =< asked
  BY <1>1 DEF RatingInv, RatingTypes, Requesting, Contexts, Numbered
<1>3. /\ new \in Contexts
      /\ RA!Passes(turn.kind, seen) => new = base
      /\ ~RA!Passes(turn.kind, seen) => new.pending = 0
  BY <1>2, WritesNoQuestion
<1>4. RA!Passes(turn.kind, seen) => seen.pending = 0
  BY <1>1 DEF RA!Passes, RatingInv, Snapshots
<1>5. PICK written \in BOOLEAN :
         /\ new # base => written
         /\ written => ~RA!Conflicts(turn, retained) /\ (new # base \/ turn.kind \in RA!Talk)
         /\ context' = IF written THEN new ELSE context
         /\ talking' = RA!Outdated(t, written)
  BY DEF RA!Save
<1>6. /\ unchecked' = (unchecked \/ (turn.stale /\ ~retained))
      /\ settled' = settled \cup ({seen.pending} \ {0})
      /\ ratings' = [q \in 1..Questions |->
            IF turn.kind = "rating" /\ seen.pending = q THEN ratings[q] + 1 ELSE ratings[q]]
      /\ asked' = asked
  BY DEF RA!Save
<1> HIDE DEF new
<1>7. RatingTypes'
  <2>1. context' \in Contexts
    BY <1>3, <1>5 DEF RatingInv, RatingTypes
  <2>2. talking' \in [Turns -> Requesting \cup {RA!Idle}]
    BY <1>5, OutdatedTurns DEF RatingInv
  <2>3. settled' \in SUBSET Nat /\ unchecked' \in BOOLEAN /\ ratings' \in [1..Questions -> Nat]
        /\ asked' \in Nat
    <3>1. settled' \in SUBSET Nat
      BY <1>2, <1>6 DEF RatingInv, RatingTypes
    <3>2. ratings' \in [1..Questions -> Nat]
      BY <1>6 DEF RatingInv, RatingTypes
    <3>3. QED  BY <1>2, <1>6, <3>1, <3>2 DEF RatingInv, RatingTypes
  <2>4. QED  BY <2>1, <2>2, <2>3 DEF RatingTypes
<1>8. context'.pending = 0 \/ (context'.pending = context.pending /\ seen.pending = 0)
  <2>1. CASE RA!Passes(turn.kind, seen)
    <3>1. turn.kind \notin RA!Talk
      BY <2>1 DEF RA!Passes, RA!Talk
    <3>2. QED  BY <1>3, <1>4, <1>5, <2>1, <3>1
  <2>2. CASE ~RA!Passes(turn.kind, seen)
    BY <1>3, <1>5, <2>2
  <2>3. QED  BY <2>1, <2>2
<1>9. Numbered'
  BY <1>2, <1>5, <1>6, <1>7, <1>8, OutdatedTurns, Quiets DEF RatingInv, RatingTypes, Numbered, Contexts
<1>10. Snapshots'
  <2>1. ~written => context' = context
    BY <1>5
  <2>2. QED  BY <1>5, <2>1, OutdatedTurns DEF RatingInv, RatingTypes, Snapshots, Requesting
<1>11. context'.pending \notin settled'
  BY <1>6, <1>8 DEF RatingInv, Numbered
<1>12. Rated'
  <2> SUFFICES ASSUME ~unchecked', NEW q \in 1..Questions
               PROVE  ratings'[q] =< IF q \in settled' THEN 1 ELSE 0
    BY <1>7 DEF Rated, RatingTypes
  <2>1. ratings[q] \in Nat /\ ratings[q] =< IF q \in settled THEN 1 ELSE 0
    BY <1>6 DEF RatingInv, RatingTypes, Rated
  <2>2. CASE turn.kind = "rating" /\ seen.pending = q
    <3>1. ~RA!Passes(turn.kind, seen) /\ turn.kind # "silent"
      BY <2>2 DEF RA!Passes
    <3>2. ~turn.stale
      <4> SUFFICES ASSUME turn.stale, retained PROVE FALSE
        BY <1>6
      <4>1. base = seen /\ new.pending = 0 /\ seen.pending # 0
        BY <1>3, <2>2, <3>1, SessionAssumption DEF RA!RatingsAssumption
      <4>2. QED  BY <1>5, <4>1 DEF RA!Conflicts
    <3>3. seen = context
      BY <1>1, <3>1, <3>2 DEF RatingInv, Snapshots
    <3>4. q \notin settled /\ q \in settled'
      BY <1>6, <2>2, <3>3 DEF RatingInv
    <3>5. QED  BY <1>6, <2>1, <2>2, <3>4
  <2>3. CASE ~(turn.kind = "rating" /\ seen.pending = q)
    BY <1>6, <2>1, <2>3
  <2>4. QED  BY <2>2, <2>3
<1>13. QED  BY <1>7, <1>9, <1>10, <1>11, <1>12 DEF RatingInv

\* An agent or the cron job starts the dialog over.
LEMMA StartsOver ==
    ASSUME RatingInv, asked' \in {asked, asked + 1},
           context' \in Contexts, context'.pending = asked' \/ context'.pending = 0,
           context'.pending # 0 => asked' = asked + 1,
           talking' = RA!Stale, UNCHANGED <<ratings, settled, unchecked>>
    PROVE  RatingInv'
<1>1. asked \in Nat /\ context.pending =< asked /\ \A q \in settled : 0 < q /\ q =< asked
  BY DEF RatingInv, RatingTypes, Numbered
<1>2. RatingTypes'
  BY <1>1, StaleTurns DEF RatingInv, RatingTypes
<1>3. Numbered'
  BY <1>1, <1>2, StaleTurns, Quiets DEF RatingInv, RatingTypes, Numbered, Requesting, Contexts
<1>4. Snapshots'
  BY StaleTurns DEF RatingInv, RatingTypes, Snapshots
<1>5. context'.pending \notin settled'
  BY <1>1
<1>6. Rated'
  BY DEF RatingInv, RatingTypes, Rated
<1>7. QED  BY <1>2, <1>3, <1>4, <1>5, <1>6 DEF RatingInv

LEMMA NextRatingInv == RatingInv /\ [RA!Next]_RA!vars => RatingInv'
<1> SUFFICES ASSUME RatingInv, [RA!Next]_RA!vars PROVE RatingInv'
  OBVIOUS
<1>1. ASSUME NEW t \in Turns, NEW text \in RA!Texts, RA!Begin(t, text) PROVE RatingInv'
  BY <1>1, BeginRating
<1>2. ASSUME NEW t \in Turns, NEW retained \in BOOLEAN, RA!Save(t, retained) PROVE RatingInv'
  BY <1>2, SaveRating
<1>3. ASSUME NEW t \in Turns, RA!Rollback(t) PROVE RatingInv'
  BY <1>3, Quiets DEF RA!Rollback, RatingInv, RatingTypes, Numbered, Snapshots, Rated, Contexts
<1>4. CASE RA!Resolve
  BY <1>4, StartsOver, Quiets DEF RA!Resolve, RA!Asks, RatingInv, RatingTypes, Contexts
<1>5. CASE RA!CloseIdle
  BY <1>5, StartsOver, Quiets DEF RA!CloseIdle, RA!Asks, RatingInv, RatingTypes, Contexts
<1>6. CASE RA!CloseStale
  <2>1. context' \in Contexts /\ context'.pending = context.pending
    BY <1>6 DEF RA!CloseStale, RatingInv, RatingTypes, Contexts
  <2>2. UNCHANGED <<asked, ratings, settled, unchecked>>
    BY <1>6 DEF RA!CloseStale
  <2>3. CASE talking' = RA!Stale
    <3>1. RatingTypes'
      BY <2>1, <2>2, <2>3, StaleTurns DEF RatingInv, RatingTypes
    <3>2. Numbered'
      BY <2>1, <2>2, <2>3, StaleTurns, Quiets DEF RatingInv, RatingTypes, Numbered, Requesting, Contexts
    <3>3. Snapshots'
      BY <2>3, StaleTurns DEF RatingInv, RatingTypes, Snapshots
    <3>4. QED  BY <2>1, <2>2, <3>1, <3>2, <3>3 DEF RatingInv, Rated
  <2>4. CASE talking' = talking /\ context' = context
    BY <2>2, <2>4 DEF RatingInv, RatingTypes, Numbered, Snapshots, Rated
  <2>5. QED  BY <1>6, <2>3, <2>4 DEF RA!CloseStale
<1>7. CASE UNCHANGED RA!vars
  BY <1>7 DEF RA!vars, RatingInv, RatingTypes, Numbered, Snapshots, Rated
<1>8. QED  BY <1>1, <1>2, <1>3, <1>4, <1>5, <1>6, <1>7 DEF RA!Next

\* However turns, agents and the cron job overlap: no question outlives a turn that
\* has seen it, and none is rated twice where the version was checked.
THEOREM RatedOnceTheorem == RA!Spec => []RatedOnce
<1>1. RA!Init => RatingInv
  BY InitRatingInv
<1>2. RatingInv /\ [RA!Next]_RA!vars => RatingInv'
  BY NextRatingInv
<1>3. RatingInv => RatedOnce
  BY DEF RatingInv, RatingTypes, Rated, RatedOnce, RA!RatedOnce
<1>4. QED  BY <1>1, <1>2, <1>3, PTL DEF RA!Spec
=============================================================================
