--------------------------- MODULE ServicesProofs ---------------------------
(***************************************************************************)
(* For any number of deliveries, of processes and of web sockets, an event *)
(* becomes at most one message while its mark lives, and what is pushed to *)
(* a socket has been committed; for any limits and any number of clients,  *)
(* a window overshoots by the requests in flight at most; for any number   *)
(* of overlapping operations on a document, what is served of it is of one *)
(* content and is found, or flagged for repair; for any number of requests *)
(* on the cases of a customer, no priority is lost; and cutting a document *)
(* into passages loses nothing of it and comes nearer to its end with      *)
(* every step, however long the document and a passage are.                *)
(***************************************************************************)
EXTENDS Services, FiniteSetTheorems, WellFoundedInduction, TLAPS

Places == {"new", "mark", "consent", "verify", "commit", "ended"}

NoticesTypes ==
    /\ deliveries \in [Deliveries -> [pc : Places, at : Processes \cup {NoProcess}]]
    /\ messages \in SUBSET Deliveries
    /\ tasks \in [Processes -> SUBSET Deliveries]
    /\ inbox \in [Processes -> SUBSET Deliveries]
    /\ received \in [Clients -> SUBSET Deliveries]

\* The deliveries that passed the mark and may lead, or have led, to a message.
Claimed == messages \cup {d \in Deliveries : deliveries[d].pc \in {"consent", "verify", "commit"}}

\* The mark belongs to one delivery.
OneClaim ==
    /\ Claimed # {} => seen
    /\ \A d, e \in Claimed : d = e

\* Whatever is on its way to a socket was committed before.
OnTheWay ==
    /\ \A p \in Processes : tasks[p] \subseteq messages /\ inbox[p] \subseteq messages
    /\ PushedIsCommitted

NoticesInv ==
    /\ NoticesTypes
    /\ ~forgotten => OneClaim
    /\ OnTheWay

-----------------------------------------------------------------------------

LEMMA InitNoticesInv == Init => NoticesInv
BY DEF Init, NoticesInv, NoticesTypes, Places, OneClaim, Claimed, OnTheWay, PushedIsCommitted

LEMMA Moves ==
    ASSUME NoticesTypes, NEW d \in Deliveries, NEW pc \in Places, Goto(d, pc)
    PROVE  /\ deliveries' \in [Deliveries -> [pc : Places, at : Processes \cup {NoProcess}]]
           /\ deliveries'[d].pc = pc
           /\ \A e \in Deliveries \ {d} : deliveries'[e].pc = deliveries[e].pc
BY DEF NoticesTypes, Goto

\* A step of the webhook that writes no message and sends nothing.
LEMMA Delivering ==
    ASSUME NoticesInv, NEW d \in Deliveries, NEW b \in BOOLEAN,
           Mark(d) \/ AskConsent(d) \/ Verify(d, b) \/ Rollback(d)
    PROVE  NoticesInv'
<1>1. UNCHANGED <<messages, tasks, inbox, received, forgotten>>
  BY DEF Mark, AskConsent, Verify, Rollback, hub
<1>2. PICK pc \in {"consent", "verify", "commit", "ended"} : Goto(d, pc)
  BY DEF Mark, AskConsent, Verify, Rollback
<1>3. NoticesTypes' /\ OnTheWay'
  BY <1>1, <1>2, Moves DEF NoticesInv, NoticesTypes, OnTheWay, PushedIsCommitted, Places
<1>4. ASSUME ~forgotten PROVE OneClaim'
  <2>1. CASE Claimed' \subseteq Claimed
    <3>1. seen => seen'
      BY DEF Mark, AskConsent, Verify, Rollback
    <3>2. QED  BY <1>4, <2>1, <3>1 DEF OneClaim, NoticesInv
  <2>2. CASE ~(Claimed' \subseteq Claimed)
    <3>1. Mark(d) /\ redis /\ ~seen
      BY <1>1, <1>2, <2>2, Moves
      DEF Mark, AskConsent, Verify, Rollback, At, Goto, Claimed, NoticesInv, NoticesTypes, Places
    <3>2. Claimed = {} /\ seen'
      BY <1>4, <3>1 DEF OneClaim, NoticesInv, Mark
    <3>3. Claimed' \subseteq {d}
      BY <1>1, <1>2, <3>2, Moves DEF Claimed, NoticesInv, NoticesTypes, Places
    <3>4. QED  BY <3>2, <3>3 DEF OneClaim
  <2>3. QED  BY <2>1, <2>2
<1>5. QED  BY <1>1, <1>3, <1>4 DEF NoticesInv

LEMMA Committing ==
    ASSUME NoticesInv, NEW d \in Deliveries, Commit(d)
    PROVE  NoticesInv'
<1>1. /\ messages' = messages \cup {d} /\ Goto(d, "ended") /\ Schedule(deliveries[d].at, d)
      /\ UNCHANGED <<seen, forgotten, inbox, received>> /\ d \in Claimed
  BY DEF Commit, At, Claimed
<1>2. \A p \in Processes : tasks'[p] \subseteq tasks[p] \cup {d}
  BY <1>1 DEF Schedule, NoticesInv, NoticesTypes
<1>3. tasks' \in [Processes -> SUBSET Deliveries]
  BY <1>1 DEF Schedule, NoticesInv, NoticesTypes
<1>4. NoticesTypes'
  BY <1>1, <1>3, Moves DEF NoticesInv, NoticesTypes, Places
<1>5. OnTheWay'
  BY <1>1, <1>2 DEF NoticesInv, OnTheWay, PushedIsCommitted
<1>6. Claimed' \subseteq Claimed
  BY <1>1, Moves DEF Claimed, NoticesInv, Places
<1>7. QED  BY <1>1, <1>4, <1>5, <1>6 DEF NoticesInv, OneClaim

\* A step of the hub: it moves what has been committed.
LEMMA Hub ==
    ASSUME NoticesInv, UNCHANGED <<messages, forgotten, seen, deliveries>>,
           tasks' \in [Processes -> SUBSET Deliveries], inbox' \in [Processes -> SUBSET Deliveries],
           received' \in [Clients -> SUBSET Deliveries],
           \A p \in Processes : tasks'[p] \subseteq messages /\ inbox'[p] \subseteq messages,
           \A c \in Clients : received'[c] \subseteq messages
    PROVE  NoticesInv'
BY DEF NoticesInv, NoticesTypes, OneClaim, Claimed, OnTheWay, PushedIsCommitted

LEMMA Sending ==
    ASSUME NoticesInv, NEW p \in Processes, NEW d \in messages, SendTo(p, d)
    PROVE  /\ received' \in [Clients -> SUBSET Deliveries]
           /\ \A c \in Clients : received'[c] \subseteq messages
BY DEF NoticesInv, NoticesTypes, OnTheWay, PushedIsCommitted, SendTo

LEMMA HubStep ==
    ASSUME NoticesInv,
           \/ \E p \in Processes : \/ Subscribe(p)
                                   \/ \E c \in Clients : Connect(c, p)
                                   \/ \E d \in Deliveries : Dispatch(p, d)
                                   \/ \E d \in Deliveries, b \in BOOLEAN : Publish(p, d, b)
           \/ \E c \in Clients : Disconnect(c)
           \/ OptOut \/ Outage \/ RedisReturns
    PROVE  NoticesInv'
<1>1. ASSUME UNCHANGED <<messages, forgotten, seen, deliveries, tasks, inbox, received>>
      PROVE  NoticesInv'
  BY <1>1, Hub DEF NoticesInv, NoticesTypes, OnTheWay, PushedIsCommitted
<1>2. ASSUME NEW p \in Processes, NEW d \in Deliveries, Dispatch(p, d) PROVE NoticesInv'
  <2>1. d \in messages
    BY <1>2 DEF Dispatch, NoticesInv, OnTheWay
  <2>2. \A q \in Processes : inbox'[q] \subseteq inbox[q]
    BY <1>2 DEF Dispatch, NoticesInv, NoticesTypes
  <2>3. inbox' \in [Processes -> SUBSET Deliveries]
    BY <1>2 DEF Dispatch, NoticesInv, NoticesTypes
  <2>4. QED
    BY <1>2, <2>1, <2>2, <2>3, Sending, Hub DEF Dispatch, webhook, NoticesInv, NoticesTypes, OnTheWay
<1>3. ASSUME NEW p \in Processes, NEW d \in Deliveries, NEW b \in BOOLEAN, Publish(p, d, b)
      PROVE  NoticesInv'
  <2>1. d \in messages
    BY <1>3 DEF Publish, NoticesInv, OnTheWay
  <2>2. tasks' \in [Processes -> SUBSET Deliveries] /\ \A q \in Processes : tasks'[q] \subseteq tasks[q]
    BY <1>3 DEF Publish, NoticesInv, NoticesTypes
  <2>3. inbox' \in [Processes -> SUBSET Deliveries]
        /\ \A q \in Processes : inbox'[q] \subseteq inbox[q] \cup {d}
    BY <1>3 DEF Publish, NoticesInv, NoticesTypes
  <2>4. received' \in [Clients -> SUBSET Deliveries] /\ \A c \in Clients : received'[c] \subseteq messages
    BY <1>3, <2>1, Sending DEF Publish, NoticesInv, NoticesTypes, OnTheWay, PushedIsCommitted
  <2>5. UNCHANGED <<messages, forgotten, seen, deliveries>>
    BY <1>3 DEF Publish, webhook
  <2>6. QED
    BY <2>1, <2>2, <2>3, <2>4, <2>5, Hub DEF NoticesInv, OnTheWay
<1>4. QED
  BY <1>1, <1>2, <1>3
  DEF Subscribe, Connect, Disconnect, OptOut, Outage, RedisReturns, webhook, hub

LEMMA NextNoticesInv == NoticesInv /\ [Next]_vars => NoticesInv'
<1> SUFFICES ASSUME NoticesInv, [Next]_vars PROVE NoticesInv'
  OBVIOUS
<1>1. ASSUME NEW d \in Deliveries, NEW p \in Processes, Deliver(d, p) PROVE NoticesInv'
  <2>1. UNCHANGED <<messages, tasks, inbox, received, forgotten, seen>>
    BY <1>1 DEF Deliver, hub
  <2>2. deliveries' \in [Deliveries -> [pc : Places, at : Processes \cup {NoProcess}]]
        /\ Claimed' \subseteq Claimed
    BY <1>1, <2>1 DEF Deliver, At, Claimed, NoticesInv, NoticesTypes, Places
  <2>3. QED
    BY <2>1, <2>2 DEF NoticesInv, NoticesTypes, OneClaim, OnTheWay, PushedIsCommitted
<1>2. ASSUME NEW d \in Deliveries, NEW b \in BOOLEAN,
             Mark(d) \/ AskConsent(d) \/ Verify(d, b) \/ Rollback(d)
      PROVE  NoticesInv'
  BY <1>2, Delivering
<1>3. ASSUME NEW p \in Processes, Restart(p) PROVE NoticesInv'
  <2>1. UNCHANGED <<messages, received, forgotten, seen>>
    BY <1>3 DEF Restart
  <2>2. deliveries' \in [Deliveries -> [pc : Places, at : Processes \cup {NoProcess}]]
        /\ Claimed' \subseteq Claimed
    BY <1>3, <2>1 DEF Restart, Claimed, NoticesInv, NoticesTypes, Places
  <2>3. /\ tasks' \in [Processes -> SUBSET Deliveries] /\ inbox' \in [Processes -> SUBSET Deliveries]
        /\ \A q \in Processes : tasks'[q] \subseteq tasks[q] /\ inbox'[q] \subseteq inbox[q]
    BY <1>3 DEF Restart, NoticesInv, NoticesTypes
  <2>4. QED
    BY <2>1, <2>2, <2>3 DEF NoticesInv, NoticesTypes, OneClaim, OnTheWay, PushedIsCommitted
<1>4. CASE MarkExpires
  BY <1>4 DEF MarkExpires, hub, NoticesInv, NoticesTypes, OnTheWay, PushedIsCommitted
<1>5. CASE UNCHANGED vars
  BY <1>5 DEF vars, NoticesInv, NoticesTypes, OneClaim, Claimed, OnTheWay, PushedIsCommitted
<1>6. QED
  BY <1>1, <1>2, <1>3, <1>4, <1>5, Committing, HubStep DEF Next

LEMMA NoticesInvInvariant == Spec => []NoticesInv
<1>1. Init => NoticesInv
  BY InitNoticesInv
<1>2. NoticesInv /\ [Next]_vars => NoticesInv'
  BY NextNoticesInv
<1>3. QED  BY <1>1, <1>2, PTL DEF Spec

-----------------------------------------------------------------------------

\* However often an event is delivered, the user gets at most one message for it
\* while its mark lives.
THEOREM OneMessageTheorem == Spec => []OneMessage
<1>1. NoticesInv => OneMessage
  <2> SUFFICES ASSUME NoticesInv, ~forgotten PROVE Cardinality(messages) =< 1
    BY DEF OneMessage
  <2>1. CASE messages = {}
    BY <2>1, FS_EmptySet
  <2>2. CASE messages # {}
    <3>1. PICK d \in messages : messages = {d}
      BY <2>2 DEF NoticesInv, OneClaim, Claimed
    <3>2. Cardinality({d}) = 1
      BY FS_Singleton
    <3>3. QED  BY <3>1, <3>2
  <2>3. QED  BY <2>1, <2>2
<1>2. QED  BY <1>1, NoticesInvInvariant, PTL

\* No push comes before the commit of its message, or without it.
THEOREM PushTheorem == Spec => []PushedIsCommitted
<1>1. NoticesInv => PushedIsCommitted
  BY DEF NoticesInv, OnTheWay
<1>2. QED  BY <1>1, NoticesInvInvariant, PTL

-----------------------------------------------------------------------------
(* The rate limit *)

\* The operators of the instance are those of the library's theorems.
LEMMA SameCardinality == \A S : RL!Cardinality(S) = Cardinality(S)
BY DEF RL!Cardinality, Cardinality

LEMMA SameFinite == \A S : RL!IsFiniteSet(S) <=> IsFiniteSet(S)
BY DEF RL!IsFiniteSet, IsFiniteSet

LEMMA TwoScopes ==
    /\ RL!Scopes = {"tenant", "session"}
    /\ \A s \in RL!Scopes : RL!Limits[s] \in Nat
BY ServicesAssumption DEF RL!LimitsAssumption, RL!Scopes, RL!Limits

RateTypes ==
    /\ window \in [RL!Scopes -> Nat]
    /\ clients \in [Senders -> [pc : {"count", "extend", "refused", "admitted"},
                                scope : RL!Scopes, left : Nat]]

\* The bound is inductive: a client that counts adds itself to those that are about
\* to extend a window while the window has a free place.
RateInv == RateTypes /\ BoundedOvershoot

Headcount == Cardinality(Senders)

LEMMA SomeSenders == Headcount \in Nat /\ Headcount > 0 /\ IsFiniteSet(Senders)
BY ServicesAssumption, SameFinite, FS_CardinalityType, FS_EmptySet
DEF RL!LimitsAssumption, Headcount

LEMMA Overshoot ==
    BoundedOvershoot <=>
       \A s \in RL!Scopes : window[s] + Cardinality(RL!Extending(s)) =< RL!Limits[s] + Headcount - 1
BY SameCardinality DEF BoundedOvershoot, RL!BoundedOvershoot, Headcount

LEMMA OvershootNext ==
    BoundedOvershoot' <=>
       \A s \in RL!Scopes : window'[s] + Cardinality(RL!Extending(s)') =< RL!Limits[s] + Headcount - 1
BY SameCardinality DEF BoundedOvershoot, RL!BoundedOvershoot, Headcount

LEMMA FiniteExtending ==
    /\ \A s : IsFiniteSet(RL!Extending(s)) /\ Cardinality(RL!Extending(s)) \in Nat
    /\ \A s : IsFiniteSet(RL!Extending(s)') /\ Cardinality(RL!Extending(s)') \in Nat
<1>1. \A S \in SUBSET Senders : IsFiniteSet(S) /\ Cardinality(S) \in Nat
  BY SomeSenders, FS_Subset, FS_CardinalityType
<1>2. QED  BY <1>1 DEF RL!Extending

\* A step after which no more clients are about to extend a window, and no window
\* has more entries.
LEMMA Eases ==
    ASSUME RateInv, RateTypes', NEW s \in RL!Scopes,
           RL!Extending(s)' \subseteq RL!Extending(s), window'[s] =< window[s]
    PROVE  window'[s] + Cardinality(RL!Extending(s)') =< RL!Limits[s] + Headcount - 1
<1>1. Cardinality(RL!Extending(s)') =< Cardinality(RL!Extending(s))
  BY FiniteExtending, FS_Subset
<1>2. QED
  BY <1>1, Overshoot, FiniteExtending, TwoScopes, SomeSenders DEF RateInv, RateTypes

LEMMA RateStep ==
    ASSUME RateInv, [RL!Next]_RL!vars
    PROVE  RateInv'
<1> USE TwoScopes, SomeSenders
<1>1. ASSUME NEW c \in Senders, RL!Count(c) PROVE RateInv'
  <2>1. PICK s \in RL!Scopes : s = clients[c].scope /\ c \notin RL!Extending(s)
    BY <1>1 DEF RateInv, RateTypes, RL!Count, RL!Extending
  <2>2. RateTypes'
    <3>1. PICK pc \in {"extend", "refused"} : RL!Go(c, pc, s)
      BY <1>1, <2>1 DEF RL!Count
    <3>2. UNCHANGED window
      BY <1>1 DEF RL!Count
    <3>3. QED  BY <3>1, <3>2 DEF RateInv, RateTypes, RL!Go
  <2>3. \A r \in RL!Scopes \ {s} : RL!Extending(r)' \subseteq RL!Extending(r) /\ window'[r] = window[r]
    BY <1>1, <2>1 DEF RateInv, RateTypes, RL!Count, RL!Go, RL!Extending
  <2>4. CASE window[s] < RL!Limits[s]
    <3>1. Cardinality(RL!Extending(s)') =< Headcount
      BY FS_Subset DEF RL!Extending, Headcount
    <3>2. window'[s] = window[s] /\ window[s] \in Nat
      BY <1>1, <2>1 DEF RL!Count, RateInv, RateTypes
    <3>3. window'[s] + Cardinality(RL!Extending(s)') =< RL!Limits[s] + Headcount - 1
      BY <2>1, <2>4, <3>1, <3>2, FiniteExtending
    <3>4. QED  BY <2>2, <2>3, <3>3, Eases, OvershootNext DEF RateInv, RateTypes
  <2>5. CASE ~(window[s] < RL!Limits[s])
    <3>1. RL!Extending(s)' \subseteq RL!Extending(s) /\ window'[s] = window[s]
      BY <1>1, <2>1, <2>5 DEF RateInv, RateTypes, RL!Count, RL!Go, RL!Extending
    <3>2. QED  BY <2>1, <2>2, <2>3, <3>1, Eases, OvershootNext DEF RateInv, RateTypes
  <2>6. QED  BY <2>4, <2>5
<1>2. ASSUME NEW c \in Senders, RL!Extend(c) PROVE RateInv'
  <2>1. PICK s \in RL!Scopes : s = clients[c].scope /\ c \in RL!Extending(s)
    BY <1>2 DEF RateInv, RateTypes, RL!Extend, RL!Extending
  <2>2. RateTypes'
    BY <1>2, <2>1 DEF RateInv, RateTypes, RL!Extend, RL!Passed, RL!Go
  <2>3. \A r \in RL!Scopes \ {s} : RL!Extending(r)' \subseteq RL!Extending(r) /\ window'[r] = window[r]
    BY <1>2, <2>1 DEF RateInv, RateTypes, RL!Extend, RL!Passed, RL!Go, RL!Extending
  <2>4. RL!Extending(s)' = RL!Extending(s) \ {c} /\ window'[s] = window[s] + 1 /\ window[s] \in Nat
    BY <1>2, <2>1 DEF RateInv, RateTypes, RL!Extend, RL!Passed, RL!Go, RL!Extending
  <2>5. Cardinality(RL!Extending(s)') = Cardinality(RL!Extending(s)) - 1
    BY <2>1, <2>4, FiniteExtending, FS_RemoveElement
  <2>6. window'[s] + Cardinality(RL!Extending(s)') =< RL!Limits[s] + Headcount - 1
    BY <2>1, <2>4, <2>5, Overshoot, FiniteExtending DEF RateInv
  <2>7. QED  BY <2>2, <2>3, <2>6, Eases, OvershootNext DEF RateInv, RateTypes
<1>3. ASSUME RateTypes',
             \A s \in RL!Scopes : RL!Extending(s)' \subseteq RL!Extending(s) /\ window'[s] =< window[s]
      PROVE  RateInv'
  BY <1>3, Eases, OvershootNext DEF RateInv
<1>4. ASSUME NEW c \in Senders, RL!Unchecked(c) \/ RL!Retry(c) \/ RL!SendNext(c) PROVE RateInv'
  <2>1. RateTypes'
    BY <1>4 DEF RateInv, RateTypes, RL!Unchecked, RL!Retry, RL!SendNext, RL!Passed, RL!Go
  <2>2. \A s \in RL!Scopes : RL!Extending(s)' \subseteq RL!Extending(s) /\ window'[s] =< window[s]
    BY <1>4 DEF RateInv, RateTypes, RL!Unchecked, RL!Retry, RL!SendNext, RL!Passed, RL!Go, RL!Extending
  <2>3. QED  BY <1>3, <2>1, <2>2
<1>5. ASSUME NEW s \in RL!Scopes, RL!Slide(s) PROVE RateInv'
  <2>1. RateTypes' /\ \A r \in RL!Scopes : RL!Extending(r)' \subseteq RL!Extending(r) /\ window'[r] =< window[r]
    BY <1>5 DEF RateInv, RateTypes, RL!Slide, RL!Extending
  <2>2. QED  BY <1>3, <2>1
<1>6. CASE UNCHANGED RL!vars
  <2>1. RateTypes' /\ \A r \in RL!Scopes : RL!Extending(r)' \subseteq RL!Extending(r) /\ window'[r] =< window[r]
    BY <1>6 DEF RateInv, RateTypes, RL!vars, RL!Extending
  <2>2. QED  BY <1>3, <2>1
<1>7. QED
  BY <1>1, <1>2, <1>4, <1>5, <1>6 DEF RL!Next

\* Whatever overlaps, fails or expires, a window exceeds its limit by less than the
\* number of clients that send at the same time.
THEOREM OvershootTheorem == RL!Spec => []BoundedOvershoot
<1>1. RL!Init => RateInv
  <2> SUFFICES ASSUME RL!Init PROVE RateInv
    OBVIOUS
  <2>1. RateTypes /\ \A s \in RL!Scopes : RL!Extending(s) = {} /\ window[s] = 0
    BY TwoScopes, ServicesAssumption DEF RL!Init, RateTypes, RL!Extending, RL!LimitsAssumption
  <2>2. ASSUME NEW s \in RL!Scopes
        PROVE  window[s] + Cardinality(RL!Extending(s)) =< RL!Limits[s] + Headcount - 1
    <3>1. window[s] = 0 /\ Cardinality(RL!Extending(s)) = 0
      BY <2>1, FS_EmptySet
    <3>2. QED  BY <3>1, TwoScopes, SomeSenders
  <2>3. BoundedOvershoot
    BY <2>2, Overshoot
  <2>4. QED  BY <2>1, <2>3 DEF RateInv
<1>2. RateInv /\ [RL!Next]_RL!vars => RateInv'
  BY RateStep
<1>3. RateInv => BoundedOvershoot
  BY DEF RateInv
<1>4. QED  BY <1>1, <1>2, <1>3, PTL DEF RL!Spec

-----------------------------------------------------------------------------
(* The knowledge base *)

Columns == {"status", "content", "published", "effective", "flag"}
Fields == {"pc", "kind", "read", "want", "added", "locks", "gone", "gen"}

IsRow(row) == DOMAIN row = Columns /\ row.flag \in BOOLEAN

IsTx(tx) ==
    /\ DOMAIN tx = Fields
    /\ tx.pc \in {"update", "delete", "index", "finish"}
    /\ tx.kind \in {"plain", "publish", "scheduled", "disable"}
    /\ IsRow(tx.read) /\ IsRow(tx.want)
    /\ tx.locks \in BOOLEAN
    /\ tx.locks => tx.pc # "update"
    /\ tx.kind = "plain" => tx.pc = "finish" /\ ~tx.locks /\ tx.want.flag = tx.read.flag
    /\ tx.kind = "disable" => tx.pc # "delete"
    /\ ~KB!Publishes(tx) => tx.want.published = tx.read.published

KbTypes ==
    /\ DOMAIN docTxs = KbWorkers
    /\ \A w \in KbWorkers : KB!Begun(docTxs[w]) => IsTx(docTxs[w])
    /\ doc # KB!NoDoc => IsRow(doc)
    /\ doc = KB!NoDoc =>
          chunks = {} /\ repair = KB!NoRepair /\ \A w \in KbWorkers : docTxs[w] = KB!Idle
    /\ DOMAIN repair = {"pc", "seen", "clean"} /\ repair.clean \in BOOLEAN
    /\ unlocked \in BOOLEAN /\ halved \in BOOLEAN /\ strayed \in BOOLEAN

\* The transactions that replace or remove chunks, past the flush of the row.
Rebuilding == {w \in KB!InFlight : docTxs[w].kind # "plain" /\ docTxs[w].pc # "update"}

\* They exclude each other by the lock of the row, so that the chunks a publication
\* deletes are still all there are when it commits, and the vectors it wrote are
\* still in the index.
RowLock ==
    /\ Rebuilding \subseteq KB!Holders
    /\ \A v, w \in KB!Holders : v = w
    /\ \A w \in KB!InFlight : KB!Publishes(docTxs[w]) =>
          /\ docTxs[w].pc \in {"index", "finish"} => docTxs[w].gone = chunks
          /\ docTxs[w].pc = "finish" /\ ~docTxs[w].want.flag => docTxs[w].gen \in index

\* A document that was published has chunks, all of one generation, or lost them to
\* a scheduled publication that was committed half done.
Whole ==
    /\ doc # KB!NoDoc /\ doc.published # 0 => chunks # {} \/ halved
    /\ ~unlocked => \A g, h \in chunks : g = h

\* Findable, also while the document is not served: an archived one comes back.
Found ==
    \/ strayed \/ unlocked
    \/ doc # KB!NoDoc /\ doc.flag
    \/ \E w \in Rebuilding : docTxs[w].pc = "finish"
    \/ chunks \subseteq index

\* What a repair that nothing disturbs may rely on when it clears the flag.
Repairing ==
    repair.clean => /\ KB!Rebuilders = {}
                    /\ repair.pc = "clear" => repair.seen \subseteq index

KbInv ==
    /\ KbTypes
    /\ ~unlocked => RowLock
    /\ Whole
    /\ Found
    /\ Repairing

-----------------------------------------------------------------------------

LEMMA NotIdle ==
    /\ \A tx : IsTx(tx) => KB!Begun(tx)
    /\ ~KB!Begun(KB!Idle) /\ ~KB!Begun(KB!Selected)
    /\ \A row : IsRow(row) => row # KB!NoDoc
BY DEF IsTx, IsRow, Fields, Columns, KB!Begun, KB!Idle, KB!Selected, KB!NoDoc

\* A step that moves the transaction of one worker.
LEMMA OneMoves ==
    ASSUME KbTypes, NEW w \in KbWorkers, NEW tx, docTxs' = [docTxs EXCEPT ![w] = tx]
    PROVE  /\ DOMAIN docTxs' = KbWorkers
           /\ docTxs'[w] = tx
           /\ \A v \in KbWorkers \ {w} : docTxs'[v] = docTxs[v]
BY DEF KbTypes

\* What the sets of workers become.
LEMMA OthersStay ==
    ASSUME NEW w \in KbWorkers, \A v \in KbWorkers \ {w} : docTxs'[v] = docTxs[v]
    PROVE  /\ \A v \in KbWorkers \ {w} : /\ v \in KB!InFlight' <=> v \in KB!InFlight
                                         /\ v \in KB!Holders' <=> v \in KB!Holders
                                         /\ v \in Rebuilding' <=> v \in Rebuilding
           /\ w \in KB!InFlight' <=> KB!Begun(docTxs'[w])
           /\ w \in KB!Holders' <=> KB!Begun(docTxs'[w]) /\ docTxs'[w].locks
           /\ w \in Rebuilding' <=> /\ KB!Begun(docTxs'[w])
                                    /\ docTxs'[w].kind # "plain" /\ docTxs'[w].pc # "update"
BY DEF KB!InFlight, KB!Holders, Rebuilding

LEMMA KbInit == KB!Init => KbInv
<1> SUFFICES ASSUME KB!Init PROVE KbInv
  OBVIOUS
<1>1. /\ docTxs = [w \in KbWorkers |-> KB!Idle] /\ index = chunks /\ repair = KB!NoRepair
      /\ unlocked = FALSE /\ halved = FALSE /\ strayed = FALSE
  BY DEF KB!Init
<1>2. \/ doc = KB!NoDoc /\ chunks = {}
      \/ IsRow(doc) /\ doc # KB!NoDoc /\ \E g : chunks = {g}
  BY NotIdle DEF KB!Init, KB!NewDoc, IsRow, Columns
<1>3. KB!InFlight = {} /\ KB!Holders = {} /\ Rebuilding = {}
  BY <1>1, NotIdle DEF KB!InFlight, KB!Holders, Rebuilding
<1>4. KbTypes
  BY <1>1, <1>2, NotIdle DEF KbTypes, KB!NoRepair
<1>5. RowLock /\ Whole /\ Found /\ Repairing
  BY <1>1, <1>2, <1>3 DEF RowLock, Whole, Found, Repairing, KB!NoRepair
<1>6. QED  BY <1>4, <1>5 DEF KbInv

LEMMA RebuildersEmpty ==
    KB!Rebuilders = {} <=> \A w \in KB!InFlight : docTxs[w].kind = "plain"
BY DEF KB!Rebuilders

\* A step that leaves the repair alone while a clean one would have nothing to fear.
LEMMA RepairStays ==
    ASSUME KbInv, UNCHANGED repair,
           repair.clean => /\ \A w \in KB!InFlight' : w \in KB!InFlight /\ docTxs'[w].kind = docTxs[w].kind
                           /\ UNCHANGED index
    PROVE  Repairing'
<1> SUFFICES ASSUME repair.clean PROVE KB!Rebuilders' = {} /\ (repair.pc = "clear" => repair.seen \subseteq index)
  BY DEF Repairing
<1>1. \A w \in KB!InFlight : docTxs[w].kind = "plain"
  BY DEF KbInv, Repairing, KB!Rebuilders
<1>2. \A w \in KB!InFlight' : docTxs'[w].kind = "plain"
  BY <1>1
<1>3. QED  BY <1>2 DEF KbInv, Repairing, KB!Rebuilders

LEMMA Begins ==
    ASSUME KbInv, NEW w \in KbWorkers, NEW kind \in {"plain", "publish", "scheduled", "disable"},
           NEW want, NEW added, KB!Start(w, kind, want, added), ~KB!Begun(docTxs[w]),
           IsRow(want), kind = "plain" => want.flag = doc.flag,
           kind \notin {"publish", "scheduled"} => want.published = doc.published
    PROVE  KbInv'
<1>1. PICK tx : docTxs' = [docTxs EXCEPT ![w] = tx] /\ IsTx(tx) /\ ~tx.locks /\ tx.kind = kind
               /\ (tx.pc = "update" \/ tx.kind = "plain")
  <2> DEFINE tx == [pc |-> IF kind = "plain" THEN "finish" ELSE "update", kind |-> kind,
                    read |-> doc, want |-> want, added |-> added, locks |-> FALSE,
                    gone |-> {}, gen |-> KB!Generation(want.content, docLeft)]
  <2>1. docTxs' = [docTxs EXCEPT ![w] = tx]
    BY DEF KB!Start
  <2>2. IsTx(tx) /\ ~tx.locks /\ tx.kind = kind /\ (tx.pc = "update" \/ tx.kind = "plain")
    BY DEF IsTx, Fields, KB!Publishes, KB!Start, KbInv, KbTypes
  <2>3. QED  BY <2>1, <2>2
<1>2. /\ UNCHANGED <<doc, chunks, index, unlocked, halved, strayed>> /\ doc # KB!NoDoc
      /\ ~KB!Begun(docTxs[w])
      /\ repair' = [repair EXCEPT !.clean = @ /\ kind = "plain"]
  BY DEF KB!Start
<1>3. /\ DOMAIN docTxs' = KbWorkers /\ docTxs'[w] = tx
      /\ \A v \in KbWorkers \ {w} : docTxs'[v] = docTxs[v]
  BY <1>1, OneMoves DEF KbInv
<1>4. KbTypes'
  BY <1>1, <1>2, <1>3 DEF KbInv, KbTypes
<1>5. Rebuilding' = Rebuilding /\ KB!Holders' = KB!Holders /\ KB!InFlight' = KB!InFlight \cup {w}
  BY <1>1, <1>2, <1>3, NotIdle DEF Rebuilding, KB!InFlight, KB!Holders
<1>6. ~unlocked => RowLock'
  BY <1>1, <1>2, <1>3, <1>5 DEF KbInv, RowLock, KB!InFlight, KB!Publishes
<1>7. Whole' /\ Found'
  BY <1>2, <1>3, <1>5 DEF KbInv, Whole, Found, Rebuilding, KB!InFlight
<1>8. Repairing'
  <2> SUFFICES ASSUME repair'.clean
      PROVE  KB!Rebuilders' = {} /\ (repair'.pc = "clear" => repair'.seen \subseteq index')
    BY DEF Repairing
  <2>1. repair.clean /\ kind = "plain" /\ repair'.pc = repair.pc /\ repair'.seen = repair.seen
    BY <1>2 DEF KbInv, KbTypes
  <2>2. \A v \in KB!InFlight : docTxs[v].kind = "plain"
    BY <2>1 DEF KbInv, Repairing, KB!Rebuilders
  <2>3. \A v \in KB!InFlight' : docTxs'[v].kind = "plain"
    BY <1>1, <1>3, <1>5, <2>1, <2>2 DEF KB!InFlight
  <2>4. QED  BY <1>2, <2>1, <2>3 DEF KbInv, Repairing, KB!Rebuilders
<1>9. QED  BY <1>2, <1>4, <1>6, <1>7, <1>8 DEF KbInv

LEMMA Locks ==
    ASSUME KbInv, NEW w \in KbWorkers, KB!Lock(w)
    PROVE  KbInv'
<1>1. PICK changes \in BOOLEAN :
         /\ docTxs' = [docTxs EXCEPT ![w].pc = IF KB!Publishes(docTxs[w]) THEN "delete" ELSE "index",
                                     ![w].locks = changes]
         /\ changes => KB!Holders = {}
         /\ unlocked' = (unlocked \/ ~changes)
  BY DEF KB!Lock
<1>2. UNCHANGED <<doc, chunks, index, repair, halved, strayed>> /\ docTxs[w].pc = "update"
  BY DEF KB!Lock
<1>3. IsTx(docTxs[w]) /\ KB!Begun(docTxs[w]) /\ docTxs[w].kind # "plain" /\ doc # KB!NoDoc
  BY <1>2 DEF KbInv, KbTypes, KB!Begun, KB!Idle, KB!Selected, IsTx
<1>4. PICK tx : /\ docTxs' = [docTxs EXCEPT ![w] = tx] /\ IsTx(tx) /\ tx.kind = docTxs[w].kind
                /\ tx.pc \in {"delete", "index"} /\ tx.locks = changes
                /\ KB!Publishes(tx) => tx.pc = "delete"
  <2> DEFINE tx == [docTxs[w] EXCEPT !.pc = IF KB!Publishes(docTxs[w]) THEN "delete" ELSE "index",
                                     !.locks = changes]
  <2>1. docTxs' = [docTxs EXCEPT ![w] = tx]
    BY <1>1 DEF KbInv, KbTypes
  <2>2. /\ IsTx(tx) /\ tx.kind = docTxs[w].kind /\ tx.pc \in {"delete", "index"} /\ tx.locks = changes
        /\ KB!Publishes(tx) => tx.pc = "delete"
    BY <1>3 DEF IsTx, Fields, KB!Publishes
  <2>3. QED  BY <2>1, <2>2
<1>5. /\ DOMAIN docTxs' = KbWorkers /\ docTxs'[w] = tx /\ KB!Begun(tx)
      /\ \A v \in KbWorkers \ {w} : docTxs'[v] = docTxs[v]
  BY <1>4, OneMoves, NotIdle DEF KbInv
<1>6. KbTypes'
  BY <1>1, <1>2, <1>3, <1>4, <1>5 DEF KbInv, KbTypes
<1>7. ASSUME ~unlocked' PROVE RowLock'
  <2>1. ~unlocked /\ tx.locks /\ KB!Holders = {} /\ Rebuilding = {}
    BY <1>1, <1>4, <1>7 DEF KbInv, KbTypes, RowLock
  <2>2. KB!Holders' = {w} /\ Rebuilding' \subseteq {w}
    BY <1>5, <2>1, OthersStay DEF KB!Holders, Rebuilding, KB!InFlight
  <2>3. \A v \in KB!InFlight' \ {w} : v \in KB!InFlight /\ docTxs'[v] = docTxs[v]
    BY <1>5 DEF KB!InFlight
  <2>4. QED
    BY <1>2, <1>4, <1>5, <2>1, <2>2, <2>3 DEF KbInv, RowLock
<1>8. Whole' /\ Found'
  <2>1. Rebuilding \subseteq Rebuilding' /\ \A v \in Rebuilding : docTxs'[v] = docTxs[v]
    BY <1>2, <1>5 DEF Rebuilding, KB!InFlight
  <2>2. QED
    BY <1>1, <1>2, <2>1 DEF KbInv, KbTypes, Whole, Found
<1>9. Repairing'
  BY <1>2, <1>3, <1>4, <1>5, RepairStays DEF KB!InFlight
<1>10. QED  BY <1>6, <1>7, <1>8, <1>9 DEF KbInv

\* A step of one transaction that keeps its kind, its lock and its side of the flush.
LEMMA SetsStay ==
    ASSUME KB!InFlight' = KB!InFlight,
           \A v \in KB!InFlight : /\ docTxs'[v].locks = docTxs[v].locks
                                  /\ docTxs'[v].kind = docTxs[v].kind
                                  /\ docTxs'[v].pc = "update" <=> docTxs[v].pc = "update"
    PROVE  KB!Holders' = KB!Holders /\ Rebuilding' = Rebuilding
<1>1. \A v : v \in Rebuilding' <=> v \in Rebuilding
  BY DEF Rebuilding
<1>2. \A v : v \in KB!Holders' <=> v \in KB!Holders
  BY DEF KB!Holders
<1>3. Rebuilding' = Rebuilding
  BY <1>1
<1>4. QED  BY <1>2, <1>3

LEMMA Deletes ==
    ASSUME KbInv, NEW w \in KbWorkers, KB!Delete(w)
    PROVE  KbInv'
<1>1. docTxs' = [docTxs EXCEPT ![w].pc = "index", ![w].gone = chunks] /\ docTxs[w].pc = "delete"
  BY DEF KB!Delete
<1>2. UNCHANGED <<doc, chunks, index, repair, unlocked, halved, strayed>>
  BY DEF KB!Delete
<1>3. IsTx(docTxs[w]) /\ KB!Begun(docTxs[w]) /\ docTxs[w].kind # "plain" /\ doc # KB!NoDoc
  BY <1>1 DEF KbInv, KbTypes, KB!Begun, KB!Idle, KB!Selected, IsTx
<1>4. PICK tx : /\ docTxs' = [docTxs EXCEPT ![w] = tx] /\ IsTx(tx)
                /\ tx.pc = "index" /\ tx.gone = chunks
                /\ tx.kind = docTxs[w].kind /\ tx.locks = docTxs[w].locks
  <2> DEFINE tx == [docTxs[w] EXCEPT !.pc = "index", !.gone = chunks]
  <2>1. docTxs' = [docTxs EXCEPT ![w] = tx]
    BY <1>1 DEF KbInv, KbTypes
  <2>2. IsTx(tx) /\ tx.pc = "index" /\ tx.gone = chunks
        /\ tx.kind = docTxs[w].kind /\ tx.locks = docTxs[w].locks
    BY <1>3 DEF IsTx, Fields, KB!Publishes
  <2>3. QED  BY <2>1, <2>2
<1>5. /\ DOMAIN docTxs' = KbWorkers /\ docTxs'[w] = tx /\ KB!Begun(tx)
      /\ \A v \in KbWorkers \ {w} : docTxs'[v] = docTxs[v]
  BY <1>4, OneMoves, NotIdle DEF KbInv
<1>6. KbTypes'
  BY <1>2, <1>3, <1>4, <1>5 DEF KbInv, KbTypes
<1>7. KB!Holders' = KB!Holders /\ Rebuilding' = Rebuilding /\ KB!InFlight' = KB!InFlight
  <2>1. KB!InFlight' = KB!InFlight
    BY <1>3, <1>5 DEF KB!InFlight
  <2>2. \A v \in KB!InFlight : /\ docTxs'[v].locks = docTxs[v].locks
                               /\ docTxs'[v].kind = docTxs[v].kind
                               /\ docTxs'[v].pc = "update" <=> docTxs[v].pc = "update"
    BY <1>1, <1>4, <1>5 DEF KB!InFlight
  <2>3. QED  BY <2>1, <2>2, SetsStay
<1>8. ~unlocked => RowLock'
  BY <1>2, <1>4, <1>5, <1>7 DEF KbInv, RowLock, KB!InFlight, KB!Publishes
<1>9. Whole' /\ Found'
  BY <1>1, <1>2, <1>5, <1>7 DEF KbInv, Whole, Found, Rebuilding, KB!InFlight
<1>10. Repairing'
  BY <1>2, <1>3, <1>4, <1>5, RepairStays DEF KB!InFlight
<1>11. QED  BY <1>2, <1>6, <1>8, <1>9, <1>10 DEF KbInv

LEMMA WritesIndex ==
    ASSUME KbInv, NEW w \in KbWorkers, NEW ok \in BOOLEAN, KB!WriteIndex(w, ok)
    PROVE  KbInv'
<1>1. /\ docTxs' = [docTxs EXCEPT ![w].pc = "finish",
                                  ![w].want.flag = IF KB!Publishes(docTxs[w]) THEN ~ok ELSE @ \/ ~ok]
      /\ docTxs[w].pc = "index"
      /\ KB!Publishes(docTxs[w]) /\ ok => docTxs[w].gen \in index'
  BY DEF KB!WriteIndex
<1>2. UNCHANGED <<doc, chunks, repair, unlocked, halved, strayed>>
  BY DEF KB!WriteIndex
<1>3. IsTx(docTxs[w]) /\ KB!Begun(docTxs[w]) /\ docTxs[w].kind # "plain" /\ doc # KB!NoDoc
  BY <1>1 DEF KbInv, KbTypes, KB!Begun, KB!Idle, KB!Selected, IsTx
<1>4. PICK tx : /\ docTxs' = [docTxs EXCEPT ![w] = tx] /\ IsTx(tx) /\ tx.pc = "finish"
                /\ KB!Publishes(tx) => tx.want.flag = ~ok
                /\ tx.kind = docTxs[w].kind /\ tx.locks = docTxs[w].locks
                /\ tx.gone = docTxs[w].gone /\ tx.gen = docTxs[w].gen
  <2> DEFINE tx == [docTxs[w] EXCEPT !.pc = "finish",
                       !.want.flag = IF KB!Publishes(docTxs[w]) THEN ~ok ELSE @ \/ ~ok]
  <2>1. docTxs' = [docTxs EXCEPT ![w] = tx]
    BY <1>1 DEF KbInv, KbTypes
  <2>2. /\ DOMAIN tx = Fields /\ tx.pc = "finish" /\ tx.read = docTxs[w].read
        /\ tx.kind = docTxs[w].kind /\ tx.locks = docTxs[w].locks
        /\ tx.gone = docTxs[w].gone /\ tx.gen = docTxs[w].gen
        /\ tx.want = [docTxs[w].want EXCEPT
                         !.flag = IF KB!Publishes(docTxs[w]) THEN ~ok ELSE @ \/ ~ok]
    BY <1>3 DEF IsTx, Fields
  <2> HIDE DEF tx
  <2>3. IsRow(tx.want) /\ tx.want.published = docTxs[w].want.published
        /\ (KB!Publishes(tx) => tx.want.flag = ~ok)
    <3>1. IsRow(docTxs[w].want)
      BY <1>3 DEF IsTx
    <3>2. DOMAIN tx.want = Columns /\ tx.want.published = docTxs[w].want.published
      BY <2>2, <3>1 DEF IsRow, Columns
    <3>3. tx.want.flag = IF KB!Publishes(docTxs[w]) THEN ~ok ELSE docTxs[w].want.flag \/ ~ok
      BY <2>2, <3>1 DEF IsRow, Columns
    <3>4. tx.want.flag \in BOOLEAN /\ (KB!Publishes(tx) => tx.want.flag = ~ok)
      BY <2>2, <3>1, <3>3 DEF IsRow, KB!Publishes
    <3>5. QED  BY <3>2, <3>4 DEF IsRow
  <2>4. IsTx(tx)
    BY <1>3, <2>2, <2>3 DEF IsTx, KB!Publishes
  <2>5. QED  BY <2>1, <2>2, <2>3, <2>4
<1>5. /\ DOMAIN docTxs' = KbWorkers /\ docTxs'[w] = tx /\ KB!Begun(tx)
      /\ \A v \in KbWorkers \ {w} : docTxs'[v] = docTxs[v]
  BY <1>4, OneMoves, NotIdle DEF KbInv
<1>6. KbTypes'
  BY <1>2, <1>3, <1>4, <1>5 DEF KbInv, KbTypes
<1>7. /\ KB!InFlight' = KB!InFlight /\ KB!Holders' = KB!Holders /\ Rebuilding' = Rebuilding
      /\ w \in Rebuilding
  <2>1. KB!InFlight' = KB!InFlight
    BY <1>3, <1>5 DEF KB!InFlight
  <2>2. \A v \in KB!InFlight : /\ docTxs'[v].locks = docTxs[v].locks
                               /\ docTxs'[v].kind = docTxs[v].kind
                               /\ docTxs'[v].pc = "update" <=> docTxs[v].pc = "update"
    BY <1>1, <1>4, <1>5 DEF KB!InFlight
  <2>3. w \in Rebuilding
    BY <1>1, <1>3 DEF Rebuilding, KB!InFlight
  <2>4. QED  BY <2>1, <2>2, <2>3, SetsStay
<1>8. ASSUME ~unlocked PROVE RowLock'
  <2>1. RowLock
    BY <1>8 DEF KbInv
  <2>2. \A v \in KB!InFlight \ {w} : KB!Publishes(docTxs[v]) => docTxs[v].pc # "finish"
    BY <1>7, <2>1 DEF RowLock, Rebuilding, KB!Publishes
  <2>3. \A v \in KB!InFlight \ {w} : KB!Publishes(docTxs[v]) =>
          (docTxs[v].pc \in {"index", "finish"} => docTxs[v].gone = chunks)
    BY <2>1 DEF RowLock
  <2>4. KB!Publishes(docTxs[w]) => docTxs[w].gone = chunks
    BY <1>1, <1>7, <2>1 DEF RowLock, Rebuilding
  <2>5. \A v \in KB!InFlight' : KB!Publishes(docTxs'[v]) =>
          /\ docTxs'[v].pc \in {"index", "finish"} => docTxs'[v].gone = chunks'
          /\ docTxs'[v].pc = "finish" /\ ~docTxs'[v].want.flag => docTxs'[v].gen \in index'
    <3> SUFFICES ASSUME NEW v \in KB!InFlight', KB!Publishes(docTxs'[v])
        PROVE  /\ docTxs'[v].pc \in {"index", "finish"} => docTxs'[v].gone = chunks'
               /\ docTxs'[v].pc = "finish" /\ ~docTxs'[v].want.flag => docTxs'[v].gen \in index'
      OBVIOUS
    <3>1. CASE v = w
      BY <1>1, <1>2, <1>4, <1>5, <2>4, <3>1 DEF KB!Publishes
    <3>2. CASE v # w
      <4>1. v \in KB!InFlight \ {w} /\ v \in KbWorkers
        BY <1>7, <3>2 DEF KB!InFlight
      <4>2. docTxs'[v] = docTxs[v]
        BY <1>5, <4>1
      <4>3. QED  BY <1>2, <2>2, <2>3, <4>1, <4>2
    <3>3. QED  BY <3>1, <3>2
  <2>6. QED  BY <1>7, <2>1, <2>5 DEF RowLock
<1>9. Whole' /\ Found'
  <2>1. docTxs'[w].pc = "finish"
    BY <1>4, <1>5
  <2>2. QED  BY <1>2, <1>7, <2>1 DEF KbInv, Whole, Found
<1>10. Repairing'
  <2>1. w \in KB!InFlight /\ docTxs[w].kind # "plain"
    BY <1>3 DEF KB!InFlight
  <2>2. ~repair.clean
    BY <2>1 DEF KbInv, Repairing, KB!Rebuilders
  <2>3. QED  BY <1>2, <2>2 DEF Repairing
<1>11. QED  BY <1>2, <1>6, <1>8, <1>9, <1>10 DEF KbInv

\* A transaction that ends, with or without a commit.
LEMMA Ends ==
    ASSUME KbInv, NEW w \in KbWorkers, docTxs' = [docTxs EXCEPT ![w] = KB!Idle]
    PROVE  /\ DOMAIN docTxs' = KbWorkers
           /\ \A v \in KbWorkers : KB!Begun(docTxs'[v]) => v # w /\ docTxs'[v] = docTxs[v]
           /\ KB!InFlight' = KB!InFlight \ {w} /\ KB!Holders' = KB!Holders \ {w}
           /\ Rebuilding' = Rebuilding \ {w}
<1>1. /\ DOMAIN docTxs' = KbWorkers /\ docTxs'[w] = KB!Idle
      /\ \A v \in KbWorkers \ {w} : docTxs'[v] = docTxs[v]
  BY OneMoves DEF KbInv
<1>2. QED  BY <1>1, NotIdle DEF KB!InFlight, KB!Holders, Rebuilding

LEMMA Aborts ==
    ASSUME KbInv, NEW w \in KbWorkers, KB!Abort(w)
    PROVE  KbInv'
<1>1. /\ docTxs' = [docTxs EXCEPT ![w] = KB!Idle]
      /\ strayed' = (strayed \/ (docTxs[w].pc = "finish" /\ docTxs[w].kind # "plain"))
      /\ UNCHANGED <<doc, chunks, index, repair, unlocked, halved>>
      /\ docTxs[w].pc \in {"selected", "index", "finish"}
  BY DEF KB!Abort
<1>2. doc # KB!NoDoc
  BY <1>1 DEF KbInv, KbTypes, KB!Idle
<1>3. KbTypes'
  BY <1>1, <1>2, Ends DEF KbInv, KbTypes
<1>4. ~unlocked => RowLock'
  <2>1. \A v \in KB!InFlight' : v \in KB!InFlight /\ docTxs'[v] = docTxs[v]
    BY <1>1, Ends DEF KB!InFlight
  <2>2. KB!Holders' \subseteq KB!Holders
        /\ (Rebuilding \subseteq KB!Holders => Rebuilding' \subseteq KB!Holders')
    BY <1>1, Ends
  <2>3. QED  BY <1>1, <2>1, <2>2 DEF KbInv, RowLock
<1>5. Found'
  <2>1. CASE strayed'
    BY <2>1 DEF Found
  <2>2. CASE ~strayed'
    <3>1. \A v \in Rebuilding : docTxs[v].pc = "finish" => v \in Rebuilding' /\ docTxs'[v].pc = "finish"
      BY <1>1, <2>2, Ends DEF KbInv, KbTypes, Rebuilding, KB!InFlight
    <3>2. QED  BY <1>1, <2>2, <3>1 DEF KbInv, KbTypes, Found
  <2>3. QED  BY <2>1, <2>2
<1>6. Repairing'
  <2>1. \A v \in KB!InFlight' : v \in KB!InFlight /\ docTxs'[v] = docTxs[v]
    BY <1>1, Ends DEF KB!InFlight
  <2>2. QED  BY <1>1, <2>1, RepairStays
<1>7. QED  BY <1>1, <1>3, <1>4, <1>5, <1>6 DEF KbInv, Whole

LEMMA Finishes ==
    ASSUME KbInv, NEW w \in KbWorkers, KB!Finish(w)
    PROVE  KbInv'
<1>1. PICK tx, row :
         /\ tx = docTxs[w] /\ row = KB!Updated(doc, tx.read, tx.want)
         /\ tx.pc = "finish" /\ KB!Holders \subseteq {w} /\ doc' = row
         /\ chunks' = IF KB!Publishes(tx) THEN (chunks \ tx.gone) \cup {tx.gen} ELSE chunks
         /\ docTxs' = [docTxs EXCEPT ![w] = KB!Idle]
         /\ strayed' \in BOOLEAN \cup {strayed}
         /\ KB!Publishes(tx) /\ ~strayed' => tx.want.flag = row.flag
         /\ tx.kind = "disable" => strayed'
         /\ tx.kind = "plain" => strayed' = strayed
         /\ UNCHANGED <<index, repair, unlocked, halved>>
  BY DEF KB!Finish, KB!Publishes
<1>2. IsTx(tx) /\ KB!Begun(tx) /\ doc # KB!NoDoc /\ IsRow(doc)
  BY <1>1 DEF KbInv, KbTypes, KB!Begun, KB!Idle, KB!Selected, IsTx
<1>3. /\ IsRow(row) /\ row # KB!NoDoc
      /\ ~KB!Publishes(tx) => row.published = doc.published
      /\ tx.kind = "plain" => row.flag = doc.flag
  <2>1. DOMAIN row = Columns
    BY <1>1, <1>2 DEF KB!Updated, IsTx, IsRow
  <2>2. \A col \in {"flag", "published"} :
           row[col] = IF tx.want[col] # tx.read[col] THEN tx.want[col] ELSE doc[col]
    BY <1>1, <1>2 DEF KB!Updated, IsTx, IsRow, Columns
  <2>3. row.flag = IF tx.want.flag # tx.read.flag THEN tx.want.flag ELSE doc.flag
    BY <2>2
  <2>4. row.published = IF tx.want.published # tx.read.published THEN tx.want.published
                                                                ELSE doc.published
    BY <2>2
  <2>5. IsRow(row)
    BY <1>2, <2>1, <2>3 DEF IsTx, IsRow
  <2>6. QED  BY <1>2, <2>3, <2>4, <2>5, NotIdle DEF IsTx
<1>4. KbTypes'
  <2>1. strayed' \in BOOLEAN
    BY <1>1, <1>2 DEF KbInv, KbTypes
  <2>2. DOMAIN docTxs' = KbWorkers /\ \A v \in KbWorkers : KB!Begun(docTxs'[v]) => IsTx(docTxs'[v])
    BY <1>1, Ends DEF KbInv, KbTypes
  <2>3. QED
    BY <1>1, <1>3, <2>1, <2>2 DEF KbInv, KbTypes
<1>5. KB!Publishes(tx) => w \in Rebuilding
  BY <1>1, <1>2 DEF Rebuilding, KB!InFlight, KB!Publishes
<1>6. ASSUME ~unlocked PROVE RowLock'
  <2>1. RowLock /\ Rebuilding \subseteq {w}
    BY <1>1, <1>6 DEF KbInv, RowLock
  <2>2. \A v \in KB!InFlight' : KB!Publishes(docTxs'[v]) => docTxs'[v].pc = "update"
    BY <1>1, <2>1, Ends DEF Rebuilding, KB!InFlight, KB!Publishes
  <2>3. Rebuilding' = {} /\ KB!Holders' = {}
    BY <1>1, <2>1, Ends
  <2>4. QED  BY <2>2, <2>3 DEF RowLock
<1>7. ~unlocked /\ KB!Publishes(tx) => /\ chunks' = {tx.gen}
                                       /\ ~tx.want.flag => tx.gen \in index
  BY <1>1, <1>5 DEF KbInv, RowLock, Rebuilding
<1>8. Whole'
  <2>1. doc'.published # 0 => chunks' # {} \/ halved'
    BY <1>1, <1>2, <1>3 DEF KbInv, Whole
  <2>2. ~unlocked' => \A g, h \in chunks' : g = h
    BY <1>1, <1>7 DEF KbInv, Whole, KB!Publishes
  <2>3. QED  BY <2>1, <2>2 DEF Whole
<1>9. Found'
  <2> SUFFICES ASSUME ~strayed', ~unlocked' PROVE Found'
    BY DEF Found
  <2>1. CASE KB!Publishes(tx)
    <3>1. tx.want.flag = row.flag
      BY <1>1, <2>1
    <3>2. row.flag \/ chunks' \subseteq index'
      BY <1>1, <1>7, <2>1, <3>1 DEF KB!Publishes
    <3>3. QED  BY <1>1, <1>3, <3>2 DEF Found
  <2>2. CASE tx.kind = "plain"
    <3>1. \A v \in Rebuilding : v \in Rebuilding' /\ docTxs'[v] = docTxs[v]
      BY <1>1, <2>2, Ends DEF Rebuilding, KB!InFlight
    <3>2. QED  BY <1>1, <1>2, <1>3, <2>2, <3>1 DEF KbInv, KbTypes, Found, KB!Publishes
  <2>3. QED  BY <1>1, <1>2, <2>1, <2>2 DEF IsTx, KB!Publishes
<1>10. Repairing'
  <2>1. \A v \in KB!InFlight' : v \in KB!InFlight /\ docTxs'[v] = docTxs[v]
    BY <1>1, Ends DEF KB!InFlight
  <2>2. QED  BY <1>1, <2>1, RepairStays
<1>11. QED  BY <1>1, <1>4, <1>6, <1>8, <1>9, <1>10 DEF KbInv

LEMMA HalfCommits ==
    ASSUME KbInv, NEW w \in KbWorkers, KB!CommitHalf(w)
    PROVE  KbInv'
<1>1. PICK tx, row :
         /\ tx = docTxs[w] /\ tx.pc = "index"
         /\ row = KB!Updated(doc, tx.read, [tx.read EXCEPT !.status = tx.want.status])
         /\ doc' = row /\ chunks' = chunks \ tx.gone
         /\ docTxs' = [docTxs EXCEPT ![w] = KB!Idle] /\ halved' = TRUE
         /\ UNCHANGED <<index, repair, unlocked, strayed>>
  BY DEF KB!CommitHalf
<1>2. IsTx(tx) /\ doc # KB!NoDoc /\ IsRow(doc)
  BY <1>1 DEF KbInv, KbTypes, KB!Begun, KB!Idle, KB!Selected
<1>3. IsRow(row) /\ row # KB!NoDoc /\ row.flag = doc.flag
  <2> DEFINE want == [tx.read EXCEPT !.status = tx.want.status]
  <2>1. DOMAIN want = Columns /\ want.flag = tx.read.flag
    BY <1>2 DEF IsTx, IsRow, Columns
  <2> HIDE DEF want
  <2>2. row = [col \in Columns |-> IF want[col] # tx.read[col] THEN want[col] ELSE doc[col]]
    BY <1>1, <2>1 DEF KB!Updated, want
  <2>3. DOMAIN row = Columns /\ row["flag"] = doc["flag"]
    BY <2>1, <2>2 DEF Columns
  <2>4. QED  BY <1>2, <2>3, NotIdle DEF IsRow
<1>4. KbTypes'
  BY <1>1, <1>3, Ends DEF KbInv, KbTypes
<1>5. \A v \in KB!InFlight' : v \in KB!InFlight /\ docTxs'[v] = docTxs[v] /\ v # w
  BY <1>1, Ends DEF KB!InFlight
<1>6. ASSUME ~unlocked PROVE RowLock'
  <2>1. w \in KB!Holders \/ ~(w \in Rebuilding)
    BY <1>6 DEF KbInv, RowLock
  <2>2. tx.kind # "plain" /\ w \in Rebuilding
    BY <1>1, <1>2 DEF IsTx, Rebuilding, KB!InFlight, KbInv, KbTypes, KB!Begun, KB!Idle, KB!Selected
  <2>3. Rebuilding \subseteq {w} /\ KB!Holders \subseteq {w}
    BY <1>6, <2>1, <2>2 DEF KbInv, RowLock
  <2>4. Rebuilding' = {} /\ KB!Holders' = {}
    BY <1>1, <2>3, Ends
  <2>5. \A v \in KB!InFlight' : KB!Publishes(docTxs'[v]) => docTxs'[v].pc = "update"
    BY <2>4 DEF Rebuilding, KB!Publishes
  <2>6. QED  BY <2>4, <2>5 DEF RowLock
<1>7. Whole'
  BY <1>1 DEF KbInv, Whole
<1>8. Found'
  <2>1. \A v \in Rebuilding : docTxs[v].pc = "finish" => v \in Rebuilding' /\ docTxs'[v].pc = "finish"
    BY <1>1, <1>5, Ends DEF Rebuilding, KB!InFlight
  <2>2. QED  BY <1>1, <1>2, <1>3, <2>1 DEF KbInv, Found
<1>9. Repairing'
  BY <1>1, <1>5, RepairStays
<1>10. QED  BY <1>4, <1>6, <1>7, <1>8, <1>9, <1>1 DEF KbInv

\* A candidate of the scheduled publication is no transaction yet.
LEMMA Selects ==
    ASSUME KbInv, NEW w \in KbWorkers, KB!SelectEffective(w)
    PROVE  KbInv'
<1>1. /\ docTxs' = [docTxs EXCEPT ![w] = KB!Selected] /\ docTxs[w] = KB!Idle
      /\ UNCHANGED <<doc, chunks, index, repair, unlocked, halved, strayed>>
      /\ doc # KB!NoDoc
  BY DEF KB!SelectEffective, KB!NoDoc
<1>2. /\ DOMAIN docTxs' = KbWorkers /\ docTxs'[w] = KB!Selected
      /\ \A v \in KbWorkers \ {w} : docTxs'[v] = docTxs[v]
  BY <1>1, OneMoves DEF KbInv
<1>3. KbTypes'
  BY <1>1, <1>2, NotIdle DEF KbInv, KbTypes
<1>4. KB!InFlight' = KB!InFlight /\ \A v \in KB!InFlight : docTxs'[v] = docTxs[v]
  BY <1>1, <1>2, NotIdle DEF KB!InFlight
<1>5. KB!Holders' = KB!Holders /\ Rebuilding' = Rebuilding
  BY <1>4, SetsStay
<1>6. RowLock => RowLock'
  BY <1>1, <1>4, <1>5 DEF RowLock
<1>7. Whole' /\ Found'
  BY <1>1, <1>4, <1>5 DEF KbInv, Whole, Found, Rebuilding
<1>8. Repairing'
  BY <1>1, <1>4, RepairStays
<1>9. QED  BY <1>1, <1>3, <1>6, <1>7, <1>8 DEF KbInv

\* The steps of the repair leave the transactions and the chunks alone.
LEMMA Repairs ==
    ASSUME KbInv, KB!ReindexList \/ KB!ReindexWrite \/ KB!ReindexClear \/ KB!ReindexStops
    PROVE  KbInv'
<1>1. UNCHANGED <<docTxs, chunks, unlocked, halved>>
  BY DEF KB!ReindexList, KB!ReindexWrite, KB!ReindexClear, KB!ReindexStops
<1>2. /\ doc # KB!NoDoc /\ IsRow(doc)
      /\ IsRow(doc') /\ doc' # KB!NoDoc /\ doc'.published = doc.published
      /\ (doc' = doc \/ KB!ReindexClear)
  <2>1. doc # KB!NoDoc /\ IsRow(doc)
    <3>1. KB!Live \/ repair # KB!NoRepair
      <4>1. KB!NoRepair.pc = "none"
        BY DEF KB!NoRepair
      <4>2. QED  BY <4>1 DEF KB!ReindexList, KB!ReindexWrite, KB!ReindexClear, KB!ReindexStops
    <3>2. QED  BY <3>1 DEF KB!Live, KbInv, KbTypes
  <2>2. doc' = doc \/ (KB!ReindexClear /\ doc' = [doc EXCEPT !.flag = FALSE])
    BY DEF KB!ReindexList, KB!ReindexWrite, KB!ReindexClear, KB!ReindexStops
  <2>3. IsRow(doc') /\ doc'.published = doc.published
    BY <2>1, <2>2 DEF IsRow, Columns
  <2>4. QED  BY <2>1, <2>2, <2>3, NotIdle
<1>3. /\ KB!InFlight' = KB!InFlight /\ KB!Holders' = KB!Holders
      /\ Rebuilding' = Rebuilding /\ KB!Rebuilders' = KB!Rebuilders
  BY <1>1 DEF KB!InFlight, KB!Holders, Rebuilding, KB!Rebuilders
<1>4. index \subseteq index'
  BY DEF KB!ReindexList, KB!ReindexWrite, KB!ReindexClear, KB!ReindexStops
<1>5. /\ DOMAIN repair' = {"pc", "seen", "clean"} /\ repair'.clean \in BOOLEAN
      /\ strayed' \in BOOLEAN
  <2>1. strayed' \in BOOLEAN
    BY <1>2 DEF KB!ReindexList, KB!ReindexWrite, KB!ReindexClear, KB!ReindexStops,
                KbInv, KbTypes, IsRow
  <2>2. \/ \E found : repair' = [pc |-> "write", seen |-> found, clean |-> KB!Rebuilders = {}]
        \/ repair' = [repair EXCEPT !.pc = "clear"]
        \/ repair' = KB!NoRepair
    BY DEF KB!ReindexList, KB!ReindexWrite, KB!ReindexClear, KB!ReindexStops
  <2>3. CASE \E found : repair' = [pc |-> "write", seen |-> found, clean |-> KB!Rebuilders = {}]
    <3>1. PICK found : repair' = [pc |-> "write", seen |-> found, clean |-> KB!Rebuilders = {}]
      BY <2>3
    <3>2. (KB!Rebuilders = {}) \in BOOLEAN
      OBVIOUS
    <3>3. QED  BY <2>1, <3>1, <3>2
  <2>4. CASE repair' = [repair EXCEPT !.pc = "clear"]
    BY <2>1, <2>4 DEF KbInv, KbTypes
  <2>5. CASE repair' = KB!NoRepair
    BY <2>1, <2>5 DEF KB!NoRepair
  <2>6. QED  BY <2>2, <2>3, <2>4, <2>5
<1>6. KbTypes'
  BY <1>1, <1>2, <1>5 DEF KbInv, KbTypes
<1>7. RowLock => RowLock'
  BY <1>1, <1>3, <1>4 DEF RowLock
<1>8. Whole'
  BY <1>1, <1>2 DEF KbInv, Whole
<1>9. Found'
  <2>1. CASE KB!ReindexClear
    <3>1. /\ repair.pc = "clear" /\ UNCHANGED index
          /\ strayed' = IF repair.clean /\ repair.seen = chunks THEN FALSE
                                                             ELSE strayed \/ doc.flag
          /\ doc' = [doc EXCEPT !.flag = FALSE]
      BY <2>1 DEF KB!ReindexClear
    <3>2. CASE repair.clean /\ repair.seen = chunks
      BY <1>1, <3>1, <3>2 DEF KbInv, Repairing, Found
    <3>3. CASE ~(repair.clean /\ repair.seen = chunks)
      <4>1. strayed' = (strayed \/ doc.flag)
        BY <3>1, <3>3
      <4>2. QED  BY <1>1, <1>3, <3>1, <4>1 DEF KbInv, Found
    <3>4. QED  BY <3>2, <3>3
  <2>2. CASE ~KB!ReindexClear
    <3>1. strayed' = strayed /\ doc' = doc
      BY <1>2, <2>2 DEF KB!ReindexList, KB!ReindexWrite, KB!ReindexStops
    <3>2. QED  BY <1>1, <1>3, <1>4, <3>1 DEF KbInv, Found
  <2>3. QED  BY <2>1, <2>2
<1>10. Repairing'
  <2>1. CASE KB!ReindexList
    <3>1. PICK found : repair' = [pc |-> "write", seen |-> found, clean |-> KB!Rebuilders = {}]
      BY <2>1 DEF KB!ReindexList
    <3>2. repair'.pc = "write" /\ (repair'.clean => KB!Rebuilders = {})
      BY <3>1
    <3>3. QED  BY <1>3, <3>2 DEF Repairing
  <2>2. CASE KB!ReindexWrite
    BY <1>3, <2>2 DEF KB!ReindexWrite, Repairing, KbInv, KbTypes
  <2>3. CASE KB!ReindexClear \/ KB!ReindexStops
    <3>1. repair' = KB!NoRepair
      BY <2>3 DEF KB!ReindexClear, KB!ReindexStops
    <3>2. ~repair'.clean
      BY <3>1 DEF KB!NoRepair
    <3>3. QED  BY <3>2 DEF Repairing
  <2>4. QED  BY <2>1, <2>2, <2>3
<1>11. QED  BY <1>1, <1>6, <1>7, <1>8, <1>9, <1>10 DEF KbInv

\* The document is created before there is any transaction.
LEMMA Creates ==
    ASSUME KbInv,
           \/ \E c \in Contents, e \in {"none", "due"} : KB!CreateDraft(c, e)
           \/ \E c \in Contents, ok \in BOOLEAN : KB!CreateUploaded(c, ok)
    PROVE  KbInv'
<1>1. UNCHANGED <<docTxs, repair, unlocked, halved, strayed>> /\ doc = KB!NoDoc
  BY DEF KB!CreateDraft, KB!CreateUploaded
<1>2. KB!InFlight = {} /\ repair = KB!NoRepair
  BY <1>1, NotIdle DEF KbInv, KbTypes, KB!InFlight
<1>3. Rebuilding' = {} /\ KB!Holders' = {} /\ KB!InFlight' = {} /\ Rebuilding = {}
  BY <1>1, <1>2 DEF Rebuilding, KB!Holders, KB!InFlight
<1>4. RowLock' /\ Repairing'
  BY <1>1, <1>2, <1>3 DEF RowLock, Repairing, KB!NoRepair
<1>5. ASSUME NEW c, NEW e, KB!CreateDraft(c, e) PROVE KbTypes' /\ Whole' /\ Found'
  <2>1. IsRow(doc') /\ doc'.published = 0 /\ chunks' = {}
    BY <1>5 DEF KB!CreateDraft, KB!NewDoc, IsRow, Columns, KbInv, KbTypes
  <2>2. QED  BY <1>1, <2>1, NotIdle DEF KbInv, KbTypes, Whole, Found
<1>6. ASSUME NEW c, NEW ok \in BOOLEAN, KB!CreateUploaded(c, ok) PROVE KbTypes' /\ Whole' /\ Found'
  <2>1. PICK g : /\ IsRow(doc') /\ doc'.published = 0 /\ chunks' = {g}
                 /\ doc'.flag = ~ok /\ (ok => index' = {g})
    BY <1>6 DEF KB!CreateUploaded, KB!NewDoc, IsRow, Columns
  <2>2. QED  BY <1>1, <2>1, NotIdle DEF KbInv, KbTypes, Whole, Found
<1>7. KbTypes' /\ Whole' /\ Found'
  BY <1>5, <1>6
<1>8. QED  BY <1>4, <1>7 DEF KbInv

\* Every operation on the document begins a transaction of one of the kinds.
LEMMA Operates ==
    ASSUME KbInv, NEW w \in KbWorkers,
           \/ \E c \in Contents : KB!Edit(w, c) \/ KB!Upload(w, c)
           \/ KB!SubmitReview(w) \/ KB!Reject(w) \/ KB!Archive(w) \/ KB!Approve(w)
           \/ \E version \in versions : KB!Rollback(w, version)
           \/ KB!PublishEffective(w) \/ KB!Disable(w)
    PROVE  KbInv'
<1>1. IsRow(doc)
  BY DEF KB!Edit, KB!Upload, KB!SubmitReview, KB!Reject, KB!Archive, KB!Approve, KB!Rollback,
         KB!PublishEffective, KB!Disable, KB!Begin, KB!Start, KbInv, KbTypes
<1>2. ASSUME NEW want, NEW added, KB!Begin(w, "plain", want, added),
             IsRow(want), want.flag = doc.flag, want.published = doc.published
      PROVE  KbInv'
  BY <1>2, Begins, NotIdle DEF KB!Begin
<1>3. ASSUME NEW want, NEW added, KB!Begin(w, "publish", want, added), IsRow(want)
      PROVE  KbInv'
  BY <1>3, Begins, NotIdle DEF KB!Begin
<1>4. ASSUME NEW want, KB!Begin(w, "disable", want, {}), IsRow(want), want.published = doc.published
      PROVE  KbInv'
  BY <1>4, Begins, NotIdle DEF KB!Begin
<1>5. ASSUME NEW c, KB!Edit(w, c) PROVE KbInv'
  <2>1. PICK want, added : /\ KB!Begin(w, "plain", want, added)
                           /\ want = [doc EXCEPT !.status = "draft", !.content = c]
    BY <1>5 DEF KB!Edit
  <2>2. IsRow(want) /\ want.flag = doc.flag /\ want.published = doc.published
    BY <1>1, <2>1 DEF IsRow, Columns
  <2>3. QED  BY <1>2, <2>1, <2>2
<1>6. CASE KB!SubmitReview(w)
  BY <1>1, <1>2, <1>6 DEF KB!SubmitReview, IsRow, Columns
<1>7. CASE KB!Reject(w)
  BY <1>1, <1>2, <1>7 DEF KB!Reject, IsRow, Columns
<1>8. CASE KB!Archive(w)
  BY <1>1, <1>2, <1>8 DEF KB!Archive, IsRow, Columns
<1>9. ASSUME NEW c, KB!Upload(w, c) PROVE KbInv'
  BY <1>1, <1>3, <1>9 DEF KB!Upload, IsRow, Columns
<1>10. CASE KB!Approve(w)
  BY <1>1, <1>3, <1>10 DEF KB!Approve, IsRow, Columns
<1>11. ASSUME NEW version, KB!Rollback(w, version) PROVE KbInv'
  <2>1. PICK want, added : /\ KB!Begin(w, "publish", want, added)
                           /\ want = [doc EXCEPT !.status = "published", !.content = version.content,
                                                 !.published = KB!NextVersion]
    BY <1>11 DEF KB!Rollback
  <2>2. IsRow(want)
    BY <1>1, <2>1 DEF IsRow, Columns
  <2>3. QED  BY <1>3, <2>1, <2>2
<1>12. CASE KB!PublishEffective(w)
  <2>1. PICK want : /\ KB!Start(w, "scheduled", want, {}) /\ docTxs[w] = KB!Selected
                    /\ want = [doc EXCEPT !.status = "published", !.effective = "none",
                                          !.published = KB!NextVersion - 1]
    BY <1>12 DEF KB!PublishEffective
  <2>2. IsRow(want)
    BY <1>1, <2>1 DEF IsRow, Columns
  <2>3. QED  BY <2>1, <2>2, Begins, NotIdle
<1>13. CASE KB!Disable(w)
  BY <1>1, <1>4, <1>13 DEF KB!Disable, IsRow, Columns
<1>14. QED
  BY <1>5, <1>6, <1>7, <1>8, <1>9, <1>10, <1>11, <1>12, <1>13

LEMMA KbNext == KbInv /\ [KB!Next]_KB!vars => KbInv'
<1> SUFFICES ASSUME KbInv, [KB!Next]_KB!vars PROVE KbInv'
  OBVIOUS
<1>1. CASE UNCHANGED KB!vars
  BY <1>1 DEF KB!vars, KbInv, KbTypes, RowLock, Whole, Found, Rebuilding,
             Repairing, KB!Rebuilders, KB!InFlight, KB!Holders
<1>2. CASE KB!Next
  BY <1>2, Creates, Repairs, Selects, Operates, Locks, Deletes, WritesIndex, Finishes,
     HalfCommits, Aborts DEF KB!Next
<1>3. QED  BY <1>1, <1>2

LEMMA KbInvInvariant == KB!Spec => []KbInv
BY KbInit, KbNext, PTL DEF KB!Spec

\* For any number of operations and of requests at the same time, wherever they fail:
\* what is served of a document is of one content, unless a publication took no lock,
\* and it is nothing only after a scheduled publication was committed half done.
THEOREM OneContentTheorem == KB!Spec => []OneContent
<1>1. KbInv => OneContent
  <2> DEFINE served == {gen.content : gen \in chunks}
  <2> SUFFICES ASSUME KbInv, KB!Live, ~unlocked
      PROVE  KB!Cardinality(served) = 1 \/ (served = {} /\ halved)
    BY DEF OneContent, KB!OneContent
  <2>1. CASE chunks = {}
    BY <2>1 DEF KbInv, Whole, KB!Live
  <2>2. CASE chunks # {}
    <3>1. PICK g \in chunks : chunks = {g}
      BY <2>2 DEF KbInv, Whole
    <3>2. served = {g.content}
      BY <3>1
    <3>3. Cardinality({g.content}) = 1
      BY FS_Singleton
    <3>4. \A S : KB!Cardinality(S) = Cardinality(S)
      BY DEF KB!Cardinality, Cardinality
    <3>5. QED  BY <3>2, <3>3, <3>4
  <2>3. QED  BY <2>1, <2>2
<1>2. QED  BY <1>1, KbInvInvariant, PTL

\* For any number of operations and of requests at the same time, with a repair beside
\* them: a served document that the vector search cannot find is flagged, but for the
\* four ways in which Findable says that the index and its flag part.
THEOREM FindableTheorem == KB!Spec => []Findable
<1>1. KbInv => Findable
  BY DEF KbInv, Found, Rebuilding, Findable, KB!Findable, KB!Live
<1>2. QED  BY <1>1, KbInvInvariant, PTL

-----------------------------------------------------------------------------
(***************************************************************************)
(* The service cases.                                                      *)
(***************************************************************************)
CaseColumns == {"type", "status", "priority", "due", "refs", "reopened", "meta"}

Row(row) ==
    /\ DOMAIN row = CaseColumns
    /\ row.priority \in {1, 2}
    /\ DOMAIN row.meta = {"escalations", "compensated"}
    /\ row.meta.escalations \in Nat

\* Escalated by the cron job at some time.
Lifted(row) == row.meta.escalations > 0

\* A case that was escalated has the high priority.
HighRow(row) == Row(row) /\ (Lifted(row) => row.priority = 2)

\* What a transaction wants of a row it has read.
Raises(read, want) ==
    /\ HighRow(read) /\ HighRow(want)
    /\ want.priority >= read.priority

\* A transaction has a copy of a row whose priority has not fallen since, or a new row
\* for a place that nobody else has taken.
CopyInv(w, c) ==
    \/ /\ cases[c] # SC!None
       /\ caseTxs[w].read[c] # SC!None
       /\ Raises(caseTxs[w].read[c], caseTxs[w].want[c])
       /\ cases[c].priority >= caseTxs[w].read[c].priority
    \/ /\ cases[c] = SC!None
       /\ caseTxs[w].read[c] = SC!None
       /\ HighRow(caseTxs[w].want[c])
       /\ \A v \in SC!Jobs \ {w} : c \notin DOMAIN caseTxs[v].want

\* A case that was escalated keeps the high priority, whatever the transactions that
\* had read it before write afterwards.
EscalatedIsHigh ==
    \A c \in Cases :
        cases[c] # SC!None /\ cases[c].meta.escalations > 0 => cases[c].priority = 2

\* No transaction lowers a priority that another has raised meanwhile, though each
\* writes values of rows it has read before.
PriorityStays ==
    \A c \in Cases :
        cases[c] # SC!None => cases'[c] # SC!None /\ cases'[c].priority >= cases[c].priority

CaseInv ==
    /\ DOMAIN cases = Cases
    /\ DOMAIN caseTxs = SC!Jobs
    /\ \A w \in SC!Jobs : DOMAIN caseTxs[w].want \subseteq Cases
    /\ \A c \in Cases : cases[c] = SC!None \/ HighRow(cases[c])
    /\ \A w \in SC!Jobs : \A c \in DOMAIN caseTxs[w].want : CopyInv(w, c)

-----------------------------------------------------------------------------

LEMMA RowIsSome == \A row : Row(row) => row # SC!None
BY DEF Row, CaseColumns, SC!None

LEMMA UpdatedRow ==
    ASSUME NEW row, NEW read, NEW want, HighRow(row), read # SC!None,
           Raises(read, want), row.priority >= read.priority
    PROVE  /\ HighRow(SC!Updated(row, read, want))
           /\ SC!Updated(row, read, want).priority >= row.priority
<1> DEFINE new == SC!Updated(row, read, want)
<1>1. DOMAIN want = CaseColumns /\ DOMAIN new = CaseColumns
  BY DEF Raises, HighRow, Row, SC!Updated
<1>2. /\ new.priority = IF want.priority # read.priority THEN want.priority ELSE row.priority
      /\ new.meta = IF want.meta # read.meta THEN want.meta ELSE row.meta
  BY <1>1 DEF SC!Updated, CaseColumns
<1> HIDE DEF new
<1>3. /\ want.priority \in {1, 2} /\ read.priority \in {1, 2} /\ row.priority \in {1, 2}
      /\ want.priority >= read.priority
      /\ want.meta.escalations \in Nat /\ row.meta.escalations \in Nat
      /\ DOMAIN want.meta = {"escalations", "compensated"}
      /\ DOMAIN row.meta = {"escalations", "compensated"}
      /\ want.meta.escalations > 0 => want.priority = 2
      /\ row.meta.escalations > 0 => row.priority = 2
  BY DEF Raises, HighRow, Row, Lifted
<1>4. new.priority \in {1, 2} /\ new.priority >= row.priority
  BY <1>2, <1>3
<1>5. /\ DOMAIN new.meta = {"escalations", "compensated"}
      /\ new.meta.escalations \in Nat /\ (new.meta.escalations > 0 => new.priority = 2)
  BY <1>2, <1>3
<1>6. HighRow(new)
  BY <1>1, <1>4, <1>5 DEF HighRow, Row, Lifted
<1>7. QED  BY <1>4, <1>6 DEF new

LEMMA NewRow ==
    ASSUME NEW row, NEW want, HighRow(want)
    PROVE  HighRow(SC!Updated(row, SC!None, want))
<1> DEFINE new == SC!Updated(row, SC!None, want)
<1>1. DOMAIN want = CaseColumns /\ DOMAIN new = CaseColumns
  BY DEF HighRow, Row, SC!Updated
<1>2. new.priority = want.priority /\ new.meta = want.meta
  BY <1>1 DEF SC!Updated, CaseColumns
<1> HIDE DEF new
<1>3. HighRow(new)
  BY <1>1, <1>2 DEF HighRow, Row, Lifted
<1>4. QED  BY <1>3 DEF new

\* What the requests want of a row.
LEMMA Wanted ==
    ASSUME NEW row, HighRow(row)
    PROVE  /\ \A ref : Raises(row, SC!Merged(row, ref))
           /\ \A target : Raises(row, SC!Moved(row, target))
           /\ Raises(row, [row EXCEPT !.meta.compensated = TRUE])
           /\ Raises(row, SC!Escalated(row))
<1>1. /\ DOMAIN row = CaseColumns /\ row.priority \in {1, 2} /\ row.meta.escalations \in Nat
      /\ DOMAIN row.meta = {"escalations", "compensated"}
  BY DEF HighRow, Row
<1>2. \A ref : Raises(row, SC!Merged(row, ref))
  <2> TAKE ref
  <2> DEFINE new == SC!Merged(row, ref)
  <2>1. SC!Priority(row.type) \in {1, 2}
    BY DEF SC!Priority
  <2>2. DOMAIN new = CaseColumns /\ new.meta = row.meta
        /\ new.priority = IF SC!Priority(row.type) > row.priority
                          THEN SC!Priority(row.type) ELSE row.priority
    BY <1>1 DEF SC!Merged, CaseColumns
  <2> HIDE DEF new
  <2>3. Raises(row, new)
    BY <1>1, <2>1, <2>2 DEF Raises, HighRow, Row, Lifted
  <2>4. QED  BY <2>3 DEF new
<1>3. \A target : Raises(row, SC!Moved(row, target))
  <2> TAKE target
  <2> DEFINE new == SC!Moved(row, target)
  <2>1. DOMAIN new = CaseColumns /\ new.meta = row.meta /\ new.priority = row.priority
    BY <1>1 DEF SC!Moved, CaseColumns
  <2> HIDE DEF new
  <2>2. Raises(row, new)
    BY <1>1, <2>1 DEF Raises, HighRow, Row, Lifted
  <2>3. QED  BY <2>2 DEF new
<1>4. Raises(row, [row EXCEPT !.meta.compensated = TRUE])
  <2> DEFINE new == [row EXCEPT !.meta.compensated = TRUE]
  <2>1. /\ DOMAIN new = CaseColumns /\ new.priority = row.priority
        /\ DOMAIN new.meta = {"escalations", "compensated"}
        /\ new.meta.escalations = row.meta.escalations
    BY <1>1 DEF CaseColumns
  <2> HIDE DEF new
  <2>2. Raises(row, new)
    BY <1>1, <2>1 DEF Raises, HighRow, Row, Lifted
  <2>3. QED  BY <2>2 DEF new
<1>5. Raises(row, SC!Escalated(row))
  <2> DEFINE new == SC!Escalated(row)
  <2>1. /\ DOMAIN new = CaseColumns /\ new.priority = 2
        /\ DOMAIN new.meta = {"escalations", "compensated"}
        /\ new.meta.escalations \in Nat
    BY <1>1 DEF SC!Escalated, CaseColumns
  <2> HIDE DEF new
  <2>2. Raises(row, new)
    BY <1>1, <2>1 DEF Raises, HighRow, Row, Lifted
  <2>3. QED  BY <2>2 DEF new
<1>6. QED  BY <1>2, <1>3, <1>4, <1>5

-----------------------------------------------------------------------------

\* A transaction begins on committed rows.
LEMMA CaseStarts ==
    ASSUME CaseInv, NEW w \in SC!Jobs, NEW want, DOMAIN want \subseteq Cases,
           SC!Start(w, want),
           \A c \in DOMAIN want : cases[c] # SC!None /\ Raises(cases[c], want[c])
    PROVE  CaseInv' /\ PriorityStays
<1>1. /\ cases' = cases /\ DOMAIN caseTxs' = SC!Jobs
      /\ caseTxs'[w].read = [c \in DOMAIN want |-> cases[c]] /\ caseTxs'[w].want = want
      /\ \A v \in SC!Jobs \ {w} : caseTxs'[v] = caseTxs[v]
  BY DEF CaseInv, SC!Start
<1>2. ASSUME NEW v \in SC!Jobs, NEW c \in DOMAIN caseTxs'[v].want PROVE CopyInv(v, c)'
  <2>1. CASE v = w
    <3>1. c \in DOMAIN want /\ c \in Cases /\ caseTxs'[v].read[c] = cases[c]
          /\ caseTxs'[v].want[c] = want[c]
      BY <1>1, <1>2, <2>1
    <3>2. cases[c].priority \in {1, 2}
      BY <3>1 DEF Raises, HighRow, Row
    <3>3. QED  BY <1>1, <3>1, <3>2 DEF CopyInv
  <2>2. CASE v # w
    <3>1. caseTxs'[v] = caseTxs[v] /\ CopyInv(v, c)
      BY <1>1, <1>2, <2>2 DEF CaseInv
    <3>2. cases[c] = SC!None => c \notin DOMAIN want
      OBVIOUS
    <3>3. cases[c] = SC!None => \A u \in SC!Jobs \ {v} : c \notin DOMAIN caseTxs'[u].want
      BY <1>1, <3>1, <3>2 DEF CopyInv
    <3>4. QED  BY <1>1, <3>1, <3>3 DEF CopyInv
  <2>3. QED  BY <2>1, <2>2
<1>3. CaseInv'
  <2>1. \A v \in SC!Jobs : DOMAIN caseTxs'[v].want \subseteq Cases
    BY <1>1 DEF CaseInv
  <2>2. QED  BY <1>1, <1>2, <2>1 DEF CaseInv, SC!Jobs
<1>4. QED  BY <1>1, <1>3 DEF CaseInv, HighRow, Row, PriorityStays

\* A transaction begins on a place nobody else has taken.
LEMMA CaseOpens ==
    ASSUME CaseInv, NEW w \in CaseWorkers, NEW type, NEW ref, SC!Open(w, type, ref)
    PROVE  CaseInv' /\ PriorityStays
<1>1. PICK c \in SC!Unused : SC!Start(w, [d \in {c} |-> SC!NewCase(type, {ref})])
  BY DEF SC!Open, SC!Request
<1> DEFINE want == [d \in {c} |-> SC!NewCase(type, {ref})]
<1>2. /\ w \in SC!Jobs /\ c \in Cases /\ cases[c] = SC!None
      /\ \A v \in SC!Jobs : c \notin DOMAIN caseTxs[v].want
  BY <1>1 DEF SC!Unused, SC!Jobs
<1>3. DOMAIN want = {c} /\ HighRow(want[c])
  BY DEF SC!NewCase, SC!Priority, HighRow, Row, Lifted, CaseColumns
<1> HIDE DEF want
<1>4. /\ cases' = cases /\ DOMAIN caseTxs' = SC!Jobs
      /\ caseTxs'[w].read = [d \in DOMAIN want |-> cases[d]] /\ caseTxs'[w].want = want
      /\ \A v \in SC!Jobs \ {w} : caseTxs'[v] = caseTxs[v]
  BY <1>1, <1>2 DEF CaseInv, SC!Start, want
<1>5. ASSUME NEW v \in SC!Jobs, NEW d \in DOMAIN caseTxs'[v].want PROVE CopyInv(v, d)'
  <2>1. CASE v = w
    BY <1>2, <1>3, <1>4, <1>5, <2>1 DEF CopyInv
  <2>2. CASE v # w
    <3>1. caseTxs'[v] = caseTxs[v] /\ CopyInv(v, d) /\ d # c
      BY <1>2, <1>4, <1>5, <2>2 DEF CaseInv
    <3>2. cases[d] = SC!None => \A u \in SC!Jobs \ {v} : d \notin DOMAIN caseTxs'[u].want
      BY <1>3, <1>4, <3>1 DEF CopyInv
    <3>3. QED  BY <1>4, <3>1, <3>2 DEF CopyInv
  <2>3. QED  BY <2>1, <2>2
<1>6. CaseInv'
  <2>1. \A v \in SC!Jobs : DOMAIN caseTxs'[v].want \subseteq Cases
    BY <1>2, <1>3, <1>4 DEF CaseInv
  <2>2. QED  BY <1>4, <1>5, <2>1 DEF CaseInv, SC!Jobs
<1>7. QED  BY <1>4, <1>6 DEF CaseInv, HighRow, Row, PriorityStays

\* Rows only grow, a new one in a place nobody else has taken, and transactions end.
LEMMA CaseGrows ==
    ASSUME CaseInv, DOMAIN cases' = Cases, DOMAIN caseTxs' = SC!Jobs,
           \A c \in Cases : \/ cases'[c] = cases[c]
                            \/ /\ HighRow(cases'[c])
                               /\ cases[c] # SC!None => cases'[c].priority >= cases[c].priority,
           \A v \in SC!Jobs : caseTxs'[v] = caseTxs[v] \/ caseTxs'[v] = SC!Idle,
           \A v \in SC!Jobs : \A c \in DOMAIN caseTxs'[v].want :
              cases[c] = SC!None => cases'[c] = SC!None
    PROVE  CaseInv' /\ PriorityStays
<1>1. DOMAIN SC!Idle.want = {}
  BY DEF SC!Idle
<1>2. \A v \in SC!Jobs : \A c \in DOMAIN caseTxs'[v].want :
         caseTxs'[v] = caseTxs[v] /\ c \in Cases /\ c \in DOMAIN caseTxs[v].want
  BY <1>1 DEF CaseInv
<1>3. \A c \in Cases : cases'[c] = SC!None \/ HighRow(cases'[c])
  BY DEF CaseInv
<1>4. PriorityStays
  <2> SUFFICES ASSUME NEW c \in Cases, cases[c] # SC!None
               PROVE  cases'[c] # SC!None /\ cases'[c].priority >= cases[c].priority
    BY DEF PriorityStays
  <2>1. cases[c].priority \in {1, 2}
    BY DEF CaseInv, HighRow, Row
  <2>2. QED  BY <2>1, RowIsSome DEF HighRow
<1>5. ASSUME NEW v \in SC!Jobs, NEW c \in DOMAIN caseTxs'[v].want PROVE CopyInv(v, c)'
  <2>1. caseTxs'[v] = caseTxs[v] /\ c \in Cases /\ CopyInv(v, c)
    BY <1>2, <1>5 DEF CaseInv
  <2>2. CASE cases[c] # SC!None
    <3>1. /\ caseTxs[v].read[c] # SC!None
          /\ Raises(caseTxs[v].read[c], caseTxs[v].want[c])
          /\ cases[c].priority >= caseTxs[v].read[c].priority
      BY <2>1, <2>2 DEF CopyInv
    <3>2. cases'[c] # SC!None /\ cases'[c].priority >= cases[c].priority
      BY <1>4, <2>1, <2>2 DEF PriorityStays
    <3>3. /\ cases'[c].priority \in {1, 2} /\ cases[c].priority \in {1, 2}
          /\ caseTxs[v].read[c].priority \in {1, 2}
      BY <1>3, <2>1, <2>2, <3>1, <3>2 DEF CaseInv, HighRow, Row, Raises
    <3>4. cases'[c].priority >= caseTxs[v].read[c].priority
      BY <3>1, <3>2, <3>3
    <3>5. QED  BY <2>1, <3>1, <3>2, <3>4 DEF CopyInv
  <2>3. CASE cases[c] = SC!None
    <3>1. /\ cases'[c] = SC!None /\ caseTxs[v].read[c] = SC!None
          /\ HighRow(caseTxs[v].want[c])
          /\ \A u \in SC!Jobs \ {v} : c \notin DOMAIN caseTxs[u].want
      BY <1>5, <2>1, <2>3 DEF CopyInv
    <3>2. \A u \in SC!Jobs \ {v} : c \notin DOMAIN caseTxs'[u].want
      BY <1>2, <3>1
    <3>3. QED  BY <2>1, <3>1, <3>2 DEF CopyInv
  <2>4. QED  BY <2>2, <2>3
<1>6. CaseInv'
  BY <1>2, <1>3, <1>5 DEF CaseInv, SC!Jobs
<1>7. QED  BY <1>4, <1>6

LEMMA CaseCommits ==
    ASSUME CaseInv, NEW w \in SC!Jobs, SC!Commit(w)
    PROVE  CaseInv' /\ PriorityStays
<1> DEFINE want == caseTxs[w].want
           read == caseTxs[w].read
<1>1. /\ DOMAIN caseTxs' = SC!Jobs /\ caseTxs'[w] = SC!Idle
      /\ \A v \in SC!Jobs \ {w} : caseTxs'[v] = caseTxs[v]
  BY DEF CaseInv, SC!Commit
<1>2. DOMAIN SC!Idle.want = {}
  BY DEF SC!Idle
<1>3. CASE cases' = cases
  <2>1. DOMAIN cases' = Cases
    BY <1>3 DEF CaseInv
  <2>2. QED  BY <1>1, <1>3, <2>1, CaseGrows
<1>4. CASE cases' = SC!After(w)
  <2>1. /\ DOMAIN cases' = Cases
        /\ \A c \in Cases \ DOMAIN want : cases'[c] = cases[c]
        /\ \A c \in DOMAIN want : cases'[c] = SC!Updated(cases[c], read[c], want[c])
    BY <1>4 DEF SC!After, CaseInv
  <2>2. \A c \in DOMAIN want : c \in Cases /\ CopyInv(w, c)
    BY DEF CaseInv
  <2>3. ASSUME NEW c \in Cases
        PROVE  \/ cases'[c] = cases[c]
               \/ /\ HighRow(cases'[c])
                  /\ cases[c] # SC!None => cases'[c].priority >= cases[c].priority
    <3>1. CASE c \in DOMAIN want /\ cases[c] # SC!None
      <4>1. /\ HighRow(cases[c]) /\ read[c] # SC!None /\ Raises(read[c], want[c])
            /\ cases[c].priority >= read[c].priority
        BY <2>2, <3>1 DEF CaseInv, CopyInv
      <4>2. QED  BY <2>1, <3>1, <4>1, UpdatedRow
    <3>2. CASE c \in DOMAIN want /\ cases[c] = SC!None
      <4>1. read[c] = SC!None /\ HighRow(want[c])
        BY <2>2, <3>2 DEF CopyInv
      <4>2. QED  BY <2>1, <3>2, <4>1, NewRow
    <3>3. QED  BY <2>1, <3>1, <3>2
  <2>4. ASSUME NEW v \in SC!Jobs, NEW c \in DOMAIN caseTxs'[v].want, cases[c] = SC!None
        PROVE  cases'[c] = SC!None
    <3>1. v # w /\ c \in DOMAIN caseTxs[v].want
      BY <1>1, <1>2, <2>4
    <3>2. c \in Cases /\ c \notin DOMAIN want
      BY <2>4, <3>1 DEF CaseInv, CopyInv
    <3>3. QED  BY <2>1, <2>4, <3>2
  <2>5. QED  BY <1>1, <2>1, <2>3, <2>4, CaseGrows
<1>5. QED  BY <1>3, <1>4 DEF SC!Commit

LEMMA CaseLapses ==
    ASSUME CaseInv, NEW c \in Cases, SC!Lapse(c)
    PROVE  CaseInv' /\ PriorityStays
<1> DEFINE new == [cases[c] EXCEPT !.due = "past"]
<1>1. HighRow(cases[c]) /\ cases[c] # SC!None
  BY DEF CaseInv, SC!Lapse, SC!Rows
<1>2. HighRow(new) /\ new.priority = cases[c].priority
  BY <1>1 DEF HighRow, Row, Lifted, CaseColumns
<1>3. /\ DOMAIN cases' = Cases /\ caseTxs' = caseTxs
      /\ cases'[c] = new /\ \A d \in Cases \ {c} : cases'[d] = cases[d]
  BY DEF CaseInv, SC!Lapse
<1> HIDE DEF new
<1>4. new.priority >= cases[c].priority
  BY <1>1, <1>2 DEF HighRow, Row
<1>5. \A d \in Cases : \/ cases'[d] = cases[d]
                       \/ /\ HighRow(cases'[d])
                          /\ cases[d] # SC!None => cases'[d].priority >= cases[d].priority
  BY <1>2, <1>3, <1>4
<1>6. \A v \in SC!Jobs : \A d \in DOMAIN caseTxs'[v].want :
         cases[d] = SC!None => cases'[d] = SC!None
  BY <1>1, <1>3 DEF CaseInv
<1>7. DOMAIN caseTxs' = SC!Jobs
  BY <1>3 DEF CaseInv
<1>8. QED  BY <1>3, <1>5, <1>6, <1>7, CaseGrows

LEMMA InitCaseInv == SC!Init => CaseInv
<1> SUFFICES ASSUME SC!Init PROVE CaseInv
  OBVIOUS
<1>1. DOMAIN SC!Idle.want = {}
  BY DEF SC!Idle
<1>2. QED  BY <1>1 DEF SC!Init, CaseInv

LEMMA NextCaseInv == CaseInv /\ [SC!Next]_SC!vars => CaseInv' /\ (SC!Next => PriorityStays)
<1> SUFFICES ASSUME CaseInv, [SC!Next]_SC!vars
             PROVE  CaseInv' /\ (SC!Next => PriorityStays)
  OBVIOUS
<1>1. \A w \in CaseWorkers : w \in SC!Jobs
  BY DEF SC!Jobs
<1>2. \A c \in SC!Rows(cases) : c \in Cases /\ cases[c] # SC!None /\ HighRow(cases[c])
  BY DEF SC!Rows, CaseInv
<1>3. CASE UNCHANGED SC!vars
  <2>1. cases' = cases /\ caseTxs' = caseTxs
    BY <1>3 DEF SC!vars
  <2>2. DOMAIN cases' = Cases /\ DOMAIN caseTxs' = SC!Jobs
    BY <2>1 DEF CaseInv
  <2>3. QED  BY <2>1, <2>2, CaseGrows
<1>4. ASSUME NEW w \in CaseWorkers, NEW type \in Types, NEW ref \in Sources,
             SC!Open(w, type, ref) \/ SC!Merge(w, type, ref)
      PROVE  CaseInv' /\ PriorityStays
  <2>1. CASE SC!Open(w, type, ref)
    BY <2>1, CaseOpens
  <2>2. CASE SC!Merge(w, type, ref)
    <3>1. PICK c \in SC!Active(cases, type) :
             SC!Start(w, [d \in {c} |-> SC!Merged(cases[c], ref)])
      BY <2>2 DEF SC!Merge, SC!Request
    <3>2. c \in Cases /\ cases[c] # SC!None /\ HighRow(cases[c])
      BY <1>2, <3>1 DEF SC!Active
    <3>3. Raises(cases[c], SC!Merged(cases[c], ref))
      BY <3>2, Wanted
    <3>4. QED  BY <1>1, <3>1, <3>2, <3>3, CaseStarts
  <2>3. QED  BY <1>4, <2>1, <2>2
<1>5. ASSUME NEW w \in CaseWorkers, NEW c \in Cases,
             \/ \E target \in SC!Statuses : SC!Transition(w, c, target)
             \/ SC!Assign(w, c) \/ SC!Compensate(w, c)
      PROVE  CaseInv' /\ PriorityStays
  <2>1. cases[c] # SC!None /\ HighRow(cases[c])
    BY <1>2, <1>5 DEF SC!Transition, SC!Assign, SC!Compensate
  <2>2. PICK want : SC!Start(w, [d \in {c} |-> want]) /\ Raises(cases[c], want)
    BY <1>5, <2>1, Wanted DEF SC!Transition, SC!Assign, SC!Compensate, SC!Request
  <2>3. QED  BY <1>1, <2>1, <2>2, CaseStarts
<1>6. ASSUME NEW w \in SC!Jobs, SC!Commit(w) PROVE CaseInv' /\ PriorityStays
  BY <1>6, CaseCommits
<1>7. CASE SC!Escalate
  <2>1. "cron" \in SC!Jobs
    BY DEF SC!Jobs
  <2>2. \A c \in SC!Breached : c \in Cases /\ cases[c] # SC!None /\ HighRow(cases[c])
    BY DEF SC!Breached, SC!Overdue, CaseInv
  <2>3. \A c \in SC!Breached : Raises(cases[c], SC!Escalated(cases[c]))
    BY <2>2, Wanted
  <2>4. PICK batch \in SUBSET SC!Breached :
           SC!Start("cron", [c \in batch |-> SC!Escalated(cases[c])])
    BY <1>7 DEF SC!Escalate
  <2>5. QED  BY <2>1, <2>2, <2>3, <2>4, CaseStarts
<1>8. CASE SC!Rollback
  <2>1. /\ cases' = cases /\ DOMAIN cases' = Cases /\ DOMAIN caseTxs' = SC!Jobs
        /\ \A v \in SC!Jobs : caseTxs'[v] = caseTxs[v] \/ caseTxs'[v] = SC!Idle
    BY <1>8 DEF SC!Rollback, CaseInv
  <2>2. QED  BY <2>1, CaseGrows
<1>9. ASSUME NEW c \in Cases, SC!Lapse(c) PROVE CaseInv' /\ PriorityStays
  BY <1>9, CaseLapses
<1>10. QED  BY <1>3, <1>4, <1>5, <1>6, <1>7, <1>8, <1>9 DEF SC!Next

LEMMA CaseInvInvariant == SC!Spec => []CaseInv
BY InitCaseInv, NextCaseInv, PTL DEF SC!Spec

\* For any number of cases, of requests at the same time and of runs of the cron job:
\* a case that was escalated has the high priority, though an agent's or a turn's
\* transaction may write its metadata and its columns from a copy read before.
THEOREM EscalatedTheorem == SC!Spec => []EscalatedIsHigh
<1>1. CaseInv => EscalatedIsHigh
  BY DEF CaseInv, EscalatedIsHigh, HighRow, Lifted
<1>2. QED  BY <1>1, CaseInvInvariant, PTL

\* For any number of cases, of requests at the same time and of runs of the cron job:
\* a committed priority never falls.
THEOREM PriorityTheorem == SC!Spec => [][PriorityStays]_SC!vars
<1>1. CaseInv /\ [SC!Next]_SC!vars => [PriorityStays]_SC!vars
  BY NextCaseInv
<1>2. QED  BY <1>1, CaseInvInvariant, PTL DEF SC!Spec

-----------------------------------------------------------------------------
(***************************************************************************)
(* The chunker.  First what its operators on texts do with characters.     *)
(***************************************************************************)
Letters == Nat \X Nat
Texts == Seq(Letters)

LEMMA Lowest ==
    ASSUME NEW T, T \subseteq Nat, T # {}
    PROVE  \E x \in T : \A y \in T : x <= y
<1> DEFINE R == {ss \in Nat \X Nat : ss[1] < ss[2]}
<1>1. IsWellFoundedOn(R, Nat)
  BY NatLessThanWellFounded DEF OpToRel
<1>2. \E x \in T : \A y \in T : ~(<<y, x>> \in R)
  <2> HIDE DEF R
  <2>1. QED  BY <1>1, WFMin
<1>3. PICK x \in T : \A y \in T : ~(y < x)
  BY <1>2
<1>4. \A y \in T : x <= y
  BY <1>3
<1>5. QED  BY <1>4

LEMMA Highest ==
    ASSUME NEW n \in Nat, NEW T, T \subseteq 1 .. n, T # {}
    PROVE  \E x \in T : \A y \in T : x >= y
<1> DEFINE U == {k \in Nat : \A m \in T : m <= k}
<1>1. PICK k \in U : \A j \in U : k <= j
  <2>1. n \in U /\ U \subseteq Nat
    OBVIOUS
  <2> HIDE DEF U
  <2>2. QED  BY <2>1, Lowest
<1>2. k \in T
  <2>1. SUFFICES ASSUME k \notin T PROVE FALSE
    OBVIOUS
  <2>2. k # 0
    <3>1. PICK m \in T : TRUE
      OBVIOUS
    <3>2. m <= k /\ m \in 1 .. n
      BY <1>1
    <3>3. QED  BY <3>2
  <2>3. k - 1 \in U
    BY <1>1, <2>1, <2>2
  <2>4. QED  BY <1>1, <2>3
<1>3. QED  BY <1>1, <1>2

\* A character is in a text at some place, and is no white space.
LEMMA CharacterAt ==
    ASSUME NEW text, NEW c
    PROVE  c \in CH!Characters(text) <=> c # CH!Gap /\ \E k \in 1 .. Len(text) : c = text[k]
BY DEF CH!Characters

LEMMA GapIsLetter == CH!Gap \in Letters
BY DEF CH!Gap, Letters

LEMMA JoinedText ==
    ASSUME NEW above \in Texts, NEW below \in Texts
    PROVE  /\ CH!Joined(above, below) \in Texts
           /\ CH!Characters(CH!Joined(above, below))
                 = CH!Characters(above) \cup CH!Characters(below)
<1>1. CASE above = <<>>
  BY <1>1 DEF CH!Joined, CH!Characters
<1>2. CASE above # <<>> /\ below = <<>>
  BY <1>2 DEF CH!Joined, CH!Characters
<1>3. CASE above # <<>> /\ below # <<>>
  <2> DEFINE text == above \o <<CH!Gap>> \o below
  <2>1. CH!Joined(above, below) = text
    BY <1>3 DEF CH!Joined
  <2>2. /\ text \in Texts /\ Len(text) = Len(above) + 1 + Len(below)
        /\ Len(above) \in Nat /\ Len(below) \in Nat
        /\ \A k \in 1 .. Len(above) : text[k] = above[k]
        /\ text[Len(above) + 1] = CH!Gap
        /\ \A k \in 1 .. Len(below) : text[Len(above) + 1 + k] = below[k]
    BY GapIsLetter DEF Texts
  <2> HIDE DEF text
  <2>3. ASSUME NEW c \in CH!Characters(text)
        PROVE  c \in CH!Characters(above) \cup CH!Characters(below)
    <3>1. PICK k \in 1 .. Len(text) : c = text[k] /\ c # CH!Gap
      BY CharacterAt
    <3>2. CASE k <= Len(above)
      BY <2>2, <3>1, <3>2 DEF CH!Characters
    <3>3. CASE k > Len(above) + 1
      <4>1. k - (Len(above) + 1) \in 1 .. Len(below)
            /\ Len(above) + 1 + (k - (Len(above) + 1)) = k
        BY <2>2, <3>3
      <4>2. c = below[k - (Len(above) + 1)]
        BY <2>2, <3>1, <4>1
      <4>3. QED  BY <3>1, <4>1, <4>2, CharacterAt
    <3>4. QED  BY <2>2, <3>1, <3>2, <3>3
  <2>4. ASSUME NEW c \in CH!Characters(above) \cup CH!Characters(below)
        PROVE  c \in CH!Characters(text)
    <3>1. CASE c \in CH!Characters(above)
      <4>1. PICK k \in 1 .. Len(above) : c = above[k] /\ c # CH!Gap
        BY <3>1, CharacterAt
      <4>2. k \in 1 .. Len(text) /\ text[k] = c
        BY <2>2, <4>1
      <4>3. QED  BY <4>1, <4>2, CharacterAt
    <3>2. CASE c \in CH!Characters(below)
      <4>1. PICK k \in 1 .. Len(below) : c = below[k] /\ c # CH!Gap
        BY <3>2, CharacterAt
      <4>2. Len(above) + 1 + k \in 1 .. Len(text) /\ text[Len(above) + 1 + k] = c
        BY <2>2, <4>1
      <4>3. QED  BY <4>1, <4>2, CharacterAt
    <3>3. QED  BY <3>1, <3>2
  <2>5. QED  BY <2>1, <2>2, <2>3, <2>4
<1>4. QED  BY <1>1, <1>2, <1>3

\* A section of a text, and its characters.
LEMMA SectionOfText ==
    ASSUME NEW text \in Texts, NEW m \in Nat \ {0}, NEW n \in Nat, n <= Len(text)
    PROVE  /\ SubSeq(text, m, n) \in Texts
           /\ CH!Characters(SubSeq(text, m, n))
                 = {text[k] : k \in m .. n} \ {CH!Gap}
<1> DEFINE part == SubSeq(text, m, n)
<1>1. /\ part \in Texts /\ Len(text) \in Nat
      /\ Len(part) = IF m <= n THEN n - m + 1 ELSE 0
      /\ \A k \in 1 .. Len(part) : part[k] = text[m + k - 1]
  BY DEF Texts
<1> HIDE DEF part
<1>2. \A k \in 1 .. Len(part) : m + k - 1 \in m .. n
  BY <1>1
<1>3. \A k \in m .. n : k - m + 1 \in 1 .. Len(part) /\ part[k - m + 1] = text[k]
  BY <1>1
<1>4. {part[k] : k \in 1 .. Len(part)} = {text[k] : k \in m .. n}
  <2>1. \A k \in 1 .. Len(part) : part[k] \in {text[j] : j \in m .. n}
    BY <1>1, <1>2
  <2>2. \A k \in m .. n : text[k] \in {part[j] : j \in 1 .. Len(part)}
    BY <1>3
  <2>3. QED  BY <2>1, <2>2, Zenon
<1>5. CH!Characters(part) = {text[k] : k \in m .. n} \ {CH!Gap}
  BY <1>4 DEF CH!Characters
<1>6. QED  BY <1>1, <1>5 DEF part

LEMMA PrefixText ==
    ASSUME NEW text \in Texts, NEW n \in Nat
    PROVE  /\ CH!Prefix(text, n) \in Texts
           /\ CH!Characters(CH!Prefix(text, n)) \subseteq CH!Characters(text)
           /\ n <= Len(text) => CH!Prefix(text, n) = SubSeq(text, 1, n)
<1> DEFINE final == IF Len(text) < n THEN Len(text) ELSE n
<1>1. final \in Nat /\ final <= Len(text) /\ (n <= Len(text) => final = n)
  BY DEF Texts
<1>2. CH!Prefix(text, n) = SubSeq(text, 1, final)
  BY DEF CH!Prefix
<1> HIDE DEF final
<1>3. /\ SubSeq(text, 1, final) \in Texts
      /\ CH!Characters(SubSeq(text, 1, final)) = {text[k] : k \in 1 .. final} \ {CH!Gap}
  BY <1>1, SectionOfText
<1>4. \A k \in 1 .. final : k \in 1 .. Len(text)
  BY <1>1 DEF Texts
<1>5. QED  BY <1>1, <1>2, <1>3, <1>4 DEF CH!Characters

LEMMA SuffixText ==
    ASSUME NEW text \in Texts, NEW n \in Nat
    PROVE  /\ CH!Suffix(text, n) \in Texts
           /\ CH!Characters(CH!Suffix(text, n)) \subseteq CH!Characters(text)
<1> DEFINE first == IF Len(text) < n THEN 1 ELSE Len(text) - n + 1
<1>1. first \in Nat \ {0} /\ Len(text) \in Nat
  BY DEF Texts
<1>2. CH!Suffix(text, n) = SubSeq(text, first, Len(text))
  BY DEF CH!Suffix
<1> HIDE DEF first
<1>3. /\ SubSeq(text, first, Len(text)) \in Texts
      /\ CH!Characters(SubSeq(text, first, Len(text)))
            = {text[k] : k \in first .. Len(text)} \ {CH!Gap}
  BY <1>1, SectionOfText
<1>4. \A k \in first .. Len(text) : k \in 1 .. Len(text)
  BY <1>1
<1>5. QED  BY <1>2, <1>3, <1>4 DEF CH!Characters

\* strip takes white space only.
LEMMA StripText ==
    ASSUME NEW text \in Texts
    PROVE  /\ CH!Strip(text) \in Texts
           /\ CH!Characters(CH!Strip(text)) = CH!Characters(text)
<1> DEFINE words == {k \in 1 .. Len(text) : text[k] # CH!Gap}
           first == CHOOSE k \in words : \A j \in words : k <= j
           final == CHOOSE k \in words : \A j \in words : k >= j
<1>1. CH!Strip(text) = IF words = {} THEN <<>> ELSE SubSeq(text, first, final)
  BY DEF CH!Strip
<1>2. words \subseteq 1 .. Len(text) /\ words \subseteq Nat /\ Len(text) \in Nat
  BY DEF Texts
<1>3. CH!Characters(text) = {text[k] : k \in words}
  BY DEF CH!Characters
<1>4. CASE words = {}
  BY <1>1, <1>3, <1>4 DEF CH!Characters, Texts
<1>5. CASE words # {}
  <2> HIDE DEF words
  <2>1. first \in words /\ \A j \in words : first <= j
    BY <1>2, <1>5, Lowest
  <2>2. final \in words /\ \A j \in words : final >= j
    BY <1>2, <1>5, Highest
  <2> HIDE DEF first, final
  <2>3. first \in Nat \ {0} /\ final \in Nat /\ final <= Len(text)
    BY <1>2, <2>1, <2>2
  <2>4. /\ SubSeq(text, first, final) \in Texts
        /\ CH!Characters(SubSeq(text, first, final))
              = {text[k] : k \in first .. final} \ {CH!Gap}
    BY <2>3, SectionOfText
  <2>5. \A k \in words : k \in first .. final
    BY <1>2, <2>1, <2>2
  <2>6. \A k \in first .. final : text[k] # CH!Gap => k \in words
    BY <1>2, <2>3 DEF words
  <2>7. \A k \in words : text[k] # CH!Gap
    BY DEF words
  <2>8. {text[k] : k \in first .. final} \ {CH!Gap} = {text[k] : k \in words}
    BY <2>5, <2>6, <2>7
  <2>9. QED  BY <1>1, <1>3, <1>5, <2>4, <2>8
<1>6. QED  BY <1>4, <1>5

\* What is cut off a text at two places that overlap, or meet.
LEMMA CutText ==
    ASSUME NEW text \in Texts, NEW n \in Nat, n <= Len(text), NEW m \in 1 .. n + 1
    PROVE  /\ SubSeq(text, 1, n) \in Texts /\ SubSeq(text, m, Len(text)) \in Texts
           /\ CH!Characters(SubSeq(text, 1, n)) \subseteq CH!Characters(text)
           /\ CH!Characters(SubSeq(text, m, Len(text))) \subseteq CH!Characters(text)
           /\ CH!Characters(text) \subseteq CH!Characters(SubSeq(text, 1, n))
                                     \cup CH!Characters(SubSeq(text, m, Len(text)))
<1>1. Len(text) \in Nat /\ m \in Nat \ {0}
  BY DEF Texts
<1>2. /\ SubSeq(text, 1, n) \in Texts
      /\ CH!Characters(SubSeq(text, 1, n)) = {text[k] : k \in 1 .. n} \ {CH!Gap}
  BY SectionOfText
<1>3. /\ SubSeq(text, m, Len(text)) \in Texts
      /\ CH!Characters(SubSeq(text, m, Len(text)))
            = {text[k] : k \in m .. Len(text)} \ {CH!Gap}
  <2>1. Len(text) <= Len(text)
    BY <1>1
  <2>2. QED  BY <1>1, <2>1, SectionOfText
<1>4. /\ \A k \in 1 .. n : k \in 1 .. Len(text)
      /\ \A k \in m .. Len(text) : k \in 1 .. Len(text)
      /\ \A k \in 1 .. Len(text) : k \in 1 .. n \/ k \in m .. Len(text)
  BY <1>1
<1>5. CH!Characters(text) = {text[k] : k \in 1 .. Len(text)} \ {CH!Gap}
  BY DEF CH!Characters
<1>6. QED  BY <1>2, <1>3, <1>4, <1>5

LEMMA SentenceEnds ==
    ASSUME NEW text \in Texts, text # <<>>
    PROVE  CH!SentenceEnd(text) \in 1 .. Len(text)
<1> DEFINE ends == {k \in 1 .. Len(text) : CH!EndsSentence(text[k])} \cup {Len(text)}
<1>1. ends \subseteq 1 .. Len(text) /\ ends \subseteq Nat /\ ends # {}
  BY DEF Texts
<1>2. CH!SentenceEnd(text) = CHOOSE k \in ends : \A m \in ends : k <= m
  BY DEF CH!SentenceEnd
<1> HIDE DEF ends
<1>3. QED  BY <1>1, <1>2, Lowest

LEMMA ConcatText ==
    ASSUME NEW a \in Texts, NEW b \in Texts
    PROVE  /\ a \o b \in Texts
           /\ CH!Characters(a \o b) = CH!Characters(a) \cup CH!Characters(b)
<1> DEFINE text == a \o b
<1>1. /\ text \in Texts /\ Len(text) = Len(a) + Len(b)
      /\ Len(a) \in Nat /\ Len(b) \in Nat
      /\ \A k \in 1 .. Len(a) : text[k] = a[k]
      /\ \A k \in 1 .. Len(b) : text[Len(a) + k] = b[k]
  BY DEF Texts
<1> HIDE DEF text
<1>2. ASSUME NEW c \in CH!Characters(text)
      PROVE  c \in CH!Characters(a) \cup CH!Characters(b)
  <2>1. PICK k \in 1 .. Len(text) : c = text[k] /\ c # CH!Gap
    BY CharacterAt
  <2>2. CASE k <= Len(a)
    BY <1>1, <2>1, <2>2 DEF CH!Characters
  <2>3. CASE k > Len(a)
    <3>1. k - Len(a) \in 1 .. Len(b) /\ Len(a) + (k - Len(a)) = k
      BY <1>1, <2>3
    <3>2. c = b[k - Len(a)]
      BY <1>1, <2>1, <3>1
    <3>3. QED  BY <2>1, <3>1, <3>2, CharacterAt
  <2>4. QED  BY <1>1, <2>1, <2>2, <2>3
<1>3. ASSUME NEW c \in CH!Characters(a) PROVE c \in CH!Characters(text)
  <2>1. PICK k \in 1 .. Len(a) : c = a[k] /\ c # CH!Gap
    BY CharacterAt
  <2>2. k \in 1 .. Len(text) /\ text[k] = c
    BY <1>1, <2>1
  <2>3. QED  BY <2>1, <2>2, CharacterAt
<1>4. ASSUME NEW c \in CH!Characters(b) PROVE c \in CH!Characters(text)
  <2>1. PICK k \in 1 .. Len(b) : c = b[k] /\ c # CH!Gap
    BY CharacterAt
  <2>2. Len(a) + k \in 1 .. Len(text) /\ text[Len(a) + k] = c
    BY <1>1, <2>1
  <2>3. QED  BY <2>1, <2>2, CharacterAt
<1>5. text \in Texts /\ CH!Characters(text) = CH!Characters(a) \cup CH!Characters(b)
  BY <1>1, <1>2, <1>3, <1>4
<1>6. QED  BY <1>5 DEF text

\* The line breaks of a table are white space.
LEMMA LinesText ==
    ASSUME NEW rows \in Texts
    PROVE  /\ CH!OnLines(rows) \in Texts
           /\ CH!Characters(CH!OnLines(rows)) = CH!Characters(rows)
<1>1. CASE rows = <<>>
  <2>1. CH!OnLines(rows) = <<>>
    BY <1>1 DEF CH!OnLines
  <2>2. QED  BY <1>1, <2>1
<1>2. CASE rows # <<>>
  <2> DEFINE text == CH!OnLines(rows)
  <2>1. Len(rows) \in Nat \ {0} /\ \A k \in 1 .. Len(rows) : rows[k] \in Letters
    BY <1>2 DEF Texts
  <2>2. text = [k \in 1 .. 2 * Len(rows) - 1 |->
                  IF k % 2 = 1 THEN rows[(k + 1) \div 2] ELSE CH!Gap]
    BY DEF CH!OnLines
  <2> HIDE DEF text
  <2>3. \A k \in 1 .. 2 * Len(rows) - 1 : k % 2 = 1 => (k + 1) \div 2 \in 1 .. Len(rows)
    BY <2>1
  <2>4. /\ \A k \in 1 .. 2 * Len(rows) - 1 : text[k] \in Letters
        /\ 2 * Len(rows) - 1 \in Nat
    BY <2>1, <2>2, <2>3, GapIsLetter
  <2>5. text \in Texts /\ Len(text) = 2 * Len(rows) - 1
    BY <2>2, <2>4 DEF Texts
  <2>6. ASSUME NEW c \in CH!Characters(text) PROVE c \in CH!Characters(rows)
    <3>1. PICK k \in 1 .. Len(text) : c = text[k] /\ c # CH!Gap
      BY CharacterAt
    <3>2. k % 2 = 1 /\ c = rows[(k + 1) \div 2]
      BY <2>2, <2>5, <3>1
    <3>3. QED  BY <2>3, <2>5, <3>1, <3>2, CharacterAt
  <2>7. ASSUME NEW c \in CH!Characters(rows) PROVE c \in CH!Characters(text)
    <3>1. PICK k \in 1 .. Len(rows) : c = rows[k] /\ c # CH!Gap
      BY CharacterAt
    <3>2. /\ 2 * k - 1 \in 1 .. 2 * Len(rows) - 1
          /\ (2 * k - 1) % 2 = 1 /\ ((2 * k - 1) + 1) \div 2 = k
      BY <2>1
    <3>3. text[2 * k - 1] = c
      BY <2>2, <3>1, <3>2
    <3>4. QED  BY <2>5, <3>1, <3>2, <3>3, CharacterAt
  <2>8. QED  BY <2>5, <2>6, <2>7 DEF text
<1>3. QED  BY <1>1, <1>2

LEMMA Division ==
    ASSUME NEW a \in Nat, NEW b \in Nat \ {0}
    PROVE  a \div b \in Nat /\ b * (a \div b) <= a /\ a < b * (a \div b) + b
OBVIOUS

LEMMA DivisionGrows ==
    ASSUME NEW a \in Nat, NEW c \in Nat, a <= c, NEW b \in Nat \ {0}
    PROVE  a \div b <= c \div b
<1> DEFINE q == a \div b
           r == c \div b
<1>1. q \in Nat /\ b * q <= a /\ r \in Nat /\ c < b * r + b
  BY Division
<1> HIDE DEF q, r
<1>2. q > r => b * q >= b * r + b
  BY <1>1
<1>3. b * q \in Nat /\ b * r \in Nat
  BY <1>1
<1>4. q <= r
  BY <1>1, <1>2, <1>3
<1>5. QED  BY <1>4 DEF q, r

\* The slices of a table are of its text, and hold all of it.
LEMMA SlicesText ==
    ASSUME NEW text \in Texts
    PROVE  /\ CH!Slices(text) \in Seq(Texts)
           /\ \A g \in 1 .. Len(CH!Slices(text)) :
                 CH!Characters(CH!Slices(text)[g]) \subseteq CH!Characters(text)
           /\ \A c \in CH!Characters(text) : \E g \in 1 .. Len(CH!Slices(text)) :
                 c \in CH!Characters(CH!Slices(text)[g])
<1> DEFINE room == IF Size - 3 > RowsMin THEN Size - 3 ELSE RowsMin
           rows == (room + 1) \div 2
           Final(g) == IF 2 + g * rows < Len(text) THEN 2 + g * rows ELSE Len(text)
           whole == Len(text) <= 2 \/ Len(CH!OnLines(text)) <= Size
           number == (Len(text) - 3) \div rows + 1
           Slice(g) == SubSeq(text, 1, 2) \o SubSeq(text, 3 + (g - 1) * rows, Final(g))
           slices == CH!Slices(text)
<1>1. slices = IF whole THEN <<CH!OnLines(text)>>
               ELSE [g \in 1 .. number |-> CH!OnLines(Slice(g))]
  BY DEF CH!Slices
<1>2. CASE whole
  <2> HIDE DEF whole
  <2>1. slices = <<CH!OnLines(text)>>
    BY <1>1, <1>2
  <2> HIDE DEF slices
  <2>2. slices \in Seq(Texts) /\ Len(slices) = 1 /\ slices[1] = CH!OnLines(text)
    BY <2>1, LinesText
  <2>3. /\ \A g \in 1 .. Len(slices) : CH!Characters(slices[g]) \subseteq CH!Characters(text)
        /\ \A c \in CH!Characters(text) : \E g \in 1 .. Len(slices) :
              c \in CH!Characters(slices[g])
    BY <2>2, LinesText
  <2>4. QED  BY <2>2, <2>3 DEF slices
<1>3. CASE ~whole
  <2>1. rows \in Nat \ {0} /\ Len(text) \in Nat /\ Len(text) > 2
    BY <1>3, ServicesAssumption DEF CH!ChunkerAssumption, Texts
  <2>2. slices = [g \in 1 .. number |-> CH!OnLines(Slice(g))]
    BY <1>1, <1>3
  <2> HIDE DEF whole, rows, slices
  <2>3. number \in Nat \ {0}
    BY <2>1, Division
  <2>4. ASSUME NEW g \in 1 .. number
        PROVE  /\ Slice(g) \in Texts
               /\ CH!Characters(Slice(g)) =
                     ({text[k] : k \in 1 .. 2}
                        \cup {text[k] : k \in 3 + (g - 1) * rows .. Final(g)}) \ {CH!Gap}
               /\ 3 + (g - 1) * rows \in Nat \ {0}
               /\ Final(g) \in Nat /\ Final(g) <= Len(text)
    <3> DEFINE first == 3 + (g - 1) * rows
               final == Final(g)
    <3>1. first \in Nat \ {0} /\ final \in Nat /\ final <= Len(text)
      <4>1. (g - 1) * rows \in Nat /\ g * rows \in Nat
        BY <2>1, <2>3
      <4>2. QED  BY <2>1, <4>1
    <3> HIDE DEF first, final
    <3>2. /\ SubSeq(text, first, final) \in Texts
          /\ CH!Characters(SubSeq(text, first, final))
                = {text[k] : k \in first .. final} \ {CH!Gap}
      BY <3>1, SectionOfText
    <3>3. /\ SubSeq(text, 1, 2) \in Texts
          /\ CH!Characters(SubSeq(text, 1, 2)) = {text[k] : k \in 1 .. 2} \ {CH!Gap}
      BY <2>1, SectionOfText
    <3>4. LET slice == SubSeq(text, 1, 2) \o SubSeq(text, first, final)
          IN  /\ slice \in Texts
              /\ CH!Characters(slice) =
                     ({text[k] : k \in 1 .. 2} \cup {text[k] : k \in first .. final}) \ {CH!Gap}
      BY <3>2, <3>3, ConcatText
    <3>5. QED  BY <3>1, <3>4 DEF first, final
  <2> HIDE DEF number, Slice, Final
  <2>5. /\ slices \in Seq(Texts) /\ Len(slices) = number
        /\ \A g \in 1 .. number : CH!Characters(slices[g]) = CH!Characters(Slice(g))
    <3>1. \A g \in 1 .. number : CH!OnLines(Slice(g)) \in Texts
             /\ CH!Characters(CH!OnLines(Slice(g))) = CH!Characters(Slice(g))
      BY <2>4, LinesText
    <3>2. QED  BY <2>2, <2>3, <3>1
  <2>6. ASSUME NEW g \in 1 .. number
        PROVE  CH!Characters(Slice(g)) \subseteq CH!Characters(text)
    <3>1. \A k \in 1 .. 2 : k \in 1 .. Len(text)
      BY <2>1
    <3>2. \A k \in 3 + (g - 1) * rows .. Final(g) : k \in 1 .. Len(text)
      <4> DEFINE first == 3 + (g - 1) * rows
                 final == Final(g)
      <4>1. first \in Nat \ {0} /\ final \in Nat /\ final <= Len(text)
        BY <2>4
      <4> HIDE DEF first, final
      <4>2. \A k \in first .. final : k \in 1 .. Len(text)
        BY <2>1, <4>1
      <4>3. QED  BY <4>2 DEF first, final
    <3>3. ASSUME NEW c \in CH!Characters(Slice(g)) PROVE c \in CH!Characters(text)
      <4>1. /\ c # CH!Gap
            /\ \/ \E k \in 1 .. 2 : c = text[k]
               \/ \E k \in 3 + (g - 1) * rows .. Final(g) : c = text[k]
        <5> DEFINE A == {text[k] : k \in 1 .. 2}
                   B == {text[k] : k \in 3 + (g - 1) * rows .. Final(g)}
        <5>1. CH!Characters(Slice(g)) = (A \cup B) \ {CH!Gap}
          BY <2>4
        <5>2. /\ c \in A => \E k \in 1 .. 2 : c = text[k]
              /\ c \in B => \E k \in 3 + (g - 1) * rows .. Final(g) : c = text[k]
          BY Zenon
        <5> HIDE DEF A, B
        <5>3. c \in CH!Characters(Slice(g))
          BY <3>3
        <5>4. QED  BY <5>1, <5>2, <5>3
      <4>2. \E k \in 1 .. Len(text) : c = text[k]
        BY <3>1, <3>2, <4>1, Zenon
      <4>3. QED  BY <4>1, <4>2, CharacterAt
    <3>4. QED  BY <3>3
  <2>7. ASSUME NEW c \in CH!Characters(text)
        PROVE  \E g \in 1 .. number : c \in CH!Characters(Slice(g))
    <3>1. PICK k \in 1 .. Len(text) : c = text[k] /\ c # CH!Gap
      BY CharacterAt
    <3>2. CASE k <= 2
      <4>1. 1 \in 1 .. number /\ k \in 1 .. 2
        BY <2>3, <3>2
      <4>2. QED  BY <2>4, <3>1, <4>1
    <3>3. CASE k > 2
      <4> DEFINE q == (k - 3) \div rows
      <4>1. q \in Nat /\ rows * q <= k - 3 /\ k - 3 < rows * q + rows
        BY <2>1, <3>3, Division
      <4>2. q <= (Len(text) - 3) \div rows
        <5>1. k - 3 \in Nat /\ Len(text) - 3 \in Nat /\ k - 3 <= Len(text) - 3
          BY <2>1, <3>3
        <5>2. QED  BY <2>1, <5>1, DivisionGrows
      <4>3. q + 1 \in 1 .. number
        BY <2>1, <2>3, <4>1, <4>2 DEF number
      <4> HIDE DEF q
      <4>4. k \in 3 + ((q + 1) - 1) * rows .. Final(q + 1)
        <5>1. ((q + 1) - 1) * rows = rows * q /\ (q + 1) * rows = rows * q + rows
          BY <2>1, <4>1
        <5>2. rows * q \in Nat
          BY <2>1, <4>1
        <5>3. QED  BY <2>1, <4>1, <5>1, <5>2 DEF Final
      <4>5. QED  BY <2>4, <3>1, <4>3, <4>4
    <3>4. QED  BY <2>1, <3>2, <3>3
  <2>8. QED  BY <2>5, <2>6, <2>7 DEF slices
<1>4. QED  BY <1>2, <1>3

-----------------------------------------------------------------------------
(***************************************************************************)
(* Why the chunker loses nothing.  NothingLost speaks of the passages; the *)
(* strengthening says of the text in hand, and of the paragraph that may   *)
(* introduce a table, that all of it is of the section the heading stack   *)
(* names, and of the stack, which is popped and pushed, that it is the     *)
(* section of the place the walk has come to.                              *)
(***************************************************************************)
Part == [path : SUBSET Nat, body : Texts]
Passage == [type : {"paragraph", "table", "image", "code"}, path : SUBSET Nat, parts : Seq(Part)]

ChunkTypes ==
    /\ source \in Seq(Blocks)
    /\ next \in 1 .. Len(source) + 1
    /\ stack \in SUBSET Nat
    /\ paras \in Texts /\ pieces \in Texts /\ buf \in Texts /\ last \in Texts
    /\ cut \in Seq(Passage) /\ merged \in Seq(Passage)

OfSection(c) == CH!Section(c[1]) = stack

\* Everything that was read and can still be found.
Held == CH!InHand \cup UNION {CH!Characters(p.body) : p \in CH!Passages}

ChunkInv ==
    /\ ChunkTypes
    /\ stack = CH!Section(next)
    /\ \A c \in CH!InHand \cup CH!Characters(last) : OfSection(c)
    /\ NothingLost

LEMMA SourceBlocks ==
    ASSUME ChunkTypes
    PROVE  /\ Len(source) \in Nat /\ next \in Nat \ {0}
           /\ \A i \in 1 .. Len(source) :
                 source[i] \in Blocks /\ source[i].level \in Nat /\ source[i].size \in Nat
BY ServicesAssumption DEF ChunkTypes, CH!ChunkerAssumption

\* The section after a block that is no heading, and after a heading.
LEMMA SectionStays ==
    ASSUME ChunkTypes, NEW i \in 1 .. Len(source), source[i].type # "heading"
    PROVE  CH!Section(i + 1) = CH!Section(i)
<1>1. i \in Nat /\ (i + 1) - 1 = i
  BY SourceBlocks
<1>2. ASSUME NEW h \in CH!Section(i + 1) PROVE h \in CH!Section(i)
  <2>1. /\ h \in 1 .. i /\ source[h].type = "heading"
        /\ \A g \in h + 1 .. i : source[g].type = "heading" => source[g].level > source[h].level
    BY <1>1, <1>2 DEF CH!Section
  <2>2. h \in 1 .. i - 1 /\ \A g \in h + 1 .. i - 1 : g \in h + 1 .. i
    BY <1>1, <2>1
  <2>3. QED  BY <2>1, <2>2 DEF CH!Section
<1>3. ASSUME NEW h \in CH!Section(i) PROVE h \in CH!Section(i + 1)
  <2>1. /\ h \in 1 .. i - 1 /\ source[h].type = "heading"
        /\ \A g \in h + 1 .. i - 1 : source[g].type = "heading" => source[g].level > source[h].level
    BY <1>3 DEF CH!Section
  <2>2. h \in 1 .. i /\ \A g \in h + 1 .. i : g \in h + 1 .. i - 1 \/ g = i
    BY <1>1, <2>1
  <2>3. QED  BY <1>1, <2>1, <2>2 DEF CH!Section
<1>4. QED  BY <1>2, <1>3

LEMMA SectionOpens ==
    ASSUME ChunkTypes, NEW i \in 1 .. Len(source), source[i].type = "heading"
    PROVE  CH!Section(i + 1) =
              {h \in CH!Section(i) : \E g \in CH!Section(i) :
                  g >= h /\ source[g].level < source[i].level} \cup {i}
<1> DEFINE kept == {h \in CH!Section(i) : \E g \in CH!Section(i) :
                       g >= h /\ source[g].level < source[i].level}
<1>1. i \in Nat \ {0} /\ (i + 1) - 1 = i /\ source[i].level \in Nat
  BY SourceBlocks
<1>2. ASSUME NEW h \in CH!Section(i + 1), h # i PROVE h \in kept
  <2>1. /\ h \in 1 .. i /\ source[h].type = "heading"
        /\ \A g \in h + 1 .. i : source[g].type = "heading" => source[g].level > source[h].level
    BY <1>1, <1>2 DEF CH!Section
  <2>2. h \in 1 .. i - 1 /\ i \in h + 1 .. i /\ \A g \in h + 1 .. i - 1 : g \in h + 1 .. i
    BY <1>1, <1>2, <2>1
  <2>3. h \in CH!Section(i)
    BY <2>1, <2>2 DEF CH!Section
  <2>4. source[i].level > source[h].level /\ h >= h /\ source[h].level \in Nat
    BY <2>1, <2>2, SourceBlocks
  <2>5. source[h].level < source[i].level
    BY <1>1, <2>4
  <2>6. QED  BY <2>3, <2>4, <2>5
<1>3. ASSUME NEW h \in kept PROVE h \in CH!Section(i + 1)
  <2>1. PICK g \in CH!Section(i) : g >= h /\ source[g].level < source[i].level
    BY <1>3
  <2>2. /\ h \in 1 .. i - 1 /\ source[h].type = "heading"
        /\ \A j \in h + 1 .. i - 1 : source[j].type = "heading" => source[j].level > source[h].level
    BY <1>3 DEF CH!Section
  <2>3. g \in 1 .. i - 1 /\ source[g].type = "heading"
    BY <2>1 DEF CH!Section
  <2>4. source[h].level < source[i].level
    <3>1. g = h \/ g \in h + 1 .. i - 1
      BY <1>1, <2>1, <2>2, <2>3
    <3>2. /\ h \in 1 .. Len(source) /\ g \in 1 .. Len(source)
          /\ source[h].level \in Nat /\ source[g].level \in Nat
      BY <2>2, <2>3, SourceBlocks
    <3>3. g = h \/ source[g].level > source[h].level
      BY <2>2, <2>3, <3>1
    <3>4. QED  BY <1>1, <2>1, <3>2, <3>3
  <2>5. source[i].level > source[h].level
    <3>1. h \in 1 .. Len(source) /\ source[h].level \in Nat
      BY <2>2, SourceBlocks
    <3>2. QED  BY <1>1, <2>4, <3>1
  <2>6. h \in 1 .. i /\ \A j \in h + 1 .. i : j \in h + 1 .. i - 1 \/ j = i
    BY <1>1, <2>2
  <2>7. QED  BY <1>1, <2>2, <2>5, <2>6 DEF CH!Section
<1>4. i \in CH!Section(i + 1)
  <2>1. i \in 1 .. i /\ \A g \in i + 1 .. i : FALSE
    BY <1>1
  <2>2. QED  BY <1>1, <2>1 DEF CH!Section
<1>5. QED  BY <1>2, <1>3, <1>4

-----------------------------------------------------------------------------
(* The parts of passages *)

PartsOf(chunk) == {chunk.parts[p] : p \in 1 .. Len(chunk.parts)}

LEMMA PartsAre ==
    ASSUME NEW passages
    PROVE  CH!Parts(passages) = UNION {PartsOf(passages[c]) : c \in 1 .. Len(passages)}
BY DEF CH!Parts, PartsOf

LEMMA ChunkIs ==
    ASSUME NEW type \in {"paragraph", "table", "image", "code"}, NEW body \in Texts,
           stack \in SUBSET Nat
    PROVE  /\ CH!Chunk(type, body) \in Passage
           /\ PartsOf(CH!Chunk(type, body)) = {[path |-> stack, body |-> body]}
<1> DEFINE part == [path |-> stack, body |-> body]
<1>1. part \in Part /\ <<part>> \in Seq(Part) /\ Len(<<part>>) = 1 /\ <<part>>[1] = part
  BY DEF Part
<1>2. CH!Chunk(type, body) = [type |-> type, path |-> stack, parts |-> <<part>>]
  BY DEF CH!Chunk
<1> HIDE DEF part
<1>3. CH!Chunk(type, body) \in Passage /\ CH!Chunk(type, body).parts = <<part>>
  BY <1>1, <1>2 DEF Passage
<1>4. PartsOf(CH!Chunk(type, body)) = {part}
  BY <1>1, <1>3 DEF PartsOf
<1>5. QED  BY <1>3, <1>4 DEF part

LEMMA PartsConcat ==
    ASSUME NEW S, NEW a \in Seq(S), NEW b \in Seq(S)
    PROVE  CH!Parts(a \o b) = CH!Parts(a) \cup CH!Parts(b)
<1> DEFINE s == a \o b
<1>1. /\ Len(s) = Len(a) + Len(b) /\ Len(a) \in Nat /\ Len(b) \in Nat
      /\ \A k \in 1 .. Len(a) : s[k] = a[k]
      /\ \A k \in 1 .. Len(b) : s[Len(a) + k] = b[k]
  OBVIOUS
<1> HIDE DEF s
<1>2. ASSUME NEW p \in CH!Parts(s) PROVE p \in CH!Parts(a) \cup CH!Parts(b)
  <2>1. PICK k \in 1 .. Len(s) : p \in PartsOf(s[k])
    BY PartsAre, Zenon
  <2>2. CASE k <= Len(a)
    <3>1. k \in 1 .. Len(a) /\ p \in PartsOf(a[k])
      BY <1>1, <2>1, <2>2
    <3>2. QED  BY <3>1, PartsAre, Zenon
  <2>3. CASE k > Len(a)
    <3>1. k - Len(a) \in 1 .. Len(b) /\ Len(a) + (k - Len(a)) = k
      BY <1>1, <2>3
    <3>2. p \in PartsOf(b[k - Len(a)])
      BY <1>1, <2>1, <3>1
    <3>3. QED  BY <3>1, <3>2, PartsAre, Zenon
  <2>4. QED  BY <1>1, <2>1, <2>2, <2>3
<1>3. ASSUME NEW p \in CH!Parts(a) PROVE p \in CH!Parts(s)
  <2>1. PICK k \in 1 .. Len(a) : p \in PartsOf(a[k])
    BY PartsAre, Zenon
  <2>2. k \in 1 .. Len(s) /\ p \in PartsOf(s[k])
    BY <1>1, <2>1
  <2>3. QED  BY <2>2, PartsAre, Zenon
<1>4. ASSUME NEW p \in CH!Parts(b) PROVE p \in CH!Parts(s)
  <2>1. PICK k \in 1 .. Len(b) : p \in PartsOf(b[k])
    BY PartsAre, Zenon
  <2>2. Len(a) + k \in 1 .. Len(s) /\ p \in PartsOf(s[Len(a) + k])
    BY <1>1, <2>1
  <2>3. QED  BY <2>2, PartsAre, Zenon
<1>5. CH!Parts(s) = CH!Parts(a) \cup CH!Parts(b)
  BY <1>2, <1>3, <1>4
<1>6. QED  BY <1>5 DEF s

LEMMA PartsOne ==
    ASSUME NEW chunk
    PROVE  CH!Parts(<<chunk>>) = PartsOf(chunk)
<1>1. Len(<<chunk>>) = 1 /\ <<chunk>>[1] = chunk
  OBVIOUS
<1>2. CH!Parts(<<chunk>>) = UNION {PartsOf(<<chunk>>[c]) : c \in 1 .. Len(<<chunk>>)}
  BY PartsAre
<1>3. QED  BY <1>1, <1>2

LEMMA PartsAppend ==
    ASSUME NEW S, NEW s \in Seq(S), NEW chunk \in S
    PROVE  CH!Parts(Append(s, chunk)) = CH!Parts(s) \cup PartsOf(chunk)
<1>1. Append(s, chunk) = s \o <<chunk>> /\ <<chunk>> \in Seq(S)
  OBVIOUS
<1>2. CH!Parts(s \o <<chunk>>) = CH!Parts(s) \cup CH!Parts(<<chunk>>)
  BY <1>1, PartsConcat
<1>3. QED  BY <1>1, <1>2, PartsOne, Zenon

LEMMA JoinParts ==
    ASSUME NEW done \in Seq(Passage), NEW chunk \in Passage
    PROVE  /\ CH!Join(done, chunk) \in Seq(Passage)
           /\ CH!Parts(CH!Join(done, chunk)) = CH!Parts(done) \cup PartsOf(chunk)
<1>1. CASE CH!Join(done, chunk) = Append(done, chunk)
  BY <1>1, PartsAppend
<1>2. CASE /\ done # <<>>
           /\ CH!Join(done, chunk) = Append(CH!Front(done),
                 [CH!Last(done) EXCEPT !.parts = CH!Last(done).parts \o chunk.parts])
  <2> DEFINE front == SubSeq(done, 1, Len(done) - 1)
             final == done[Len(done)]
             longer == [final EXCEPT !.parts = final.parts \o chunk.parts]
  <2>1. front \in Seq(Passage) /\ final \in Passage /\ done = Append(front, final)
    BY <1>2
  <2>2. CH!Join(done, chunk) = Append(front, longer)
    BY <1>2 DEF CH!Front, CH!Last
  <2> HIDE DEF front, final
  <2>3. /\ final.parts \in Seq(Part) /\ chunk.parts \in Seq(Part)
        /\ final.parts \o chunk.parts \in Seq(Part)
    BY <2>1 DEF Passage
  <2>4. longer \in Passage /\ longer.parts = final.parts \o chunk.parts
    BY <2>1, <2>3 DEF Passage
  <2> HIDE DEF longer
  <2>5. PartsOf(longer) = PartsOf(final) \cup PartsOf(chunk)
    <3> DEFINE a == final.parts
               b == chunk.parts
               s == longer.parts
    <3>1. a \in Seq(Part) /\ b \in Seq(Part) /\ s = a \o b
      BY <2>3, <2>4
    <3>2. /\ PartsOf(longer) = {s[k] : k \in 1 .. Len(s)}
          /\ PartsOf(final) = {a[k] : k \in 1 .. Len(a)}
          /\ PartsOf(chunk) = {b[k] : k \in 1 .. Len(b)}
      BY DEF PartsOf
    <3> HIDE DEF a, b, s
    <3>3. /\ Len(s) = Len(a) + Len(b) /\ Len(a) \in Nat /\ Len(b) \in Nat
          /\ \A k \in 1 .. Len(a) : s[k] = a[k]
          /\ \A k \in 1 .. Len(b) : s[Len(a) + k] = b[k]
      BY <3>1
    <3>4. ASSUME NEW k \in 1 .. Len(s)
          PROVE  s[k] \in {a[j] : j \in 1 .. Len(a)} \cup {b[j] : j \in 1 .. Len(b)}
      <4>1. CASE k <= Len(a)
        BY <3>3, <4>1
      <4>2. CASE k > Len(a)
        <5>1. k - Len(a) \in 1 .. Len(b) /\ Len(a) + (k - Len(a)) = k
          BY <3>3, <4>2
        <5>2. QED  BY <3>3, <5>1
      <4>3. QED  BY <3>3, <4>1, <4>2
    <3>5. ASSUME NEW k \in 1 .. Len(a) PROVE a[k] \in {s[j] : j \in 1 .. Len(s)}
      <4>1. k \in 1 .. Len(s) /\ s[k] = a[k]
        BY <3>3
      <4>2. QED  BY <4>1
    <3>6. ASSUME NEW k \in 1 .. Len(b) PROVE b[k] \in {s[j] : j \in 1 .. Len(s)}
      <4>1. Len(a) + k \in 1 .. Len(s) /\ s[Len(a) + k] = b[k]
        BY <3>3
      <4>2. QED  BY <4>1
    <3>7. QED  BY <3>2, <3>4, <3>5, <3>6
  <2>6. /\ Append(front, longer) \in Seq(Passage)
        /\ CH!Parts(Append(front, longer)) = CH!Parts(front) \cup PartsOf(longer)
        /\ CH!Parts(done) = CH!Parts(front) \cup PartsOf(final)
    BY <2>1, <2>4, PartsAppend
  <2>7. QED  BY <2>2, <2>5, <2>6
<1>3. QED  BY <1>1, <1>2 DEF CH!Join

-----------------------------------------------------------------------------
(* What every step has to show *)

LEMMA SameSection ==
    ASSUME source' = source, NEW i
    PROVE  CH!Section(i)' = CH!Section(i)
BY DEF CH!Section

LEMMA ChunkStep ==
    ASSUME ChunkInv, ChunkTypes', source' = source, next' \in {next, next + 1},
           stack' = CH!Section(next'),
           \A c \in CH!InHand' \cup CH!Characters(last') : CH!Section(c[1]) = stack',
           \A p \in CH!Passages' : p \in CH!Passages
              \/ \A c \in CH!Characters(p.body) : p.path = CH!Section(c[1]),
           Held \subseteq Held',
           next' = next + 1 /\ source[next].type # "heading"
              => \A k \in 1 .. source[next].size : <<next, k>> \in Held'
    PROVE  ChunkInv'
<1>1. \A i : CH!Section(i)' = CH!Section(i)
  BY SameSection
<1>2. stack' = CH!Section(next)'
  BY DEF CH!Section
<1>3. \A c \in (CH!InHand \cup CH!Characters(last))' : OfSection(c)'
  BY <1>1 DEF OfSection
<1>4. \A p \in CH!Passages' : \A c \in CH!Characters(p.body) : p.path = CH!Section(c[1])'
  BY <1>1 DEF ChunkInv, NothingLost, CH!NothingLost
<1>5. \A i \in 1 .. next' - 1 : source[i].type # "heading" =>
         \A k \in 1 .. source[i].size : <<i, k>> \in Held'
  <2>1. next \in Nat \ {0}
    BY SourceBlocks DEF ChunkInv
  <2>2. \A i \in 1 .. next - 1 : source[i].type # "heading" =>
           \A k \in 1 .. source[i].size : <<i, k>> \in Held
    BY DEF ChunkInv, NothingLost, CH!NothingLost, Held
  <2>3. \A i \in 1 .. next' - 1 : i \in 1 .. next - 1 \/ (i = next /\ next' = next + 1)
    <3>1. CASE next' = next
      BY <3>1
    <3>2. CASE next' = next + 1
      <4>1. \A i \in 1 .. next : i \in 1 .. next - 1 \/ i = next
        BY <2>1
      <4>2. next' - 1 = next
        BY <2>1, <3>2
      <4>3. QED  BY <3>2, <4>1, <4>2
    <3>3. QED  BY <3>1, <3>2
  <2>4. QED  BY <2>2, <2>3
<1>6. NothingLost'
  BY <1>4, <1>5 DEF NothingLost, CH!NothingLost, Held
<1>7. QED  BY <1>2, <1>3, <1>6 DEF ChunkInv

\* The text of a block.
LEMMA BlockText ==
    ASSUME ChunkTypes, NEW i \in 1 .. Len(source)
    PROVE  /\ CH!Text(i) \in Texts
           /\ CH!Characters(CH!Text(i)) = {<<i, k>> : k \in 1 .. source[i].size}
<1>1. i \in Nat \ {0} /\ source[i].size \in Nat
  BY SourceBlocks
<1>2. CH!Text(i) = [k \in 1 .. source[i].size |-> <<i, k>>]
  BY DEF CH!Text
<1>3. CH!Text(i) \in Texts /\ Len(CH!Text(i)) = source[i].size
  <2>1. \A k \in 1 .. source[i].size : <<i, k>> \in Letters
    BY <1>1 DEF Letters
  <2>2. QED  BY <1>1, <1>2, <2>1 DEF Texts
<1>4. \A k : <<i, k>> # CH!Gap
  BY <1>1 DEF CH!Gap
<1>5. \A k \in 1 .. source[i].size : CH!Text(i)[k] = <<i, k>>
  BY <1>2
<1>6. {CH!Text(i)[k] : k \in 1 .. Len(CH!Text(i))} = {<<i, k>> : k \in 1 .. source[i].size}
  BY <1>3, <1>5
<1>7. CH!Characters(CH!Text(i)) = {<<i, k>> : k \in 1 .. source[i].size}
  BY <1>4, <1>6 DEF CH!Characters
<1>8. QED  BY <1>3, <1>7

NewParts(bodies) == {[path |-> stack, body |-> b] : b \in bodies}
InBodies(bodies) == UNION {CH!Characters(b) : b \in bodies}

\* Text in hand becomes the bodies of new passages, or stays in hand.
Splits(bodies) ==
    /\ ChunkTypes' /\ UNCHANGED <<source, next, stack, last, merged>>
    /\ InBodies(bodies) \subseteq CH!InHand
    /\ CH!Parts(cut') = CH!Parts(cut) \cup NewParts(bodies)
    /\ CH!InHand' \subseteq CH!InHand
    /\ CH!InHand \subseteq CH!InHand' \cup InBodies(bodies)

LEMMA SplitStep ==
    ASSUME ChunkInv, NEW bodies, Splits(bodies)
    PROVE  ChunkInv'
<1> USE DEF Splits
<1> DEFINE new == NewParts(bodies)
<1>1. CH!Passages' = CH!Passages \cup new
  BY DEF CH!Passages
<1>2. \A p \in new : p.path = stack /\ p.body \in bodies
  BY DEF NewParts
<1>3. \A b \in bodies : \E p \in new : p.body = b
  <2>1. \A b \in bodies : [path |-> stack, body |-> b] \in new
                            /\ [path |-> stack, body |-> b].body = b
    BY DEF NewParts
  <2> HIDE DEF new
  <2>2. QED  BY <2>1, Zenon
<1> HIDE DEF new
<1>4. Held \subseteq Held'
  <2>1. ASSUME NEW c \in CH!InHand PROVE c \in Held'
    BY <1>1, <1>3 DEF Held, InBodies
  <2>2. ASSUME NEW p \in CH!Passages, NEW c \in CH!Characters(p.body) PROVE c \in Held'
    BY <1>1 DEF Held
  <2>3. QED  BY <2>1, <2>2 DEF Held
<1>5. \A c \in CH!InHand : CH!Section(c[1]) = stack
  BY DEF ChunkInv, OfSection
<1>6. \A p \in CH!Passages' : p \in CH!Passages
         \/ \A c \in CH!Characters(p.body) : p.path = CH!Section(c[1])
  BY <1>1, <1>2, <1>5 DEF InBodies
<1>7. \A c \in CH!InHand' \cup CH!Characters(last') : CH!Section(c[1]) = stack'
  BY DEF ChunkInv, OfSection
<1>8. stack' = CH!Section(next') /\ next' # next + 1
  BY SourceBlocks DEF ChunkInv
<1>9. QED  BY <1>4, <1>6, <1>7, <1>8, ChunkStep

\* A block is read into the buffer of paragraphs, or becomes passages, in which text of
\* its neighbours may stand before or behind its own.
Reads(bodies) ==
    /\ ChunkTypes' /\ next \in 1 .. Len(source) /\ source[next].type # "heading"
    /\ next' = next + 1 /\ UNCHANGED <<source, stack, pieces, buf, merged>>
    /\ \A c \in InBodies(bodies) : OfSection(c)
    /\ CH!Parts(cut') = CH!Parts(cut) \cup NewParts(bodies)
    /\ CH!Characters(paras) \subseteq CH!Characters(paras')
    /\ \A c \in CH!Characters(paras') \cup CH!Characters(last') : OfSection(c)
    /\ CH!Characters(CH!Text(next)) \subseteq CH!Characters(paras') \cup InBodies(bodies)

LEMMA ReadStep ==
    ASSUME ChunkInv, NEW bodies, Reads(bodies)
    PROVE  ChunkInv'
<1> USE DEF Reads
<1> DEFINE new == NewParts(bodies)
<1>1. CH!Passages' = CH!Passages \cup new
  BY DEF CH!Passages
<1>2. \A p \in new : p.path = stack /\ p.body \in bodies
  BY DEF NewParts
<1>3. \A b \in bodies : \E p \in new : p.body = b
  <2>1. \A b \in bodies : [path |-> stack, body |-> b] \in new
                            /\ [path |-> stack, body |-> b].body = b
    BY DEF NewParts
  <2> HIDE DEF new
  <2>2. QED  BY <2>1, Zenon
<1> HIDE DEF new
<1>4. CH!InHand \subseteq CH!InHand'
  BY DEF CH!InHand
<1>5. Held \subseteq Held'
  <2>1. ASSUME NEW c \in CH!InHand PROVE c \in Held'
    BY <1>4 DEF Held
  <2>2. ASSUME NEW p \in CH!Passages, NEW c \in CH!Characters(p.body) PROVE c \in Held'
    BY <1>1 DEF Held
  <2>3. QED  BY <2>1, <2>2 DEF Held
<1>6. \A k \in 1 .. source[next].size : <<next, k>> \in Held'
  <2>1. CH!Characters(paras') \subseteq CH!InHand'
    BY DEF CH!InHand
  <2>2. ASSUME NEW c \in CH!Characters(CH!Text(next)) PROVE c \in Held'
    BY <1>1, <1>3, <2>1 DEF Held, InBodies
  <2>3. ChunkTypes
    BY DEF ChunkInv
  <2>4. QED  BY <2>2, <2>3, BlockText
<1>7. \A p \in CH!Passages' : p \in CH!Passages
         \/ \A c \in CH!Characters(p.body) : p.path = CH!Section(c[1])
  BY <1>1, <1>2 DEF OfSection, InBodies
<1>8. \A c \in CH!InHand' \cup CH!Characters(last') : CH!Section(c[1]) = stack'
  <2>1. CH!InHand' = CH!Characters(paras') \cup CH!Characters(pieces) \cup CH!Characters(buf)
    BY DEF CH!InHand
  <2>2. \A c \in CH!Characters(pieces) \cup CH!Characters(buf) : OfSection(c)
    BY DEF ChunkInv, CH!InHand
  <2>3. QED  BY <2>1, <2>2 DEF OfSection
<1>9. stack' = CH!Section(next')
  BY SectionStays DEF ChunkInv
<1>10. QED  BY <1>5, <1>6, <1>7, <1>8, <1>9, ChunkStep

\* No new passage, and one.
LEMMA NoNewParts ==
    NewParts({}) = {} /\ InBodies({}) = {}
BY DEF NewParts, InBodies

LEMMA OneNewPart ==
    ASSUME ChunkTypes, NEW type \in {"paragraph", "table", "image", "code"}, NEW body \in Texts
    PROVE  /\ Append(cut, CH!Chunk(type, body)) \in Seq(Passage)
           /\ CH!Parts(Append(cut, CH!Chunk(type, body)))
                = CH!Parts(cut) \cup NewParts({body})
           /\ InBodies({body}) = CH!Characters(body)
<1>1. /\ CH!Chunk(type, body) \in Passage
      /\ PartsOf(CH!Chunk(type, body)) = {[path |-> stack, body |-> body]}
  BY ChunkIs DEF ChunkTypes
<1>2. NewParts({body}) = {[path |-> stack, body |-> body]}
  BY DEF NewParts
<1>3. InBodies({body}) = CH!Characters(body)
  BY DEF InBodies
<1>4. /\ Append(cut, CH!Chunk(type, body)) \in Seq(Passage)
      /\ CH!Parts(Append(cut, CH!Chunk(type, body)))
            = CH!Parts(cut) \cup PartsOf(CH!Chunk(type, body))
  BY <1>1, PartsAppend DEF ChunkTypes
<1>5. QED  BY <1>1, <1>2, <1>3, <1>4

-----------------------------------------------------------------------------
(* The steps *)

LEMMA Flushes == ChunkInv /\ CH!Flush => ChunkInv'
<1> SUFFICES ASSUME ChunkInv, CH!Flush PROVE ChunkInv'
  OBVIOUS
<1>1. /\ UNCHANGED <<source, next, stack, last, cut, merged>>
      /\ pieces = <<>> /\ buf = <<>> /\ paras' = <<>>
      /\ \/ buf' = paras /\ pieces' = pieces
         \/ pieces' = paras /\ buf' = buf
  BY DEF CH!Flush, CH!Splitting
<1>2. ChunkTypes' /\ CH!Characters(<<>>) = {}
  <2>1. <<>> \in Texts /\ CH!Characters(<<>>) = {}
    BY DEF Texts, CH!Characters
  <2>2. QED  BY <1>1, <2>1 DEF ChunkInv, ChunkTypes
<1>3. CH!InHand' = CH!InHand
  BY <1>1, <1>2 DEF CH!InHand
<1>4. CH!Parts(cut') = CH!Parts(cut)
  BY <1>1
<1>5. Splits({})
  BY <1>1, <1>2, <1>3, <1>4, NoNewParts DEF Splits
<1>6. QED  BY <1>5, SplitStep

LEMMA Merges == ChunkInv /\ CH!Merge => ChunkInv'
<1> SUFFICES ASSUME ChunkInv, CH!Merge PROVE ChunkInv'
  OBVIOUS
<1> DEFINE end == CH!SentenceEnd(pieces)
           sentence == SubSeq(pieces, 1, end)
           piece == CH!Strip(sentence)
           rest == SubSeq(pieces, end + 1, Len(pieces))
           full == buf # <<>> /\ Len(buf) + Len(piece) + 1 > Size
           kept == IF full THEN CH!Suffix(buf, Overlap) ELSE buf
<1>1. /\ pieces # <<>> /\ UNCHANGED <<source, next, stack, paras, last, merged>>
      /\ cut' = IF full THEN Append(cut, CH!Chunk("paragraph", buf)) ELSE cut
      /\ buf' = CH!Joined(kept, piece)
      /\ pieces' = rest
  BY DEF CH!Merge
<1>2. ChunkTypes /\ pieces \in Texts /\ buf \in Texts /\ paras \in Texts /\ Len(pieces) \in Nat
  BY DEF ChunkInv, ChunkTypes, Texts
<1>3. end \in 1 .. Len(pieces)
  BY <1>1, <1>2, SentenceEnds
<1> HIDE DEF end, full
<1>4. /\ sentence \in Texts /\ rest \in Texts
      /\ CH!Characters(sentence) \subseteq CH!Characters(pieces)
      /\ CH!Characters(rest) \subseteq CH!Characters(pieces)
      /\ CH!Characters(pieces) \subseteq CH!Characters(sentence) \cup CH!Characters(rest)
  <2>1. end \in Nat /\ end <= Len(pieces) /\ end + 1 \in 1 .. end + 1
    BY <1>2, <1>3
  <2>2. QED  BY <1>2, <2>1, CutText
<1>5. piece \in Texts /\ CH!Characters(piece) = CH!Characters(sentence)
  BY <1>4, StripText
<1>6. /\ kept \in Texts /\ CH!Characters(kept) \subseteq CH!Characters(buf)
      /\ ~full => kept = buf
  BY <1>2, SuffixText, ServicesAssumption DEF CH!ChunkerAssumption
<1> HIDE DEF sentence, piece, rest, kept
<1>7. buf' \in Texts /\ CH!Characters(buf') = CH!Characters(kept) \cup CH!Characters(piece)
  BY <1>1, <1>5, <1>6, JoinedText
<1>8. CH!InHand' = CH!Characters(paras) \cup CH!Characters(rest) \cup CH!Characters(buf')
  BY <1>1 DEF CH!InHand
<1>9. CH!InHand = CH!Characters(paras) \cup CH!Characters(pieces) \cup CH!Characters(buf)
  BY DEF CH!InHand
<1>10. CH!InHand' \subseteq CH!InHand
  BY <1>4, <1>5, <1>6, <1>7, <1>8, <1>9
<1>11. CASE full
  <2>1. /\ cut' \in Seq(Passage)
        /\ CH!Parts(cut') = CH!Parts(cut) \cup NewParts({buf})
    BY <1>1, <1>2, <1>11, OneNewPart
  <2>2. ChunkTypes'
    BY <1>1, <1>2, <1>4, <1>7, <2>1 DEF ChunkTypes
  <2>3. /\ InBodies({buf}) \subseteq CH!InHand
        /\ CH!InHand \subseteq CH!InHand' \cup InBodies({buf})
    BY <1>2, <1>4, <1>5, <1>7, <1>8, <1>9, OneNewPart
  <2>4. Splits({buf})
    BY <1>1, <1>10, <2>1, <2>2, <2>3 DEF Splits
  <2>5. QED  BY <2>4, SplitStep
<1>12. CASE ~full
  <2>1. cut' = cut /\ kept = buf
    BY <1>1, <1>6, <1>12
  <2>2. ChunkTypes'
    BY <1>1, <1>2, <1>4, <1>7, <2>1 DEF ChunkTypes
  <2>3. CH!Parts(cut') = CH!Parts(cut) \cup NewParts({})
    BY <2>1, NoNewParts
  <2>4. CH!InHand \subseteq CH!InHand'
    BY <1>4, <1>5, <1>7, <1>8, <1>9, <2>1
  <2>5. Splits({})
    BY <1>1, <1>10, <2>2, <2>3, <2>4, NoNewParts DEF Splits
  <2>6. QED  BY <2>5, SplitStep
<1>13. QED  BY <1>11, <1>12

LEMMA Cuts == ChunkInv /\ CH!Cut => ChunkInv'
<1> SUFFICES ASSUME ChunkInv, CH!Cut PROVE ChunkInv'
  OBVIOUS
<1> DEFINE front == CH!Prefix(buf, Size)
           back == SubSeq(buf, Size - Overlap + 1, Len(buf))
<1>1. /\ Len(buf) > Size /\ UNCHANGED <<source, next, stack, paras, pieces, last, merged>>
      /\ cut' = Append(cut, CH!Chunk("paragraph", front))
      /\ buf' = CH!Strip(back)
  BY DEF CH!Cut, CH!Rest
<1>2. ChunkTypes /\ buf \in Texts /\ Len(buf) \in Nat
  BY DEF ChunkInv, ChunkTypes, Texts
<1>3. /\ Size \in Nat /\ Size <= Len(buf)
      /\ Size - Overlap + 1 \in 1 .. Size + 1
  BY <1>1, <1>2, ServicesAssumption DEF CH!ChunkerAssumption
<1>4. front = SubSeq(buf, 1, Size)
  BY <1>2, <1>3, PrefixText
<1>5. /\ front \in Texts /\ back \in Texts
      /\ CH!Characters(front) \subseteq CH!Characters(buf)
      /\ CH!Characters(back) \subseteq CH!Characters(buf)
      /\ CH!Characters(buf) \subseteq CH!Characters(front) \cup CH!Characters(back)
  BY <1>2, <1>3, <1>4, CutText
<1> HIDE DEF front, back
<1>6. buf' \in Texts /\ CH!Characters(buf') = CH!Characters(back)
  BY <1>1, <1>5, StripText
<1>7. /\ cut' \in Seq(Passage)
      /\ CH!Parts(cut') = CH!Parts(cut) \cup NewParts({front})
  BY <1>1, <1>2, <1>5, OneNewPart
<1>8. ChunkTypes'
  BY <1>1, <1>2, <1>6, <1>7 DEF ChunkTypes
<1>9. /\ InBodies({front}) \subseteq CH!InHand
      /\ CH!InHand' \subseteq CH!InHand
      /\ CH!InHand \subseteq CH!InHand' \cup InBodies({front})
  BY <1>1, <1>2, <1>5, <1>6, OneNewPart DEF CH!InHand
<1>10. Splits({front})
  BY <1>1, <1>7, <1>8, <1>9 DEF Splits
<1>11. QED  BY <1>10, SplitStep

LEMMA SplitEnds == ChunkInv /\ CH!EndSplit => ChunkInv'
<1> SUFFICES ASSUME ChunkInv, CH!EndSplit PROVE ChunkInv'
  OBVIOUS
<1> DEFINE body == CH!Strip(buf)
<1>1. /\ buf' = <<>> /\ UNCHANGED <<source, next, stack, paras, pieces, last, merged>>
      /\ cut' = IF body = <<>> THEN cut ELSE Append(cut, CH!Chunk("paragraph", body))
  BY DEF CH!EndSplit
<1>2. ChunkTypes /\ buf \in Texts /\ <<>> \in Texts /\ CH!Characters(<<>>) = {}
  BY DEF ChunkInv, ChunkTypes, Texts, CH!Characters
<1>3. body \in Texts /\ CH!Characters(body) = CH!Characters(buf)
  BY <1>2, StripText
<1> HIDE DEF body
<1>4. /\ CH!InHand' = CH!Characters(paras) \cup CH!Characters(pieces)
      /\ CH!InHand = CH!Characters(paras) \cup CH!Characters(pieces) \cup CH!Characters(body)
  BY <1>1, <1>2, <1>3 DEF CH!InHand
<1>5. CASE body = <<>>
  <2>1. ChunkTypes' /\ CH!InHand' = CH!InHand
    BY <1>1, <1>2, <1>4, <1>5 DEF ChunkTypes
  <2>2. CH!Parts(cut') = CH!Parts(cut) \cup NewParts({})
    BY <1>1, <1>5, NoNewParts
  <2>3. Splits({})
    BY <1>1, <2>1, <2>2, NoNewParts DEF Splits
  <2>4. QED  BY <2>3, SplitStep
<1>6. CASE body # <<>>
  <2>1. /\ cut' \in Seq(Passage)
        /\ CH!Parts(cut') = CH!Parts(cut) \cup NewParts({body})
    BY <1>1, <1>2, <1>3, <1>6, OneNewPart
  <2>2. ChunkTypes'
    BY <1>1, <1>2, <2>1 DEF ChunkTypes
  <2>3. /\ InBodies({body}) \subseteq CH!InHand
        /\ CH!InHand' \subseteq CH!InHand
        /\ CH!InHand \subseteq CH!InHand' \cup InBodies({body})
    BY <1>2, <1>3, <1>4, OneNewPart
  <2>4. Splits({body})
    BY <1>1, <2>1, <2>2, <2>3 DEF Splits
  <2>5. QED  BY <2>4, SplitStep
<1>7. QED  BY <1>5, <1>6

\* The text of the block to read is of the section that is open.
LEMMA TextHere ==
    ASSUME ChunkInv, next \in 1 .. Len(source)
    PROVE  /\ CH!Text(next) \in Texts
           /\ \A c \in CH!Characters(CH!Text(next)) : OfSection(c)
<1>1. /\ CH!Text(next) \in Texts
      /\ CH!Characters(CH!Text(next)) = {<<next, k>> : k \in 1 .. source[next].size}
  BY BlockText DEF ChunkInv
<1>2. \A k : OfSection(<<next, k>>)
  BY DEF ChunkInv, OfSection
<1>3. QED  BY <1>1, <1>2

LEMMA AtBlock ==
    ASSUME ChunkInv, NEW type, CH!At(type)
    PROVE  /\ next \in 1 .. Len(source) /\ source[next].type = type
           /\ next' = next + 1 /\ next' \in 1 .. Len(source) + 1
           /\ UNCHANGED <<source, pieces, buf, merged>>
           /\ pieces = <<>> /\ buf = <<>>
           /\ paras # <<>> => ~CH!Closes(next)
<1>1. Len(source) \in Nat /\ next \in 1 .. Len(source) + 1
  BY SourceBlocks DEF ChunkInv, ChunkTypes
<1>2. QED  BY <1>1 DEF CH!At, CH!Splitting

\* What is in the buffer, and the last paragraph, are of the section that is open.
LEMMA BufferHere ==
    ASSUME ChunkInv
    PROVE  \A c \in CH!Characters(paras) \cup CH!Characters(last) : OfSection(c)
BY DEF ChunkInv, CH!InHand

LEMMA ReadsParagraph == ChunkInv /\ CH!ReadParagraph => ChunkInv'
<1> SUFFICES ASSUME ChunkInv, CH!ReadParagraph PROVE ChunkInv'
  OBVIOUS
<1>1. /\ CH!At("paragraph") /\ UNCHANGED <<stack, cut>>
      /\ paras' = CH!Joined(paras, CH!Text(next)) /\ last' = CH!Text(next)
  BY DEF CH!ReadParagraph
<1>2. /\ next \in 1 .. Len(source) /\ source[next].type # "heading"
      /\ next' = next + 1 /\ next' \in 1 .. Len(source) + 1
      /\ UNCHANGED <<source, pieces, buf, merged>>
  BY <1>1, AtBlock
<1>3. /\ CH!Text(next) \in Texts
      /\ \A c \in CH!Characters(CH!Text(next)) : OfSection(c)
  BY <1>2, TextHere
<1>4. /\ paras' \in Texts
      /\ CH!Characters(paras') = CH!Characters(paras) \cup CH!Characters(CH!Text(next))
  BY <1>1, <1>3, JoinedText DEF ChunkInv, ChunkTypes
<1>5. ChunkTypes'
  BY <1>1, <1>2, <1>3, <1>4 DEF ChunkInv, ChunkTypes
<1>6. Reads({})
  BY <1>1, <1>2, <1>3, <1>4, <1>5, BufferHere, NoNewParts DEF Reads
<1>7. QED  BY <1>6, ReadStep

LEMMA ReadsCode == ChunkInv /\ CH!ReadCode => ChunkInv'
<1> SUFFICES ASSUME ChunkInv, CH!ReadCode PROVE ChunkInv'
  OBVIOUS
<1> DEFINE body == CH!Text(next)
<1>1. /\ CH!At("code") /\ UNCHANGED <<stack, paras, last>>
      /\ cut' = Append(cut, CH!Chunk("code", body))
  BY DEF CH!ReadCode
<1>2. /\ next \in 1 .. Len(source) /\ source[next].type # "heading"
      /\ next' = next + 1 /\ next' \in 1 .. Len(source) + 1
      /\ UNCHANGED <<source, pieces, buf, merged>>
  BY <1>1, AtBlock
<1>3. body \in Texts /\ \A c \in CH!Characters(body) : OfSection(c)
  BY <1>2, TextHere
<1> HIDE DEF body
<1>4. /\ cut' \in Seq(Passage)
      /\ CH!Parts(cut') = CH!Parts(cut) \cup NewParts({body})
      /\ InBodies({body}) = CH!Characters(body)
  BY <1>1, <1>3, OneNewPart DEF ChunkInv
<1>5. ChunkTypes'
  BY <1>1, <1>2, <1>4 DEF ChunkInv, ChunkTypes
<1>6. CH!Characters(CH!Text(next)) \subseteq InBodies({body})
  BY <1>4 DEF body
<1>7. Reads({body})
  BY <1>1, <1>2, <1>3, <1>4, <1>5, <1>6, BufferHere DEF Reads
<1>8. QED  BY <1>7, ReadStep

LEMMA ReadsImage == ChunkInv /\ CH!ReadImage => ChunkInv'
<1> SUFFICES ASSUME ChunkInv, CH!ReadImage PROVE ChunkInv'
  OBVIOUS
<1> DEFINE follows == next < Len(source) /\ source[next + 1].type = "paragraph"
           neighbour == IF follows THEN CH!Prefix(CH!Text(next + 1), IntroMax) ELSE <<>>
           body == CH!Joined(CH!Text(next), neighbour)
<1>1. /\ CH!At("image") /\ UNCHANGED <<stack, paras, last>>
      /\ cut' = IF body = <<>> THEN cut ELSE Append(cut, CH!Chunk("image", body))
  BY DEF CH!ReadImage
<1>2. /\ next \in 1 .. Len(source) /\ source[next].type # "heading"
      /\ next' = next + 1 /\ next' \in 1 .. Len(source) + 1
      /\ UNCHANGED <<source, pieces, buf, merged>>
  BY <1>1, AtBlock
<1>3. CH!Text(next) \in Texts /\ \A c \in CH!Characters(CH!Text(next)) : OfSection(c)
  BY <1>2, TextHere
<1>4. neighbour \in Texts /\ \A c \in CH!Characters(neighbour) : OfSection(c)
  <2>1. CASE follows
    <3>1. ChunkTypes /\ next + 1 \in 1 .. Len(source)
      BY <1>2, <2>1, SourceBlocks DEF ChunkInv
    <3>2. /\ CH!Text(next + 1) \in Texts
          /\ CH!Characters(CH!Text(next + 1))
                = {<<next + 1, k>> : k \in 1 .. source[next + 1].size}
      BY <3>1, BlockText
    <3>3. CH!Section(next + 1) = stack
      BY <1>2, <3>1, SectionStays DEF ChunkInv
    <3>4. \A k : OfSection(<<next + 1, k>>)
      BY <3>3 DEF OfSection
    <3>5. \A c \in CH!Characters(CH!Text(next + 1)) : OfSection(c)
      BY <3>2, <3>4
    <3>6. /\ CH!Prefix(CH!Text(next + 1), IntroMax) \in Texts
          /\ CH!Characters(CH!Prefix(CH!Text(next + 1), IntroMax))
                \subseteq CH!Characters(CH!Text(next + 1))
      BY <3>2, PrefixText, ServicesAssumption DEF CH!ChunkerAssumption
    <3>7. QED  BY <2>1, <3>5, <3>6
  <2>2. CASE ~follows
    BY <2>2 DEF Texts, CH!Characters
  <2>3. QED  BY <2>1, <2>2
<1> HIDE DEF neighbour
<1>5. /\ body \in Texts
      /\ CH!Characters(body) = CH!Characters(CH!Text(next)) \cup CH!Characters(neighbour)
  BY <1>3, <1>4, JoinedText
<1> HIDE DEF body
<1>6. \A c \in CH!Characters(body) : OfSection(c)
  BY <1>3, <1>4, <1>5
<1>7. CASE body = <<>>
  <2>1. cut' = cut /\ CH!Characters(CH!Text(next)) = {}
    BY <1>1, <1>5, <1>7 DEF CH!Characters
  <2>2. ChunkTypes'
    BY <1>1, <1>2, <2>1 DEF ChunkInv, ChunkTypes
  <2>3. Reads({})
    BY <1>1, <1>2, <2>1, <2>2, BufferHere, NoNewParts DEF Reads
  <2>4. QED  BY <2>3, ReadStep
<1>8. CASE body # <<>>
  <2>1. /\ cut' \in Seq(Passage)
        /\ CH!Parts(cut') = CH!Parts(cut) \cup NewParts({body})
        /\ InBodies({body}) = CH!Characters(body)
    BY <1>1, <1>5, <1>8, OneNewPart DEF ChunkInv
  <2>2. ChunkTypes'
    BY <1>1, <1>2, <2>1 DEF ChunkInv, ChunkTypes
  <2>3. Reads({body})
    BY <1>1, <1>2, <1>5, <1>6, <2>1, <2>2, BufferHere DEF Reads
  <2>4. QED  BY <2>3, ReadStep
<1>9. QED  BY <1>7, <1>8

LEMMA ReadsTable == ChunkInv /\ CH!ReadTable => ChunkInv'
<1> SUFFICES ASSUME ChunkInv, CH!ReadTable PROVE ChunkInv'
  OBVIOUS
<1> DEFINE slices == CH!Slices(CH!Text(next))
           intro == CH!Prefix(last, IntroMax)
           Body(k) == CH!Joined(intro, slices[k])
           bodies == {Body(k) : k \in 1 .. Len(slices)}
           new == [k \in 1 .. Len(slices) |-> CH!Chunk("table", Body(k))]
<1>1. /\ CH!At("table") /\ UNCHANGED <<stack, paras, last>> /\ cut' = cut \o new
  BY DEF CH!ReadTable
<1>2. /\ next \in 1 .. Len(source) /\ source[next].type # "heading"
      /\ next' = next + 1 /\ next' \in 1 .. Len(source) + 1
      /\ UNCHANGED <<source, pieces, buf, merged>>
  BY <1>1, AtBlock
<1>3. CH!Text(next) \in Texts /\ \A c \in CH!Characters(CH!Text(next)) : OfSection(c)
  BY <1>2, TextHere
<1>4. /\ slices \in Seq(Texts) /\ Len(slices) \in Nat
      /\ \A k \in 1 .. Len(slices) : slices[k] \in Texts
      /\ \A k \in 1 .. Len(slices) :
            CH!Characters(slices[k]) \subseteq CH!Characters(CH!Text(next))
      /\ \A c \in CH!Characters(CH!Text(next)) : \E k \in 1 .. Len(slices) :
            c \in CH!Characters(slices[k])
  BY <1>3, SlicesText
<1>5. intro \in Texts /\ CH!Characters(intro) \subseteq CH!Characters(last)
  BY PrefixText, ServicesAssumption DEF ChunkInv, ChunkTypes, CH!ChunkerAssumption
<1> HIDE DEF slices, intro
<1>6. \A k \in 1 .. Len(slices) : /\ Body(k) \in Texts
         /\ CH!Characters(Body(k)) = CH!Characters(intro) \cup CH!Characters(slices[k])
  BY <1>4, <1>5, JoinedText
<1> HIDE DEF Body
<1>7. \A k \in 1 .. Len(slices) : /\ CH!Chunk("table", Body(k)) \in Passage
         /\ PartsOf(CH!Chunk("table", Body(k))) = {[path |-> stack, body |-> Body(k)]}
  BY <1>6, ChunkIs DEF ChunkInv, ChunkTypes
<1>8. /\ new \in Seq(Passage) /\ Len(new) = Len(slices)
      /\ \A k \in 1 .. Len(slices) : PartsOf(new[k]) = {[path |-> stack, body |-> Body(k)]}
  BY <1>4, <1>7
<1> HIDE DEF new
<1>9. CH!Parts(new) = NewParts(bodies)
  <2>1. CH!Parts(new) = UNION {PartsOf(new[k]) : k \in 1 .. Len(slices)}
    BY <1>8, PartsAre
  <2>2. ASSUME NEW p \in CH!Parts(new) PROVE p \in NewParts(bodies)
    <3>1. PICK k \in 1 .. Len(slices) : p \in PartsOf(new[k])
      BY <2>1
    <3>2. p = [path |-> stack, body |-> Body(k)] /\ Body(k) \in bodies
      BY <1>8, <3>1
    <3>3. QED  BY <3>2 DEF NewParts
  <2>3. ASSUME NEW p \in NewParts(bodies) PROVE p \in CH!Parts(new)
    <3>1. PICK k \in 1 .. Len(slices) : p = [path |-> stack, body |-> Body(k)]
      BY DEF NewParts
    <3>2. p \in PartsOf(new[k])
      BY <1>8, <3>1
    <3>3. QED  BY <2>1, <3>2
  <2>4. QED  BY <2>2, <2>3
<1>10. /\ \A c \in InBodies(bodies) : OfSection(c)
       /\ CH!Characters(CH!Text(next)) \subseteq InBodies(bodies)
  <2>1. \A c \in InBodies(bodies) : \E k \in 1 .. Len(slices) : c \in CH!Characters(Body(k))
    BY DEF InBodies
  <2>2. \A k \in 1 .. Len(slices) : CH!Characters(Body(k)) \subseteq InBodies(bodies)
    BY DEF InBodies
  <2> HIDE DEF bodies
  <2>3. ASSUME NEW c \in InBodies(bodies) PROVE OfSection(c)
    <3>1. PICK k \in 1 .. Len(slices) : c \in CH!Characters(Body(k))
      BY <2>1
    <3>2. c \in CH!Characters(last) \/ c \in CH!Characters(CH!Text(next))
      BY <1>4, <1>5, <1>6, <3>1
    <3>3. QED  BY <1>3, <3>2, BufferHere
  <2>4. ASSUME NEW c \in CH!Characters(CH!Text(next)) PROVE c \in InBodies(bodies)
    BY <1>4, <1>6, <2>2
  <2>5. QED  BY <2>3, <2>4
<1> HIDE DEF bodies
<1>11. /\ cut' \in Seq(Passage)
       /\ CH!Parts(cut') = CH!Parts(cut) \cup NewParts(bodies)
  <2>1. cut \in Seq(Passage)
    BY DEF ChunkInv, ChunkTypes
  <2>2. CH!Parts(cut \o new) = CH!Parts(cut) \cup CH!Parts(new)
    BY <1>8, <2>1, PartsConcat
  <2>3. QED  BY <1>1, <1>8, <1>9, <2>1, <2>2
<1>12. ChunkTypes'
  BY <1>1, <1>2, <1>11 DEF ChunkInv, ChunkTypes
<1>13. Reads(bodies)
  BY <1>1, <1>2, <1>10, <1>11, <1>12, BufferHere DEF Reads
<1>14. QED  BY <1>13, ReadStep

\* A heading is read with nothing in hand.
LEMMA ReadsHeading == ChunkInv /\ CH!ReadHeading => ChunkInv'
<1> SUFFICES ASSUME ChunkInv, CH!ReadHeading PROVE ChunkInv'
  OBVIOUS
<1>1. /\ CH!At("heading") /\ last' = <<>> /\ UNCHANGED <<paras, cut>>
      /\ stack' = {h \in stack : \E g \in stack :
                      g >= h /\ source[g].level < source[next].level} \cup {next}
  BY DEF CH!ReadHeading
<1>2. /\ next \in 1 .. Len(source) /\ source[next].type = "heading"
      /\ next' = next + 1 /\ next' \in 1 .. Len(source) + 1
      /\ UNCHANGED <<source, pieces, buf, merged>>
      /\ pieces = <<>> /\ buf = <<>>
      /\ paras # <<>> => ~CH!Closes(next)
  BY <1>1, AtBlock
<1>3. paras = <<>>
  BY <1>2 DEF CH!Closes
<1>4. CH!Characters(<<>>) = {} /\ <<>> \in Texts
  BY DEF CH!Characters, Texts
<1>5. CH!InHand = {} /\ CH!InHand' = {} /\ CH!Characters(last') = {}
  BY <1>1, <1>2, <1>3, <1>4 DEF CH!InHand
<1>6. CH!Passages' = CH!Passages
  BY <1>1, <1>2 DEF CH!Passages
<1>7. stack' = CH!Section(next')
  <2>1. ChunkTypes /\ stack = CH!Section(next)
    BY DEF ChunkInv
  <2>2. QED  BY <1>1, <1>2, <2>1, SectionOpens
<1>8. ChunkTypes'
  <2>1. stack' \in SUBSET Nat
    BY <1>1, <1>2, SourceBlocks DEF ChunkInv, ChunkTypes
  <2>2. QED  BY <1>1, <1>2, <1>4, <2>1 DEF ChunkInv, ChunkTypes
<1>9. Held' = Held
  BY <1>5, <1>6 DEF Held
<1>10. QED  BY <1>2, <1>5, <1>6, <1>7, <1>8, <1>9, ChunkStep

LEMMA MergesFragments == ChunkInv /\ CH!MergeFragments => ChunkInv'
<1> SUFFICES ASSUME ChunkInv, CH!MergeFragments PROVE ChunkInv'
  OBVIOUS
<1>1. /\ cut # <<>> /\ merged' = CH!Join(merged, Head(cut)) /\ cut' = Tail(cut)
      /\ UNCHANGED <<source, next, stack, paras, pieces, buf, last>>
  BY DEF CH!MergeFragments
<1>2. cut \in Seq(Passage) /\ merged \in Seq(Passage)
  BY DEF ChunkInv, ChunkTypes
<1> DEFINE head == Head(cut)
           tail == Tail(cut)
<1>3. head \in Passage /\ tail \in Seq(Passage) /\ cut = <<head>> \o tail
      /\ <<head>> \in Seq(Passage)
  BY <1>1, <1>2
<1> HIDE DEF head, tail
<1>4. CH!Parts(cut) = PartsOf(head) \cup CH!Parts(tail)
  <2>1. CH!Parts(<<head>> \o tail) = CH!Parts(<<head>>) \cup CH!Parts(tail)
    BY <1>3, PartsConcat
  <2>2. QED  BY <1>3, <2>1, PartsOne
<1>5. /\ merged' \in Seq(Passage) /\ cut' \in Seq(Passage)
      /\ CH!Parts(merged') = CH!Parts(merged) \cup PartsOf(head)
      /\ CH!Parts(cut') = CH!Parts(tail)
  BY <1>1, <1>2, <1>3, JoinParts DEF head, tail
<1>6. CH!Passages' = CH!Passages
  BY <1>4, <1>5 DEF CH!Passages
<1>7. CH!InHand' = CH!InHand
  BY <1>1 DEF CH!InHand
<1>8. ChunkTypes'
  BY <1>1, <1>5 DEF ChunkInv, ChunkTypes
<1>9. Held' = Held
  BY <1>6, <1>7 DEF Held
<1>10. \A c \in CH!InHand' \cup CH!Characters(last') : CH!Section(c[1]) = stack'
  BY <1>1, <1>7 DEF ChunkInv, OfSection
<1>11. stack' = CH!Section(next') /\ next' # next + 1
  BY <1>1, SourceBlocks DEF ChunkInv
<1>12. QED  BY <1>1, <1>6, <1>8, <1>9, <1>10, <1>11, ChunkStep

-----------------------------------------------------------------------------

LEMMA InitChunkInv == CH!Init => ChunkInv
<1> SUFFICES ASSUME CH!Init PROVE ChunkInv
  OBVIOUS
<1>1. /\ next = 1 /\ stack = {} /\ paras = <<>> /\ pieces = <<>> /\ buf = <<>>
      /\ last = <<>> /\ cut = <<>> /\ merged = <<>>
  BY DEF CH!Init
<1>2. source \in Seq(Blocks)
  <2>1. PICK n \in 1 .. DocMax : source \in [1 .. n -> Blocks]
    BY DEF CH!Init
  <2>2. n \in Nat
    BY ServicesAssumption DEF CH!ChunkerAssumption
  <2>3. QED  BY <2>1, <2>2
<1>3. CH!Characters(<<>>) = {} /\ <<>> \in Texts /\ <<>> \in Seq(Passage)
      /\ CH!Parts(<<>>) = {}
  BY DEF CH!Characters, Texts, CH!Parts
<1>4. ChunkTypes
  BY <1>1, <1>2, <1>3 DEF ChunkTypes
<1>5. CH!InHand = {} /\ CH!Characters(last) = {} /\ CH!Passages = {}
  BY <1>1, <1>3 DEF CH!InHand, CH!Passages
<1>6. stack = CH!Section(next)
  BY <1>1 DEF CH!Section
<1>7. NothingLost
  BY <1>1, <1>5 DEF NothingLost, CH!NothingLost
<1>8. QED  BY <1>4, <1>5, <1>6, <1>7 DEF ChunkInv

LEMMA NextChunkInv == ChunkInv /\ [CH!Next]_CH!vars => ChunkInv'
<1> SUFFICES ASSUME ChunkInv, [CH!Next]_CH!vars PROVE ChunkInv'
  OBVIOUS
<1>1. CASE UNCHANGED CH!vars
  <2>1. /\ source' = source /\ next' = next /\ stack' = stack /\ paras' = paras
        /\ pieces' = pieces /\ buf' = buf /\ last' = last /\ cut' = cut /\ merged' = merged
    BY <1>1 DEF CH!vars
  <2>2. CH!InHand' = CH!InHand /\ CH!Passages' = CH!Passages
    BY <2>1 DEF CH!InHand, CH!Passages
  <2>3. ChunkTypes'
    BY <2>1 DEF ChunkInv, ChunkTypes
  <2>4. Held' = Held
    BY <2>2 DEF Held
  <2>5. \A c \in CH!InHand' \cup CH!Characters(last') : CH!Section(c[1]) = stack'
    BY <2>1, <2>2 DEF ChunkInv, OfSection
  <2>6. stack' = CH!Section(next') /\ next' # next + 1
    BY <2>1, SourceBlocks DEF ChunkInv
  <2>7. QED  BY <2>1, <2>2, <2>3, <2>4, <2>5, <2>6, ChunkStep
<1>2. CASE CH!Flush \/ CH!Merge \/ CH!Cut \/ CH!EndSplit
  BY <1>2, Flushes, Merges, Cuts, SplitEnds
<1>3. CASE CH!ReadHeading \/ CH!ReadParagraph \/ CH!ReadTable \/ CH!ReadImage \/ CH!ReadCode
  BY <1>3, ReadsHeading, ReadsParagraph, ReadsTable, ReadsImage, ReadsCode
<1>4. CASE CH!MergeFragments
  BY <1>4, MergesFragments
<1>5. QED  BY <1>1, <1>2, <1>3, <1>4 DEF CH!Next

\* For every document, every size of a passage and every overlap: what has been read is
\* in hand or in a passage, under the headings of its own section.
THEOREM NothingLostTheorem == CH!Spec => []NothingLost
<1>1. ChunkInv => NothingLost
  BY DEF ChunkInv
<1>2. QED  BY <1>1, InitChunkInv, NextChunkInv, PTL DEF CH!Spec

-----------------------------------------------------------------------------

\* Every step reads a block, or shortens what is in hand without lengthening what comes
\* before it in this order: the lengths and the blocks to read are natural numbers, so
\* the walk comes to an end.  A cut gains on the text only by what Overlap leaves of Size.
Advances ==
    \/ next < next' /\ next' <= Len(source) + 1
    \/ /\ next' = next
       /\ \/ Len(paras') < Len(paras)
          \/ /\ paras' = paras
             /\ \/ Len(pieces') < Len(pieces)
                \/ /\ pieces' = pieces
                   /\ Len(buf') < Len(buf) \/ (buf' = buf /\ Len(cut') < Len(cut))

LEMMA StripShortens == \A text \in Texts : Len(CH!Strip(text)) <= Len(text)
<1> TAKE text \in Texts
<1> DEFINE words == {k \in 1 .. Len(text) : text[k] # CH!Gap}
           first == CHOOSE k \in words : \A j \in words : k <= j
           final == CHOOSE k \in words : \A j \in words : k >= j
<1>1. CH!Strip(text) = IF words = {} THEN <<>> ELSE SubSeq(text, first, final)
  BY DEF CH!Strip
<1>2. words \subseteq 1 .. Len(text) /\ words \subseteq Nat /\ Len(text) \in Nat
  BY DEF Texts
<1>3. CASE words = {}
  BY <1>1, <1>2, <1>3
<1>4. CASE words # {}
  <2> HIDE DEF words
  <2>1. first \in words /\ \A j \in words : first <= j
    BY <1>2, <1>4, Lowest
  <2>2. final \in words /\ \A j \in words : final >= j
    BY <1>2, <1>4, Highest
  <2> HIDE DEF first, final
  <2>3. first \in Nat \ {0} /\ final \in Nat /\ first <= final /\ final <= Len(text)
    BY <1>2, <2>1, <2>2
  <2>4. Len(SubSeq(text, first, final)) = final - first + 1
    BY <2>3 DEF Texts
  <2>5. QED  BY <1>1, <1>2, <1>4, <2>3, <2>4
<1>5. QED  BY <1>3, <1>4

LEMMA Empties == \A text \in Texts : text # <<>> => 0 < Len(text) /\ Len(<<>>) = 0
BY DEF Texts

LEMMA CutAdvances == ChunkInv /\ CH!Cut => Advances
<1> SUFFICES ASSUME ChunkInv, CH!Cut PROVE Advances
  OBVIOUS
<1> DEFINE back == SubSeq(buf, Size - Overlap + 1, Len(buf))
<1>1. Len(buf) > Size /\ buf' = CH!Strip(back) /\ UNCHANGED <<next, paras, pieces>>
  BY DEF CH!Cut, CH!Rest
<1>2. buf \in Texts /\ Len(buf) \in Nat /\ buf \in Seq(Letters)
  BY DEF ChunkInv, ChunkTypes, Texts
<1>3. Size \in Nat /\ Overlap \in Nat /\ Overlap < Size
  BY ServicesAssumption DEF CH!ChunkerAssumption
<1>4. Size - Overlap + 1 \in 1 .. Size + 1 /\ Size - Overlap + 1 <= Len(buf)
  BY <1>1, <1>2, <1>3
<1>5. back \in Texts
  BY <1>1, <1>2, <1>3, <1>4, CutText
<1>6. Len(back) = Len(buf) - (Size - Overlap + 1) + 1
  BY <1>2, <1>4
<1>7. Len(back) < Len(buf)
  BY <1>2, <1>3, <1>6
<1> HIDE DEF back
<1>8. Len(buf') <= Len(back) /\ Len(buf') \in Nat /\ Len(back) \in Nat
  BY <1>1, <1>5, StripShortens, StripText DEF Texts
<1>9. Len(buf') < Len(buf)
  BY <1>2, <1>7, <1>8
<1>10. QED  BY <1>1, <1>9 DEF Advances

LEMMA MergeAdvances == ChunkInv /\ CH!Merge => Advances
<1> SUFFICES ASSUME ChunkInv, CH!Merge PROVE Advances
  OBVIOUS
<1> DEFINE end == CH!SentenceEnd(pieces)
<1>1. /\ pieces # <<>> /\ UNCHANGED <<next, paras>>
      /\ pieces' = SubSeq(pieces, end + 1, Len(pieces))
  BY DEF CH!Merge
<1>2. pieces \in Texts /\ pieces \in Seq(Letters) /\ Len(pieces) \in Nat
  BY DEF ChunkInv, ChunkTypes, Texts
<1>3. end \in 1 .. Len(pieces)
  BY <1>1, <1>2, SentenceEnds
<1> HIDE DEF end
<1>4. Len(pieces') = Len(pieces) - end
  BY <1>1, <1>2, <1>3
<1>5. Len(pieces') < Len(pieces)
  BY <1>2, <1>3, <1>4
<1>6. QED  BY <1>1, <1>5 DEF Advances

LEMMA NextAdvances == ChunkInv /\ CH!Next => Advances
<1> SUFFICES ASSUME ChunkInv, CH!Next PROVE Advances
  OBVIOUS
<1>1. /\ paras \in Texts /\ buf \in Texts /\ cut \in Seq(Passage)
      /\ Len(source) \in Nat /\ next \in Nat
  BY SourceBlocks DEF ChunkInv, ChunkTypes
<1>2. CASE CH!Flush
  <2>1. paras # <<>> /\ paras' = <<>> /\ next' = next
    BY <1>2 DEF CH!Flush
  <2>2. QED  BY <1>1, <2>1, Empties DEF Advances
<1>3. CASE CH!EndSplit
  <2>1. buf # <<>> /\ buf' = <<>> /\ UNCHANGED <<next, paras, pieces>>
    BY <1>3 DEF CH!EndSplit
  <2>2. QED  BY <1>1, <2>1, Empties DEF Advances
<1>4. CASE CH!ReadHeading \/ CH!ReadParagraph \/ CH!ReadTable \/ CH!ReadImage \/ CH!ReadCode
  <2>1. next <= Len(source) /\ next' = next + 1
    BY <1>4 DEF CH!ReadHeading, CH!ReadParagraph, CH!ReadTable, CH!ReadImage, CH!ReadCode, CH!At
  <2>2. QED  BY <1>1, <2>1 DEF Advances
<1>5. CASE CH!MergeFragments
  <2>1. cut # <<>> /\ cut' = Tail(cut) /\ UNCHANGED <<next, paras, pieces, buf>>
    BY <1>5 DEF CH!MergeFragments
  <2>2. Len(cut') < Len(cut)
    BY <1>1, <2>1
  <2>3. QED  BY <2>1, <2>2 DEF Advances
<1>6. QED  BY <1>2, <1>3, <1>4, <1>5, CutAdvances, MergeAdvances DEF CH!Next

\* For every document, every size of a passage and every overlap below it: chunk_blocks
\* comes to an end, for each of its steps comes nearer to it.
THEOREM ProgressTheorem == CH!Spec => [][Advances]_CH!vars
<1>1. ChunkInv /\ [CH!Next]_CH!vars => [Advances]_CH!vars
  BY NextAdvances
<1>2. QED  BY <1>1, InitChunkInv, NextChunkInv, PTL DEF CH!Spec
=============================================================================
