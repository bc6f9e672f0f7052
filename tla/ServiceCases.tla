---------------------------- MODULE ServiceCases ----------------------------
(***************************************************************************)
(* The service cases of one customer (services/case_service.py): opened or *)
(* extended by the turns that open a ticket or capture a low rating, moved *)
(* by agents (routes/cases.py) and escalated by the cron job               *)
(* scripts/case_sla_check.py, each in a transaction of its own.            *)
(*                                                                         *)
(* A transaction keeps the rows it read and the rows it wants.  Its UPDATE *)
(* names the columns whose value it changed, as the object mapper does, and*)
(* checks nothing: columns it does not name keep what others have committed*)
(* meanwhile.  The partial unique index refuses a second active case of a  *)
(* type.  Owner, resolution code and the times of the ending are written   *)
(* and never read; they are left out.                                      *)
(***************************************************************************)
EXTENDS Naturals, FiniteSets

CONSTANTS
    Cases,     \* bound: the cases ever opened for the customer
    Types,     \* case types, each with the priority its reasons carry
    HighTypes,
    Sources,   \* sessions, tickets and orders a case refers to
    Workers,   \* concurrent requests
    Requests   \* bound: the requests of agents and turns

VARIABLES
    cases,  \* the committed rows
    txs,    \* the transaction of every worker and of the cron job
    left    \* the requests that are still to come

vars == <<cases, txs, left>>

None == [type |-> "none"]
Idle == [read |-> <<>>, want |-> <<>>]
Jobs == Workers \cup {"cron"}

Init ==
    /\ cases = [c \in Cases |-> None]
    /\ txs = [w \in Jobs |-> Idle]
    /\ left = Requests

-----------------------------------------------------------------------------
(* Rows *)

Transitions ==
    LET Waiting == {"WAITING_CUSTOMER", "WAITING_INTERNAL", "WAITING_EXTERNAL"}
        Ended == {"RESOLVED", "CLOSED"}
        FromWaiting == {"IN_PROGRESS", "ESCALATED"} \cup Ended
    IN  [OPEN             |-> {"IN_PROGRESS", "ESCALATED"} \cup Waiting \cup Ended,
         IN_PROGRESS      |-> {"ESCALATED"} \cup Waiting \cup Ended,
         WAITING_CUSTOMER |-> FromWaiting,
         WAITING_INTERNAL |-> FromWaiting,
         WAITING_EXTERNAL |-> FromWaiting,
         ESCALATED        |-> {"IN_PROGRESS"} \cup Waiting \cup Ended,
         RESOLVED         |-> {"CLOSED", "REOPENED"},
         CLOSED           |-> {"REOPENED"},
         REOPENED         |-> {"IN_PROGRESS", "ESCALATED"} \cup Waiting \cup Ended]

Statuses == DOMAIN Transitions
ActiveStatuses == Statuses \ {"RESOLVED", "CLOSED"}

Priority(type) == IF type \in HighTypes THEN 2 ELSE 1

\* due: the time limit is still to come, or has passed; "reset" in a row that
\* is wanted is a new limit.
NewCase(type, refs) ==
    [type |-> type, status |-> "OPEN", priority |-> Priority(type), due |-> "reset",
     refs |-> refs, reopened |-> 0, meta |-> [escalations |-> 0, compensated |-> FALSE]]

Rows(rows) == {c \in DOMAIN rows : rows[c] # None}
Active(rows, type) ==
    {c \in Rows(rows) : rows[c].type = type /\ rows[c].status \in ActiveStatuses}
Overdue(row) ==
    row # None /\ row.status \in ActiveStatuses \ {"ESCALATED"} /\ row.due = "past"

-----------------------------------------------------------------------------
(* Transactions *)

Start(w, want) ==
    /\ txs[w] = Idle
    /\ txs' = [txs EXCEPT ![w] =
                  [read |-> [c \in DOMAIN want |-> cases[c]], want |-> want]]
    /\ UNCHANGED cases

Request(w, want) ==
    /\ left > 0
    /\ left' = left - 1
    /\ Start(w, want)

\* The row after the UPDATE of its changed columns.
Updated(row, read, want) ==
    [col \in DOMAIN want |->
        IF col = "due" /\ want[col] = "reset" THEN "future"
        ELSE IF read = None \/ want[col] # read[col] THEN want[col] ELSE row[col]]

After(w) ==
    [c \in Cases |->
        IF c \in DOMAIN txs[w].want
        THEN Updated(cases[c], txs[w].read[c], txs[w].want[c]) ELSE cases[c]]

\* uq_chat_service_case_active
Unique(rows) == \A type \in Types : Cardinality(Active(rows, type)) \leq 1

\* A turn goes on without its case when the index refuses it, a request of an
\* agent and the run of the cron job fail: nothing is written in either case.
Commit(w) ==
    /\ txs[w] # Idle
    /\ cases' = IF Unique(After(w)) THEN After(w) ELSE cases
    /\ txs' = [txs EXCEPT ![w] = Idle]
    /\ UNCHANGED left

\* A request that is rolled back is one that was never made; a run of the cron
\* job may fail as well.
Rollback ==
    /\ txs["cron"] # Idle
    /\ txs' = [txs EXCEPT !["cron"] = Idle]
    /\ UNCHANGED <<cases, left>>

-----------------------------------------------------------------------------
(* Requests *)

Unused == {c \in Cases : cases[c] = None /\ \A w \in Jobs : c \notin DOMAIN txs[w].want}

\* open_or_merge: without an active case of the type, a case is opened ...
Open(w, type, ref) ==
    /\ Active(cases, type) = {}
    /\ \E c \in Unused : Request(w, [d \in {c} |-> NewCase(type, {ref})])

\* ... otherwise the references are added to it, and a higher priority raises
\* it and resets its time limit.
Merged(row, ref) ==
    LET raised == Priority(row.type) > row.priority IN
    [row EXCEPT !.refs = @ \cup {ref},
                !.priority = IF raised THEN Priority(row.type) ELSE @,
                !.due = IF raised THEN "reset" ELSE @]

Merge(w, type, ref) ==
    \E c \in Active(cases, type) :
       Request(w, [d \in {c} |-> Merged(cases[c], ref)])

\* transition: only along the white list; reopening counts and resets the limit.
Moved(row, target) ==
    IF target = "REOPENED"
    THEN [row EXCEPT !.status = target, !.reopened = @ + 1, !.due = "reset"]
    ELSE [row EXCEPT !.status = target]

Transition(w, c, target) ==
    /\ c \in Rows(cases)
    /\ target \in Transitions[cases[c].status]
    /\ Request(w, [d \in {c} |-> Moved(cases[c], target)])

\* The claim of an agent; a case that has been worked on keeps its status.
Assign(w, c) ==
    /\ c \in Rows(cases)
    /\ cases[c].status \in {"OPEN", "REOPENED"}
    /\ Request(w, [d \in {c} |-> Moved(cases[c], "IN_PROGRESS")])

\* evaluate_compensation finds an active case eligible that was not before.
Compensate(w, c) ==
    /\ c \in Rows(cases)
    /\ cases[c].status \in ActiveStatuses
    /\ ~cases[c].meta.compensated
    /\ Request(w, [d \in {c} |-> [cases[c] EXCEPT !.meta.compensated = TRUE]])

-----------------------------------------------------------------------------
(* The cron job *)

\* Mutant: the job looks at cases nobody has touched since they were opened.
BreachedOpen == {c \in Cases : Overdue(cases[c]) /\ cases[c].status = "OPEN"}

\* list_sla_breached
Breached == {c \in Cases : Overdue(cases[c])}

\* escalate_breached; the bound on the escalations is that of the requests.
Escalated(row) ==
    [row EXCEPT !.status = "ESCALATED", !.priority = 2, !.meta.escalations = @ + 1]

\* A run takes 200 cases of all customers in no particular order, of this one any
\* that are among them.  (A run that has room for none of them changes nothing here.)
Escalate ==
    \E batch \in SUBSET Breached \ {{}} :
       /\ Start("cron", [c \in batch |-> Escalated(cases[c])])
       /\ UNCHANGED left

\* Time passes beyond the limit of a case.
Lapse(c) ==
    /\ c \in Rows(cases)
    /\ cases[c].due = "future"
    /\ cases' = [cases EXCEPT ![c].due = "past"]
    /\ UNCHANGED <<txs, left>>

Next ==
    \/ \E w \in Workers :
          \/ \E type \in Types, ref \in Sources : Open(w, type, ref) \/ Merge(w, type, ref)
          \/ \E c \in Cases :
                \/ \E target \in Statuses : Transition(w, c, target)
                \/ Assign(w, c)
                \/ Compensate(w, c)
    \/ \E w \in Jobs : Commit(w)
    \/ Escalate \/ Rollback
    \/ \E c \in Cases : Lapse(c)

\* The scheduler runs the job again and again, its runs end, and the overdue cases
\* of other customers do not take up all its room forever.
Fairness == WF_vars(Escalate) /\ SF_vars(Commit("cron"))

Spec == Init /\ [][Next]_vars /\ Fairness

-----------------------------------------------------------------------------
(* Properties *)

\* A case whose time limit has passed does not stay unnoticed: it is escalated,
\* ended, or given a new limit, though a run of the job may fail for a case
\* that was reopened or ended meanwhile.
OverdueIsNoticed == \A c \in Cases : Overdue(cases[c]) ~> ~Overdue(cases[c])
=============================================================================
