------------------------------ MODULE LlmCalls ------------------------------
(***************************************************************************)
(* The calls to a language model (chat/llm/factory.py) of turns and of the *)
(* memory tasks they leave behind: the deadline of the turn                *)
(* (chat/llm/deadline.py), which a task inherits with the context it was   *)
(* created in, and the daily tokens of the tenant (chat/llm/budget.py) in  *)
(* Redis.  One tenant, whose turns and tasks overlap; a step ends where    *)
(* the code awaits.  Prompts, answers, metrics and traces are left out.    *)
(***************************************************************************)
EXTENDS Naturals, FiniteSets

CONSTANTS
    Turns,
    TurnBudget,   \* TURN_LLM_BUDGET_SECONDS
    ClientTime,   \* LLM_TIMEOUT with the retry of the client
    DailyTokens,  \* LLM_BUDGET_DAILY_TOKENS
    Tokens,       \* what a call uses
    ClockMax,     \* bound: the seconds of a behaviour
    SpentMax,     \* bound: the tokens up to which an unchecked call is made
    None

\* The budgets are positive when they are switched on.
LlmAssumption ==
    /\ IsFiniteSet(Turns)
    /\ TurnBudget \in Nat
    /\ ClientTime \in Nat
    /\ DailyTokens \in Nat \ {0}
    /\ Tokens \in Nat
    /\ None \notin Nat

MinUseful == 1  \* _MIN_USEFUL_BUDGET

VARIABLES
    clock,
    spent,    \* the counter of the day
    missed,   \* history: a call was not counted, or not checked
    tasks

vars == <<clock, spent, missed, tasks>>

Tasks == Turns \X {"turn", "memory"}

\* deadline: what the context of the task says; until: when its call is given up;
\* hurried: history, a call was refused because of the deadline.
Unstarted == [pc |-> "none", deadline |-> None, until |-> None, hurried |-> FALSE]

Init ==
    /\ clock = 0
    /\ spent = 0
    /\ missed = FALSE
    /\ tasks = [k \in Tasks |-> Unstarted]

At(k, pc) == tasks[k].pc = pc
Set(k, task) == tasks' = [tasks EXCEPT ![k] = task]

\* process_message: the deadline of the turn starts with it.
StartTurn(t) ==
    /\ At(<<t, "turn">>, "none")
    /\ Set(<<t, "turn">>, [Unstarted EXCEPT !.pc = "ready", !.deadline = clock + TurnBudget])
    /\ UNCHANGED <<clock, spent, missed>>

\* The committed turn leaves a task behind, created in its context.
EndTurn(t) ==
    /\ At(<<t, "turn">>, "ready")
    /\ At(<<t, "memory">>, "none")
    /\ tasks' = [tasks EXCEPT ![<<t, "turn">>].pc = "done",
                              ![<<t, "memory">>] = [Unstarted EXCEPT !.pc = "queued",
                                                        !.deadline = tasks[<<t, "turn">>].deadline]]
    /\ UNCHANGED <<clock, spent, missed>>

\* Mutant: the task goes on in the context it was created in.
DeadlineKept(task) == task.deadline

\* clear_turn_budget
OwnDeadline(task) == None

\* The task gets a place of the semaphore, and drops the deadline of the turn.
StartMemory(t) ==
    LET k == <<t, "memory">>
    IN  /\ At(k, "queued")
        /\ Set(k, [tasks[k] EXCEPT !.pc = "ready", !.deadline = OwnDeadline(tasks[k])])
        /\ UNCHANGED <<clock, spent, missed>>

EndMemory(t) ==
    /\ At(<<t, "memory">>, "ready")
    /\ Set(<<t, "memory">>, [tasks[<<t, "memory">>] EXCEPT !.pc = "done"])
    /\ UNCHANGED <<clock, spent, missed>>

\* is_over_budget: the tokens of the day are used up, and nothing is asked.
Check(k) ==
    /\ At(k, "ready")
    /\ Set(k, [tasks[k] EXCEPT !.pc = IF spent >= DailyTokens THEN "ready" ELSE "checked"])
    /\ UNCHANGED <<clock, spent, missed>>

\* Redis fails: the call is made.
CheckFailed(k) ==
    /\ At(k, "ready")
    /\ spent < SpentMax
    /\ Set(k, [tasks[k] EXCEPT !.pc = "checked"])
    /\ missed' = TRUE
    /\ UNCHANGED <<clock, spent>>

\* Mutant: the client's own time is the limit of the call.
ClientLimit(task) == clock + ClientTime

\* wait_for: what is left of the turn, if that is less than the client takes.
Until(task) ==
    IF task.deadline # None /\ task.deadline < clock + ClientTime
    THEN task.deadline ELSE clock + ClientTime

\* Too little time is left for a call, or the call begins.
Call(k) ==
    /\ At(k, "checked")
    /\ Set(k, IF tasks[k].deadline # None /\ clock + MinUseful > tasks[k].deadline
              THEN [tasks[k] EXCEPT !.pc = "ready", !.hurried = TRUE]
              ELSE [tasks[k] EXCEPT !.pc = "calling", !.until = Until(tasks[k])])
    /\ UNCHANGED <<clock, spent, missed>>

Answered(k) ==
    /\ At(k, "calling")
    /\ Set(k, [tasks[k] EXCEPT !.pc = "account", !.until = None])
    /\ UNCHANGED <<clock, spent, missed>>

\* An error, or the time is over: the caller goes on without a text.
Failed(k) ==
    /\ At(k, "calling")
    /\ Set(k, [tasks[k] EXCEPT !.pc = "ready", !.until = None])
    /\ UNCHANGED <<clock, spent, missed>>

\* record_usage, best effort.
Account(k, counted) ==
    /\ At(k, "account")
    /\ spent' = IF counted THEN spent + Tokens ELSE spent
    /\ missed' = (missed \/ ~counted)
    /\ Set(k, [tasks[k] EXCEPT !.pc = "ready"])
    /\ UNCHANGED clock

\* The counter of the next day starts at zero.
Midnight ==
    /\ spent > 0
    /\ spent' = 0
    /\ UNCHANGED <<clock, missed, tasks>>

\* A call whose time is over has ended before the next second.
Tick ==
    /\ clock < ClockMax
    /\ \A k \in Tasks : At(k, "calling") => tasks[k].until > clock
    /\ clock' = clock + 1
    /\ UNCHANGED <<spent, missed, tasks>>

Next ==
    \/ \E t \in Turns : StartTurn(t) \/ EndTurn(t) \/ StartMemory(t) \/ EndMemory(t)
    \/ \E k \in Tasks :
          \/ Check(k) \/ CheckFailed(k) \/ Call(k) \/ Answered(k) \/ Failed(k)
          \/ \E counted \in BOOLEAN : Account(k, counted)
    \/ Midnight
    \/ Tick

Spec == Init /\ [][Next]_vars

-----------------------------------------------------------------------------
(* Properties *)

\* However calls overlap: a turn never waits for a model past its deadline; the
\* memory of a turn is not refused because that deadline is over; and unless Redis
\* failed, the tokens of a day exceed the budget by no more than the calls that
\* were under way when it was used up.
WithinLimits ==
    /\ \A t \in Turns : At(<<t, "turn">>, "calling") => clock <= tasks[<<t, "turn">>].deadline
    /\ \A t \in Turns : ~tasks[<<t, "memory">>].hurried
    /\ ~missed => spent < DailyTokens + Tokens * Cardinality(Tasks)
=============================================================================
