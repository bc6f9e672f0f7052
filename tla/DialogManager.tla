--------------------------- MODULE DialogManager ---------------------------
(***************************************************************************)
(* The dialog state machine of app/chat/state/manager.py as pure           *)
(* operators: what one classified user message does to the current task    *)
(* and to the stack of suspended tasks.  The class has no state of its     *)
(* own, so this module has no VARIABLES; DialogTurns and ChatTurn drive it.*)
(*                                                                         *)
(* A task is the JSON value kept in active_task_json / task_stack_json.    *)
(* Its "kind" and "required_slots" are functions of the intent (they are   *)
(* copied from the skill registry), so they are not stored; "updated_ts"   *)
(* is replaced by the nondeterministic expiry in the modules that load the *)
(* state; "missing_slot", "ready" and the other fields that only choose    *)
(* the wording of the reply are left out.                                  *)
(***************************************************************************)
EXTENDS Integers, Sequences, SequencesExt

CONSTANTS
    ReadIntents,   \* intents of READ skills (executed without confirmation)
    WriteIntents,  \* intents of WRITE skills (executed behind the gate)
    Slots,         \* slot names
    StrictSlots,   \* slots that an UNKNOWN message may never fill
    Required,      \* required_slots of each intent
    Values,        \* slot values the extractor can find
    NoValue,       \* the slot was not found
    NoTask,        \* active_task is None
    Rows,          \* ids of chat_task rows
    NoRow,         \* the task has no task_id yet
    StackMax,      \* settings.TASK_STACK_MAX
    AsksMax,       \* settings.TASK_MAX_ASKS
    Requests       \* the secondary requests a message may carry

Intents == ReadIntents \cup WriteIntents

ASSUME SkillAssumption ==
    /\ ReadIntents \cap WriteIntents = {}
    /\ Required \in [Intents -> SUBSET Slots]
    /\ StrictSlots \subseteq Slots
    /\ NoValue \notin Values
    /\ NoRow \notin Rows

ASSUME LimitAssumption ==
    /\ StackMax \in Nat \ {0}
    /\ AsksMax \in Nat \ {0}

-----------------------------------------------------------------------------
(* Tasks *)

SlotFillings == [Slots -> Values \cup {NoValue}]
NoSlots == [s \in Slots |-> NoValue]

Tasks == [intent : Intents, slots : SlotFillings, asks : 0..AsksMax,
          row : Rows \cup {NoRow}]


ASSUME RequestsAssumption ==
    Requests \subseteq [intent : Intents, slots : SlotFillings]

NewTask(intent, slots) ==
    [intent |-> intent, slots |-> slots, asks |-> 0, row |-> NoRow]

Stacks == UNION {[1..n -> Tasks] : n \in 0..StackMax}

\* What a prompt shows of a task.
Contents == [intent : Intents, slots : SlotFillings]
Content(task) == [intent |-> task.intent, slots |-> task.slots]

ASSUME NoTaskAssumption == NoTask \notin Tasks \cup Contents

States == {"IDLE", "COLLECTING", "CONFIRMING", "DONE", "ABORTED", "HANDOFF"}
WaitingStates == {"COLLECTING", "CONFIRMING"}
Statuses == {"DONE", "NEEDS_SLOT", "NEEDS_CONFIRM", "CONFIRMED", "ABORTED",
             "HANDOFF", "FALLBACK"}

\* {**old, **new}: the values found in this message win.
Merge(old, new) ==
    [s \in Slots |-> IF new[s] # NoValue THEN new[s] ELSE old[s]]

Missing(task) == {s \in Required[task.intent] : task.slots[s] = NoValue}

\* _evaluate_task, seen from the task: one of these three things happens.
GivesUp(task) == Missing(task) # {} /\ task.asks >= AsksMax
CompleteRead(task) == Missing(task) = {} /\ task.intent \in ReadIntents
Waits(task) == ~GivesUp(task) /\ ~CompleteRead(task)

\* Mutant: the question is not counted.
AskedUncounted(task) == task

\* A task that waits for slots has been asked once more.
Asked(task) ==
    IF Missing(task) # {} THEN [task EXCEPT !.asks = @ + 1] ELSE task

\* Mutant: a write operation goes to the gate before its slots are complete.
WaitStateEager(task) ==
    IF task.intent \in WriteIntents THEN "CONFIRMING" ELSE "COLLECTING"

WaitState(task) ==
    IF Missing(task) = {} /\ task.intent \in WriteIntents
    THEN "CONFIRMING" ELSE "COLLECTING"

-----------------------------------------------------------------------------
(* The task stack; its top is the last element *)

\* Append tasks and drop the oldest ones beyond the limit.
Push(stack, tasks) ==
    LET all == stack \o tasks
    IN  IF Len(all) > StackMax
        THEN SubSeq(all, Len(all) - StackMax + 1, Len(all)) ELSE all

\* The secondary requests of the message; reversed, so that they are resumed
\* in the order the user stated them.
PushPending(stack, pending) ==
    Push(stack, Reverse([i \in DOMAIN pending |->
                            NewTask(pending[i].intent, pending[i].slots)]))

\* Mutant: the oldest task is resumed first.
Bottommost(S) == IF S = {} THEN 0 ELSE CHOOSE n \in S : \A m \in S : n <= m

\* The topmost position in S, 0 when there is none.
Topmost(S) == CHOOSE n \in S \cup {0} : \A m \in S : m <= n

-----------------------------------------------------------------------------
(* What a turn decides (ResolveResult) *)

Outcome(state, status, active, stack, finished, intent) ==
    [state |-> state, status |-> status, active |-> active, stack |-> stack,
     finished |-> finished, intent |-> intent]

(***************************************************************************)
(* _finish_turn: the current task has ended.  Suspended tasks are popped   *)
(* from the top.  Those that have used up their asks are given up; the     *)
(* first other one is resumed.  When the resumed task waits, the tasks     *)
(* below it stay suspended.  When it is a read whose slots are complete,   *)
(* evaluating it has already run _finish_turn on the tasks below (manager  *)
(* lines 344 and 324-326): they are popped down to and including the       *)
(* topmost task that waits, and the popped ones are in no field of the     *)
(* result.  DialogRecursion states the recursion itself.                   *)
(***************************************************************************)
FinishTurn(status, stack, finished, end, intent) ==
    LET resumed == Topmost({i \in DOMAIN stack : ~GivesUp(stack[i])})
        waiting == Topmost({i \in DOMAIN stack : Waits(stack[i])})
        rest == IF waiting = 0 THEN <<>> ELSE SubSeq(stack, 1, waiting - 1)
    IN  IF stack = <<>>
        THEN Outcome(end, status, NoTask, <<>>, finished, intent)
        ELSE IF resumed = 0
        THEN Outcome("ABORTED", status, NoTask, <<>>, finished, intent)
        ELSE IF CompleteRead(stack[resumed])
        THEN Outcome("COLLECTING", status, stack[resumed], rest, finished, intent)
        ELSE Outcome(WaitState(stack[resumed]), status, Asked(stack[resumed]),
                     rest, finished, intent)

Evaluate(task, stack) ==
    IF GivesUp(task)
    THEN FinishTurn("FALLBACK", stack, NoTask, "ABORTED", task.intent)
    ELSE IF CompleteRead(task)
    THEN FinishTurn("DONE", stack, NoTask, "DONE", task.intent)
    ELSE Outcome(WaitState(task),
                 IF Missing(task) # {} THEN "NEEDS_SLOT" ELSE "NEEDS_CONFIRM",
                 Asked(task), stack, NoTask, task.intent)

Advance(active, slots, stack) ==
    Evaluate([active EXCEPT !.slots = Merge(@, slots)], stack)

\* The message fits nothing: the state is kept, the task reference is not.
Fallback(state, stack) == Outcome(state, "FALLBACK", NoTask, stack, NoTask, "UNKNOWN")

\* Only missing slots that need no validation count as evidence that an
\* UNKNOWN message answers the pending question.
Evidence(active, slots) ==
    [s \in Slots |-> IF s \in Missing(active) \ StrictSlots
                     THEN slots[s] ELSE NoValue]

\* A new request interrupts the current one and inherits its slot values.
Inherited(active, intent) ==
    [s \in Slots |-> IF s \in Required[intent] THEN active.slots[s] ELSE NoValue]

\* Mutant: the task to execute is read after the stack has been resumed.
OnConfirmResumed(state, active, stack) ==
    LET out == FinishTurn("CONFIRMED", stack, active, "DONE", active.intent)
    IN  IF active # NoTask /\ state = "CONFIRMING"
        THEN [out EXCEPT !.finished = IF out.active = NoTask THEN active ELSE out.active]
        ELSE Fallback(state, stack)

OnConfirm(state, active, stack) ==
    IF active # NoTask /\ state = "CONFIRMING"
    THEN FinishTurn("CONFIRMED", stack, active, "DONE", active.intent)
    ELSE Fallback(state, stack)

OnDeny(state, active, stack) ==
    IF active # NoTask /\ state \in WaitingStates
    THEN FinishTurn("ABORTED", stack, NoTask, "ABORTED", "DENY")
    ELSE Fallback(state, stack)

OnSlots(state, active, stack, slots) ==
    IF active # NoTask THEN Advance(active, slots, stack)
    ELSE Fallback(state, stack)

OnUnknown(state, active, stack, slots) ==
    IF active # NoTask THEN Advance(active, Evidence(active, slots), stack)
    ELSE Fallback(state, stack)

\* Mutant: the interrupting task is built from the interrupted one, row included.
OnRequestCopies(state, active, stack, intent, slots, strong) ==
    IF active # NoTask /\ state \in WaitingStates /\ active.intent # intent
    THEN IF ~strong
         THEN Advance(active, NoSlots, stack)
         ELSE Evaluate([active EXCEPT !.intent = intent, !.asks = 0,
                            !.slots = Merge(Inherited(active, intent), slots)],
                       Push(stack, <<active>>))
    ELSE Evaluate(NewTask(intent, slots), stack)

OnRequest(state, active, stack, intent, slots, strong) ==
    LET busy == active # NoTask /\ state \in WaitingStates
    IN  IF busy /\ active.intent # intent
        THEN IF ~strong
             THEN Advance(active, NoSlots, stack)
             ELSE Evaluate(NewTask(intent, Merge(Inherited(active, intent), slots)),
                           Push(stack, <<active>>))
        ELSE Evaluate(NewTask(intent, slots), stack)

(***************************************************************************)
(* A message as the nodes before dialog_state_resolve leave it: the label  *)
(* after the classifier and the confirmation gate, the extracted slots,    *)
(* the secondary requests, and whether the evidence for a switch is strong *)
(* (explicit_switch, or confidence and margin above the thresholds).       *)
(* "CHAT" stands for the labels answered without touching the task: bot    *)
(* identity, small talk and META skills; "PAYMENT" is the META skill that  *)
(* save_turn hands to a human.                                             *)
(***************************************************************************)
ControlLabels == {"TRANSFER", "ABORT", "CHAT", "PAYMENT", "CONFIRM", "DENY",
                  "SLOT_ONLY", "UNKNOWN"}
Labels == ControlLabels \cup Intents

ASSUME LabelsAssumption == Intents \cap ControlLabels = {}

Resolve(state, active, stack0, msg) ==
    LET stack == PushPending(stack0, msg.pending)
    IN  CASE msg.label = "TRANSFER" ->
               Outcome("HANDOFF", "HANDOFF", NoTask, <<>>, NoTask, "TRANSFER")
          [] msg.label = "ABORT" ->
               Outcome("ABORTED", "ABORTED", NoTask, <<>>, NoTask, "ABORT")
          [] msg.label \in {"CHAT", "PAYMENT"} ->
               Outcome(state, "DONE", active, stack, NoTask, msg.label)
          [] msg.label = "CONFIRM" -> OnConfirm(state, active, stack)
          [] msg.label = "DENY" -> OnDeny(state, active, stack)
          [] msg.label = "SLOT_ONLY" -> OnSlots(state, active, stack, msg.slots)
          [] msg.label = "UNKNOWN" -> OnUnknown(state, active, stack, msg.slots)
          [] msg.label \in Intents ->
               OnRequest(state, active, stack, msg.label, msg.slots, msg.strong)

(***************************************************************************)
(* The messages the classifier can deliver in a state: a confirmation only *)
(* at the gate, a denial only while a task waits, secondary requests only  *)
(* beside a business request, a slot answer, or a message the LLM gate has *)
(* relabelled while a task waits for its confirmation.  Adjacent segments  *)
(* with the same intent have been merged; a segment between them that is   *)
(* no task (a complaint) is dropped when the requests are pushed, so one   *)
(* request alone may repeat the label.                                     *)
(***************************************************************************)
Pendings(requests) ==
    {<<>>} \cup {<<p>> : p \in requests}
           \cup {pq \in requests \X requests : pq[1].intent # pq[2].intent}

\* Each message has only the fields its label makes use of.
Messages ==
    {m \in [label : Labels, slots : SlotFillings, pending : Pendings(Requests),
            strong : BOOLEAN] :
        /\ m.label \notin Intents => m.strong
        /\ m.label \notin Intents \cup {"SLOT_ONLY", "UNKNOWN"} => m.slots = NoSlots
        /\ m.label \in {"TRANSFER", "ABORT", "UNKNOWN"} => m.pending = <<>>}

Sayable(label, state) ==
    /\ label = "CONFIRM" => state = "CONFIRMING"
    /\ label = "DENY" => state \in WaitingStates

CarriesPending(label, state, pending) ==
    pending # <<>> =>
        \/ /\ label \in Intents \cup {"CHAT", "PAYMENT"}
           /\ pending[1].intent = label => Len(pending) = 1
        \/ label = "SLOT_ONLY" /\ state = "COLLECTING"
        \/ label \in {"CONFIRM", "DENY", "SLOT_ONLY"} /\ state = "CONFIRMING"

\* load_session_state drops expired tasks; f picks the positions that survive.
Picks(n) == UNION {{f \in [1..m -> 1..n] : \A i, j \in 1..m : i < j => f[i] < f[j]}
                     : m \in 0..n}
Surviving(stack, f) == [i \in DOMAIN f |-> stack[f[i]]]

\* The rows of the current task and of the suspended ones.
Elements(tasks) == {tasks[i] : i \in DOMAIN tasks}
LiveRows(task, tasks) ==
    {t.row : t \in Elements(tasks) \cup IF task = NoTask THEN {} ELSE {task}} \ {NoRow}
NeedsRow(task) == IF task = NoTask THEN FALSE ELSE task.row = NoRow
=============================================================================
