------------------------ MODULE DialogManagerProofs ------------------------
(***************************************************************************)
(* What the decisions of the dialog state machine return, for every skill  *)
(* registry, every stack limit and every limit of the asks: the lemmas the *)
(* proofs about DialogTurns and ChatTurn rest on.                          *)
(***************************************************************************)
EXTENDS DialogManager, WellFoundedInduction, TLAPS

Outcomes ==
    [state : States, status : Statuses, active : Tasks \cup {NoTask},
     stack : Stacks, finished : Tasks \cup {NoTask}, intent : Labels]

\* A task is current exactly while the machine waits, and what stands at the
\* gate is a write operation with all its slots.
Armed(state, active) ==
    /\ active # NoTask <=> state \in WaitingStates
    /\ state = "CONFIRMING" =>
          active.intent \in WriteIntents /\ Missing(active) = {}

Sound(out) == out \in Outcomes /\ Armed(out.state, out.active)

-----------------------------------------------------------------------------
(* The topmost position *)

LEMMA LeastExists ==
    ASSUME NEW T, T \subseteq Nat, T # {}
    PROVE  \E x \in T : \A y \in T : ~(y < x)
<1> DEFINE R == {ss \in Nat \X Nat : ss[1] < ss[2]}
<1>1. IsWellFoundedOn(R, Nat)
  BY NatLessThanWellFounded DEF OpToRel
<1>2. \E x \in T : \A y \in T : ~(<<y, x>> \in R)
  <2> HIDE DEF R
  <2>1. QED  BY <1>1, WFMin
<1>3. QED  BY <1>2

LEMMA TopmostLemma ==
    ASSUME NEW n \in Nat, NEW S, S \subseteq 1..n
    PROVE  Topmost(S) \in S \cup {0} /\ \A m \in S : m <= Topmost(S)
<1> DEFINE U == {k \in Nat : \A m \in S : m <= k}
<1>1. PICK k \in U : \A j \in U : ~(j < k)
  <2>1. n \in U
    OBVIOUS
  <2>2. U \subseteq Nat
    OBVIOUS
  <2> HIDE DEF U
  <2>3. QED  BY <2>1, <2>2, LeastExists
<1>2. k \in S \cup {0}
  <2>1. SUFFICES ASSUME k \notin S, k # 0 PROVE FALSE
    OBVIOUS
  <2>2. k - 1 \in U
    BY <1>1, <2>1
  <2>3. QED  BY <1>1, <2>2
<1>3. \A m \in S \cup {0} : m <= k
  BY <1>1
<1>4. QED
  <2>1. \E x \in S \cup {0} : \A m \in S : m <= x
    BY <1>2, <1>3
  <2>2. QED  BY <2>1 DEF Topmost

-----------------------------------------------------------------------------
(* Stacks *)

LEMMA StackIsSeq ==
    ASSUME NEW stack \in Stacks
    PROVE  /\ stack \in Seq(Tasks)
           /\ Len(stack) \in 0..StackMax
           /\ DOMAIN stack = 1..Len(stack)
           /\ \A i \in 1..Len(stack) : stack[i] \in Tasks
<1>1. PICK n \in 0..StackMax : stack \in [1..n -> Tasks]
  BY DEF Stacks
<1>2. n \in Nat
  BY LimitAssumption
<1>3. QED  BY <1>1, <1>2

LEMMA SeqIsStack ==
    ASSUME NEW s \in Seq(Tasks), Len(s) <= StackMax
    PROVE  s \in Stacks
<1>1. Len(s) \in 0..StackMax
  BY LimitAssumption
<1>2. s \in [1..Len(s) -> Tasks]
  OBVIOUS
<1>3. QED  BY <1>1, <1>2 DEF Stacks

LEMMA EmptyIsStack == <<>> \in Stacks
<1>1. <<>> \in Seq(Tasks) /\ Len(<<>>) = 0
  OBVIOUS
<1>2. Len(<<>>) <= StackMax
  BY <1>1, LimitAssumption
<1>3. QED  BY <1>1, <1>2, SeqIsStack, Zenon

\* The tasks below a position of a stack are a stack.
LEMMA BelowIsStack ==
    ASSUME NEW stack \in Stacks, NEW k \in 1..Len(stack)
    PROVE  SubSeq(stack, 1, k - 1) \in Stacks
<1>1. stack \in Seq(Tasks) /\ Len(stack) \in 0..StackMax
  BY StackIsSeq
<1>2. SubSeq(stack, 1, k - 1) \in Seq(Tasks) /\ Len(SubSeq(stack, 1, k - 1)) = k - 1
  BY <1>1
<1>3. Len(SubSeq(stack, 1, k - 1)) <= StackMax
  BY <1>1, <1>2, LimitAssumption
<1>4. QED  BY <1>2, <1>3, SeqIsStack, Zenon

LEMMA PushType ==
    ASSUME NEW stack \in Stacks, NEW tasks \in Seq(Tasks)
    PROVE  Push(stack, tasks) \in Stacks
<1> DEFINE all == stack \o tasks
<1>1. all \in Seq(Tasks)
  BY StackIsSeq
<1>2. CASE Len(all) > StackMax
  <2> DEFINE top == SubSeq(all, Len(all) - StackMax + 1, Len(all))
  <2>1. top \in Seq(Tasks) /\ Len(top) = StackMax
    <3> HIDE DEF all
    <3>1. QED  BY <1>1, <1>2, LimitAssumption
  <2>2. top \in Stacks
    <3> HIDE DEF top
    <3>1. QED  BY <2>1, SeqIsStack, LimitAssumption
  <2>3. QED  BY <1>2, <2>2 DEF Push
<1>3. CASE ~(Len(all) > StackMax)
  <2>1. Len(all) <= StackMax
    <3> HIDE DEF all
    <3>1. QED  BY <1>1, <1>3, LimitAssumption
  <2>2. all \in Stacks
    <3> HIDE DEF all
    <3>1. QED  BY <1>1, <2>1, SeqIsStack, Zenon
  <2>3. QED  BY <1>3, <2>2 DEF Push
<1>4. QED  BY <1>2, <1>3

LEMMA PendingTasksType ==
    ASSUME NEW pending \in Pendings(Requests)
    PROVE  [i \in DOMAIN pending |->
               NewTask(pending[i].intent, pending[i].slots)] \in Seq(Tasks)
<1> DEFINE tasks == [i \in DOMAIN pending |->
                        NewTask(pending[i].intent, pending[i].slots)]
<1>1. pending \in Seq(Requests)
  <2>1. CASE pending = <<>>
    BY <2>1
  <2>2. CASE \E p \in Requests : pending = <<p>>
    BY <2>2
  <2>3. CASE pending \in Requests \X Requests
    <3>1. PICK p \in Requests, q \in Requests : pending = <<p, q>>
      BY <2>3
    <3>2. QED  BY <3>1
  <2>4. QED  BY <2>1, <2>2, <2>3 DEF Pendings
<1>2. \A p \in Requests : NewTask(p.intent, p.slots) \in Tasks
  BY RequestsAssumption, LimitAssumption DEF NewTask, Tasks
<1>3. tasks \in Seq(Tasks)
  <2>1. DOMAIN pending = 1..Len(pending) /\ Len(pending) \in Nat
        /\ \A i \in DOMAIN pending : pending[i] \in Requests
    BY <1>1
  <2>2. \A i \in 1..Len(pending) : NewTask(pending[i].intent, pending[i].slots) \in Tasks
    BY <2>1, <1>2
  <2>3. tasks \in [1..Len(pending) -> Tasks]
    BY <2>1, <2>2
  <2>4. QED  BY <2>1, <2>3
<1>4. QED  BY <1>3

\* The secondary requests, in reverse, on top of the stack.
LEMMA PushPendingType ==
    ASSUME NEW stack \in Stacks, NEW pending \in Pendings(Requests)
    PROVE  PushPending(stack, pending) \in Stacks
<1> DEFINE tasks == [i \in DOMAIN pending |->
                        NewTask(pending[i].intent, pending[i].slots)]
<1>3. tasks \in Seq(Tasks)
  BY PendingTasksType
<1>4. Reverse(tasks) \in Seq(Tasks)
  <2> HIDE DEF tasks
  <2>1. \A i \in 1..Len(tasks) : Len(tasks) - i + 1 \in 1..Len(tasks)
    BY <1>3
  <2>2. Reverse(tasks) \in [1..Len(tasks) -> Tasks]
    BY <1>3, <2>1 DEF Reverse
  <2>3. QED  BY <1>3, <2>2
<1>5. QED
  <2> HIDE DEF tasks
  <2>1. Push(stack, Reverse(tasks)) \in Stacks
    BY <1>4, PushType
  <2>2. PushPending(stack, pending) = Push(stack, Reverse(tasks))
    BY DEF PushPending, tasks
  <2>3. QED  BY <2>1, <2>2

\* The tasks that have not expired.
LEMMA SurvivingType ==
    ASSUME NEW stack \in Stacks, NEW f \in Picks(Len(stack))
    PROVE  Surviving(stack, f) \in Stacks
<1>1. Len(stack) \in 0..StackMax /\ \A i \in 1..Len(stack) : stack[i] \in Tasks
  BY StackIsSeq
<1>2. PICK m \in 0..Len(stack) : f \in [1..m -> 1..Len(stack)]
  BY DEF Picks
<1>3. Surviving(stack, f) \in [1..m -> Tasks]
  BY <1>1, <1>2 DEF Surviving
<1>4. m \in 0..StackMax
  BY <1>1, <1>2, LimitAssumption
<1>5. QED  BY <1>3, <1>4 DEF Stacks

-----------------------------------------------------------------------------
(* Tasks *)

LEMMA MergeType ==
    ASSUME NEW a \in SlotFillings, NEW b \in SlotFillings
    PROVE  Merge(a, b) \in SlotFillings
BY DEF Merge, SlotFillings

LEMMA NoSlotsType == NoSlots \in SlotFillings
BY DEF NoSlots, SlotFillings

LEMMA NewTaskType ==
    ASSUME NEW intent \in Intents, NEW slots \in SlotFillings
    PROVE  NewTask(intent, slots) \in Tasks
BY LimitAssumption DEF NewTask, Tasks

LEMMA WithSlotsType ==
    ASSUME NEW task \in Tasks, NEW slots \in SlotFillings
    PROVE  [task EXCEPT !.slots = slots] \in Tasks
BY DEF Tasks

\* A task that goes on waiting keeps its asks within the limit, and what is
\* put to the gate is a complete write operation.
LEMMA WaitingLemma ==
    ASSUME NEW task \in Tasks, ~GivesUp(task), ~CompleteRead(task)
    PROVE  /\ Asked(task) \in Tasks
           /\ WaitState(task) \in WaitingStates
           /\ WaitState(task) = "CONFIRMING" =>
                 Asked(task).intent \in WriteIntents /\ Missing(Asked(task)) = {}
<1>1. Asked(task) \in Tasks
  BY LimitAssumption DEF Asked, GivesUp, Tasks
<1>2. WaitState(task) \in WaitingStates
  BY DEF WaitState, WaitingStates
<1>3. WaitState(task) = "CONFIRMING" => Asked(task) = task
                                        /\ task.intent \in WriteIntents /\ Missing(task) = {}
  BY DEF WaitState, Asked
<1>4. QED  BY <1>1, <1>2, <1>3

LEMMA TaskIsNotNone == \A task \in Tasks : task # NoTask
BY NoTaskAssumption

-----------------------------------------------------------------------------
(* The decisions *)

LEMMA FinishTurnSound ==
    ASSUME NEW status \in Statuses, NEW stack \in Stacks,
           NEW finished \in Tasks \cup {NoTask}, NEW end \in {"DONE", "ABORTED"},
           NEW intent \in Labels
    PROVE  /\ Sound(FinishTurn(status, stack, finished, end, intent))
           /\ FinishTurn(status, stack, finished, end, intent).finished = finished
           /\ FinishTurn(status, stack, finished, end, intent).status = status
<1> DEFINE out == FinishTurn(status, stack, finished, end, intent)
           resumed == Topmost({i \in DOMAIN stack : ~GivesUp(stack[i])})
           waiting == Topmost({i \in DOMAIN stack : Waits(stack[i])})
           rest == IF waiting = 0 THEN <<>> ELSE SubSeq(stack, 1, waiting - 1)
<1>1. /\ Len(stack) \in Nat /\ DOMAIN stack = 1..Len(stack)
      /\ \A i \in 1..Len(stack) : stack[i] \in Tasks
  BY StackIsSeq, LimitAssumption
<1>2. resumed \in {i \in DOMAIN stack : ~GivesUp(stack[i])} \cup {0}
  BY <1>1, TopmostLemma
<1>3. waiting \in {i \in DOMAIN stack : Waits(stack[i])} \cup {0}
  BY <1>1, TopmostLemma
<1>4. rest \in Stacks
  <2> HIDE DEF waiting
  <2>1. QED  BY <1>1, <1>3, EmptyIsStack, BelowIsStack
<1>5. out = IF stack = <<>>
            THEN Outcome(end, status, NoTask, <<>>, finished, intent)
            ELSE IF resumed = 0
            THEN Outcome("ABORTED", status, NoTask, <<>>, finished, intent)
            ELSE IF CompleteRead(stack[resumed])
            THEN Outcome("COLLECTING", status, stack[resumed], rest, finished, intent)
            ELSE Outcome(WaitState(stack[resumed]), status, Asked(stack[resumed]),
                         rest, finished, intent)
  BY DEF FinishTurn
<1> HIDE DEF out, resumed, waiting, rest
<1>6. CASE stack = <<>> \/ resumed = 0
  <2>1. \E state \in {"DONE", "ABORTED"} :
           out = Outcome(state, status, NoTask, <<>>, finished, intent)
    BY <1>5, <1>6
  <2>2. QED
    BY <2>1, EmptyIsStack
    DEF out, Sound, Outcomes, Outcome, Armed, States, WaitingStates
<1>7. CASE stack # <<>> /\ resumed # 0
  <2> DEFINE task == stack[resumed]
  <2>1. task \in Tasks /\ task # NoTask /\ ~GivesUp(task)
    BY <1>1, <1>2, <1>7, TaskIsNotNone
  <2>2. CASE CompleteRead(task)
    <3>1. out = Outcome("COLLECTING", status, task, rest, finished, intent)
      BY <1>5, <1>7, <2>2
    <3> HIDE DEF task
    <3>2. QED
      BY <1>4, <2>1, <3>1
      DEF out, Sound, Outcomes, Outcome, Armed, States, WaitingStates
  <2>3. CASE ~CompleteRead(task)
    <3>1. out = Outcome(WaitState(task), status, Asked(task), rest, finished, intent)
      BY <1>5, <1>7, <2>3
    <3> HIDE DEF task
    <3>2. /\ Asked(task) \in Tasks /\ Asked(task) # NoTask
          /\ WaitState(task) \in WaitingStates
          /\ WaitState(task) = "CONFIRMING" =>
                Asked(task).intent \in WriteIntents /\ Missing(Asked(task)) = {}
      BY <2>1, <2>3, WaitingLemma, TaskIsNotNone
    <3>3. QED
      BY <1>4, <3>1, <3>2
      DEF out, Sound, Outcomes, Outcome, Armed, States, WaitingStates
  <2>4. QED  BY <2>2, <2>3
<1>8. QED  BY <1>6, <1>7 DEF out

LEMMA EvaluateSound ==
    ASSUME NEW task \in Tasks, NEW stack \in Stacks
    PROVE  /\ Sound(Evaluate(task, stack))
           /\ Evaluate(task, stack).finished = NoTask
           /\ Evaluate(task, stack).status # "CONFIRMED"
<1> DEFINE out == Evaluate(task, stack)
<1>1. task.intent \in Labels
  BY DEF Tasks, Labels
<1>2. CASE GivesUp(task)
  <2>1. out = FinishTurn("FALLBACK", stack, NoTask, "ABORTED", task.intent)
    BY <1>2 DEF Evaluate
  <2> HIDE DEF out
  <2>2. QED
    BY <1>1, <2>1, FinishTurnSound DEF Statuses, out
<1>3. CASE ~GivesUp(task) /\ CompleteRead(task)
  <2>1. out = FinishTurn("DONE", stack, NoTask, "DONE", task.intent)
    BY <1>3 DEF Evaluate
  <2> HIDE DEF out
  <2>2. QED
    BY <1>1, <2>1, FinishTurnSound DEF Statuses, out
<1>4. CASE ~GivesUp(task) /\ ~CompleteRead(task)
  <2>1. \E status \in {"NEEDS_SLOT", "NEEDS_CONFIRM"} :
           out = Outcome(WaitState(task), status, Asked(task), stack, NoTask, task.intent)
    BY <1>4 DEF Evaluate
  <2>2. /\ Asked(task) \in Tasks /\ Asked(task) # NoTask
        /\ WaitState(task) \in WaitingStates
        /\ WaitState(task) = "CONFIRMING" =>
              Asked(task).intent \in WriteIntents /\ Missing(Asked(task)) = {}
    BY <1>4, WaitingLemma, TaskIsNotNone
  <2> HIDE DEF out
  <2>3. QED
    BY <1>1, <2>1, <2>2
    DEF out, Sound, Outcomes, Outcome, Armed, States, WaitingStates, Statuses
<1>5. QED  BY <1>2, <1>3, <1>4

LEMMA AdvanceSound ==
    ASSUME NEW task \in Tasks, NEW slots \in SlotFillings, NEW stack \in Stacks
    PROVE  /\ Sound(Advance(task, slots, stack))
           /\ Advance(task, slots, stack).finished = NoTask
           /\ Advance(task, slots, stack).status # "CONFIRMED"
<1> DEFINE merged == [task EXCEPT !.slots = Merge(task.slots, slots)]
<1>1. merged \in Tasks
  <2>1. Merge(task.slots, slots) \in SlotFillings
    BY MergeType DEF Tasks
  <2>2. QED  BY <2>1, WithSlotsType
<1>2. Advance(task, slots, stack) = Evaluate(merged, stack)
  BY DEF Advance
<1> HIDE DEF merged
<1>3. QED  BY <1>1, <1>2, EvaluateSound

LEMMA EvidenceType ==
    ASSUME NEW task \in Tasks, NEW slots \in SlotFillings
    PROVE  Evidence(task, slots) \in SlotFillings
BY DEF Evidence, SlotFillings

LEMMA InheritedType ==
    ASSUME NEW task \in Tasks, NEW intent \in Intents
    PROVE  Inherited(task, intent) \in SlotFillings
BY DEF Inherited, SlotFillings, Tasks

\* A message that fits nothing leaves what is sound sound: nothing is current
\* then, so the machine does not wait.
LEMMA FallbackSound ==
    ASSUME NEW state \in States, NEW stack \in Stacks, state \notin WaitingStates
    PROVE  /\ Sound(Fallback(state, stack))
           /\ Fallback(state, stack).finished = NoTask
           /\ Fallback(state, stack).status # "CONFIRMED"
BY DEF Fallback, Outcome, Sound, Outcomes, Armed, Statuses, WaitingStates,
       Labels, ControlLabels

LEMMA OnRequestSound ==
    ASSUME NEW state \in States, NEW active \in Tasks \cup {NoTask},
           NEW stack \in Stacks, NEW intent \in Intents,
           NEW slots \in SlotFillings, NEW strong \in BOOLEAN
    PROVE  /\ Sound(OnRequest(state, active, stack, intent, slots, strong))
           /\ OnRequest(state, active, stack, intent, slots, strong).finished = NoTask
           /\ OnRequest(state, active, stack, intent, slots, strong).status # "CONFIRMED"
<1> DEFINE out == OnRequest(state, active, stack, intent, slots, strong)
           switch == active # NoTask /\ state \in WaitingStates /\ active.intent # intent
<1>1. CASE ~switch
  <2>1. out = Evaluate(NewTask(intent, slots), stack)
    BY <1>1 DEF OnRequest
  <2>2. NewTask(intent, slots) \in Tasks
    BY NewTaskType
  <2> HIDE DEF out
  <2>3. QED  BY <2>1, <2>2, EvaluateSound DEF out
<1>2. CASE switch /\ ~strong
  <2>1. out = Advance(active, NoSlots, stack)
    BY <1>2 DEF OnRequest
  <2>2. active \in Tasks
    BY <1>2
  <2> HIDE DEF out
  <2>3. QED  BY <2>1, <2>2, NoSlotsType, AdvanceSound DEF out
<1>3. CASE switch /\ strong
  <2>1. out = Evaluate(NewTask(intent, Merge(Inherited(active, intent), slots)),
                       Push(stack, <<active>>))
    BY <1>3 DEF OnRequest
  <2>2. active \in Tasks
    BY <1>3
  <2>3. Push(stack, <<active>>) \in Stacks
    <3>1. <<active>> \in Seq(Tasks)
      BY <2>2
    <3>2. QED  BY <3>1, PushType
  <2>4. NewTask(intent, Merge(Inherited(active, intent), slots)) \in Tasks
    BY <2>2, InheritedType, MergeType, NewTaskType
  <2> HIDE DEF out
  <2>5. QED  BY <2>1, <2>3, <2>4, EvaluateSound DEF out
<1>4. QED  BY <1>1, <1>2, <1>3

\* One message, case by case.
LEMMA ResolveDecides ==
    ASSUME NEW state \in States, NEW active \in Tasks \cup {NoTask},
           Armed(state, active), NEW stack0 \in Stacks,
           NEW msg \in Messages, Sayable(msg.label, state)
    PROVE  /\ Sound(Resolve(state, active, stack0, msg))
           /\ Resolve(state, active, stack0, msg).finished # NoTask =>
                 /\ state = "CONFIRMING" /\ active # NoTask
                 /\ Resolve(state, active, stack0, msg).finished = active
           /\ Resolve(state, active, stack0, msg).status = "CONFIRMED" =>
                 Resolve(state, active, stack0, msg).finished # NoTask
           /\ Resolve(state, active, stack0, msg).finished # NoTask =>
                 msg.label = "CONFIRM"
<1> DEFINE out == Resolve(state, active, stack0, msg)
           stack == PushPending(stack0, msg.pending)
           Quiet == out.finished = NoTask /\ out.status # "CONFIRMED"
           Taken == /\ msg.label = "CONFIRM"
                    /\ state = "CONFIRMING" /\ active # NoTask
                    /\ out.finished = active
<1>1. /\ msg.label \in Labels /\ msg.slots \in SlotFillings
      /\ msg.pending \in Pendings(Requests) /\ msg.strong \in BOOLEAN
  BY DEF Messages
<1>2. stack \in Stacks
  BY <1>1, PushPendingType
<1>3. active = NoTask => state \notin WaitingStates
  BY DEF Armed
<1>4. /\ msg.label = "TRANSFER" =>
            out = Outcome("HANDOFF", "HANDOFF", NoTask, <<>>, NoTask, "TRANSFER")
      /\ msg.label = "ABORT" =>
            out = Outcome("ABORTED", "ABORTED", NoTask, <<>>, NoTask, "ABORT")
      /\ msg.label \in {"CHAT", "PAYMENT"} =>
            out = Outcome(state, "DONE", active, stack, NoTask, msg.label)
      /\ msg.label = "CONFIRM" => out = OnConfirm(state, active, stack)
      /\ msg.label = "DENY" => out = OnDeny(state, active, stack)
      /\ msg.label = "SLOT_ONLY" => out = OnSlots(state, active, stack, msg.slots)
      /\ msg.label = "UNKNOWN" => out = OnUnknown(state, active, stack, msg.slots)
  BY LabelsAssumption DEF Resolve, ControlLabels, Intents
<1>5. msg.label \in Intents =>
          out = OnRequest(state, active, stack, msg.label, msg.slots, msg.strong)
  BY LabelsAssumption DEF Resolve, ControlLabels
<1> SUFFICES Sound(out) /\ (Quiet \/ Taken)
  BY DEF Quiet, Taken
<1> HIDE DEF out, stack
<1>6. CASE msg.label \in {"TRANSFER", "ABORT"}
  <2>1. Sound(out)
    BY <1>4, <1>6, EmptyIsStack
    DEF Outcome, Sound, Outcomes, Armed, States, Statuses, WaitingStates,
        Labels, ControlLabels
  <2>2. Quiet
    BY <1>4, <1>6 DEF Outcome
  <2>3. QED  BY <2>1, <2>2
<1>7. CASE msg.label \in {"CHAT", "PAYMENT"}
  <2>1. Sound(out)
    BY <1>1, <1>2, <1>4, <1>7 DEF Outcome, Sound, Outcomes, Armed, Statuses
  <2>2. Quiet
    BY <1>4, <1>7 DEF Outcome
  <2>3. QED  BY <2>1, <2>2
<1>8. CASE msg.label = "CONFIRM"
  <2>1. state = "CONFIRMING" /\ active # NoTask
    BY <1>3, <1>8 DEF Sayable, WaitingStates
  <2>2. out = FinishTurn("CONFIRMED", stack, active, "DONE", active.intent)
    BY <1>4, <1>8, <2>1 DEF OnConfirm
  <2>3. active.intent \in Labels
    BY <2>1 DEF Tasks, Labels
  <2>4. Sound(out) /\ out.finished = active
    <3>1. "CONFIRMED" \in Statuses /\ "DONE" \in {"DONE", "ABORTED"}
      BY DEF Statuses
    <3>2. /\ Sound(FinishTurn("CONFIRMED", stack, active, "DONE", active.intent))
          /\ FinishTurn("CONFIRMED", stack, active, "DONE", active.intent).finished = active
      BY <1>2, <2>3, <3>1, FinishTurnSound
    <3>3. QED  BY <2>2, <3>2
  <2>5. QED  BY <1>8, <2>1, <2>4
<1>9. CASE msg.label = "DENY"
  <2>1. state \in WaitingStates /\ active # NoTask
    BY <1>3, <1>9 DEF Sayable
  <2>2. out = FinishTurn("ABORTED", stack, NoTask, "ABORTED", "DENY")
    BY <1>4, <1>9, <2>1 DEF OnDeny
  <2>3. Sound(out) /\ Quiet
    <3>1. /\ "ABORTED" \in Statuses /\ "ABORTED" \in {"DONE", "ABORTED"}
          /\ "DENY" \in Labels /\ NoTask \in Tasks \cup {NoTask}
      BY DEF Statuses, Labels, ControlLabels
    <3>2. /\ Sound(FinishTurn("ABORTED", stack, NoTask, "ABORTED", "DENY"))
          /\ FinishTurn("ABORTED", stack, NoTask, "ABORTED", "DENY").finished = NoTask
          /\ FinishTurn("ABORTED", stack, NoTask, "ABORTED", "DENY").status = "ABORTED"
      BY <1>2, <3>1, FinishTurnSound
    <3>3. "ABORTED" # "CONFIRMED"
      OBVIOUS
    <3>4. QED  BY <2>2, <3>2, <3>3
  <2>4. QED  BY <2>3
<1>10. CASE msg.label \in {"SLOT_ONLY", "UNKNOWN"}
  <2>1. CASE active = NoTask
    <3>1. out = Fallback(state, stack)
      BY <1>4, <1>10, <2>1 DEF OnSlots, OnUnknown
    <3>2. QED  BY <1>2, <1>3, <2>1, <3>1, FallbackSound
  <2>2. CASE active # NoTask
    <3>1. \E slots \in SlotFillings : out = Advance(active, slots, stack)
      BY <1>1, <1>4, <1>10, <2>2, EvidenceType DEF OnSlots, OnUnknown
    <3>2. QED  BY <1>2, <2>2, <3>1, AdvanceSound
  <2>3. QED  BY <2>1, <2>2
<1>11. CASE msg.label \in Intents
  <2>1. Sound(out) /\ Quiet
    BY <1>1, <1>2, <1>5, <1>11, OnRequestSound
  <2>2. QED  BY <2>1
<1>12. QED
  BY <1>1, <1>6, <1>7, <1>8, <1>9, <1>10, <1>11 DEF Labels, ControlLabels

\* One message: what is sound before is sound after, and only a confirmation
\* at the gate hands over a task, the one that stands there.
THEOREM ResolveSound ==
    ASSUME NEW state \in States, NEW active \in Tasks \cup {NoTask},
           Armed(state, active), NEW stack0 \in Stacks,
           NEW msg \in Messages, Sayable(msg.label, state)
    PROVE  /\ Sound(Resolve(state, active, stack0, msg))
           /\ Resolve(state, active, stack0, msg).finished # NoTask =>
                 /\ state = "CONFIRMING" /\ active # NoTask
                 /\ Resolve(state, active, stack0, msg).finished = active
           /\ Resolve(state, active, stack0, msg).status = "CONFIRMED" =>
                 Resolve(state, active, stack0, msg).finished # NoTask
BY ResolveDecides

-----------------------------------------------------------------------------
(***************************************************************************)
(* The rows of the tasks.  Every decision picks tasks of the stack in      *)
(* their order, puts the current task on top of them and adds tasks that   *)
(* have no row yet.  So it brings no row into the conversation, and it     *)
(* never puts a row above another one that it was not above before: if no  *)
(* two tasks, the lower one first, have a pair of rows in Bad, none have   *)
(* afterwards.  The current task counts as the top of the stack.           *)
(***************************************************************************)
Arranged(task, tasks, R, Bad) ==
    /\ \A k \in DOMAIN tasks : tasks[k].row \in R
    /\ \A k, l \in DOMAIN tasks : k < l => <<tasks[k].row, tasks[l].row>> \notin Bad
    /\ task # NoTask =>
          /\ task.row \in R
          /\ \A k \in DOMAIN tasks : <<tasks[k].row, task.row>> \notin Bad

LEMMA NoneArranged ==
    ASSUME NEW R, NEW Bad
    PROVE  Arranged(NoTask, <<>>, R, Bad)
BY DEF Arranged

LEMMA ForgottenArranged ==
    ASSUME NEW R, NEW Bad, NEW task, NEW tasks, Arranged(task, tasks, R, Bad)
    PROVE  Arranged(NoTask, tasks, R, Bad)
BY DEF Arranged

\* The same tasks under another top, one with the same row or none.
LEMMA TopArranged ==
    ASSUME NEW R, NEW Bad \in SUBSET (Rows \X Rows), NoRow \in R,
           NEW task, NEW tasks, Arranged(task, tasks, R, Bad),
           NEW top, top.row = NoRow \/ (task # NoTask /\ top.row = task.row)
    PROVE  Arranged(top, tasks, R, Bad)
<1>1. \A r : <<r, NoRow>> \notin Bad
  BY SkillAssumption
<1>2. QED  BY <1>1 DEF Arranged

LEMMA SectionArranged ==
    ASSUME NEW R, NEW Bad, NEW task, NEW s \in Seq(Tasks), Arranged(task, s, R, Bad),
           NEW a \in Nat \ {0}, NEW b \in 0..Len(s)
    PROVE  Arranged(task, SubSeq(s, a, b), R, Bad)
<1> DEFINE t == SubSeq(s, a, b)
<1>1. \A k \in DOMAIN t : /\ k \in Nat /\ a + k - 1 \in DOMAIN s
                          /\ t[k] = s[a + k - 1]
  OBVIOUS
<1> HIDE DEF t
<1>2. \A k, l \in DOMAIN t : k < l => a + k - 1 < a + l - 1
  BY <1>1
<1>3. Arranged(task, t, R, Bad)
  <2>1. \A k \in DOMAIN t : t[k].row \in R
    BY <1>1 DEF Arranged
  <2>2. \A k, l \in DOMAIN t : k < l => <<t[k].row, t[l].row>> \notin Bad
    BY <1>1, <1>2 DEF Arranged
  <2>3. task # NoTask =>
          /\ task.row \in R
          /\ \A k \in DOMAIN t : <<t[k].row, task.row>> \notin Bad
    BY <1>1 DEF Arranged
  <2>4. QED  BY <2>1, <2>2, <2>3 DEF Arranged
<1>4. QED  BY <1>3 DEF t

\* Tasks that have no row yet, on top of the stack.
LEMMA PushFreshArranged ==
    ASSUME NEW R, NEW Bad \in SUBSET (Rows \X Rows), NoRow \in R,
           NEW task, NEW stack \in Stacks, Arranged(task, stack, R, Bad),
           NEW fresh \in Seq(Tasks), \A i \in DOMAIN fresh : fresh[i].row = NoRow
    PROVE  Arranged(task, Push(stack, fresh), R, Bad)
<1> DEFINE all == stack \o fresh
<1>1. stack \in Seq(Tasks)
  BY StackIsSeq
<1>2. all \in Seq(Tasks)
  BY <1>1
<1>3. \A k \in DOMAIN all :
         /\ k \in Nat
         /\ \/ k \in DOMAIN stack /\ all[k] = stack[k]
            \/ k \notin DOMAIN stack /\ all[k].row = NoRow
  BY <1>1
<1>4. \A r : <<r, NoRow>> \notin Bad /\ <<NoRow, r>> \notin Bad
  BY SkillAssumption
<1>5. Arranged(task, all, R, Bad)
  <2> HIDE DEF all
  <2>1. \A k \in DOMAIN all : all[k].row \in R
    BY <1>3 DEF Arranged
  <2>2. \A k, l \in DOMAIN all : k < l => <<all[k].row, all[l].row>> \notin Bad
    BY <1>3, <1>4 DEF Arranged
  <2>3. task # NoTask =>
          /\ task.row \in R
          /\ \A k \in DOMAIN all : <<all[k].row, task.row>> \notin Bad
    BY <1>3, <1>4 DEF Arranged
  <2>4. QED  BY <2>1, <2>2, <2>3 DEF Arranged
<1>6. CASE Len(all) > StackMax
  <2>1. Len(all) - StackMax + 1 \in Nat \ {0} /\ Len(all) \in 0..Len(all)
    BY <1>2, <1>6, LimitAssumption
  <2>2. Arranged(task, SubSeq(all, Len(all) - StackMax + 1, Len(all)), R, Bad)
    <3> HIDE DEF all
    <3>1. QED  BY <1>2, <1>5, <2>1, SectionArranged
  <2>3. QED  BY <1>6, <2>2 DEF Push
<1>7. CASE ~(Len(all) > StackMax)
  BY <1>5, <1>7 DEF Push
<1>8. QED  BY <1>6, <1>7

\* The current task is suspended: it was the top, and it is the top.
LEMMA SuspendArranged ==
    ASSUME NEW R, NEW Bad, NEW task \in Tasks, NEW stack \in Stacks,
           Arranged(task, stack, R, Bad)
    PROVE  Arranged(NoTask, Push(stack, <<task>>), R, Bad)
<1> DEFINE all == stack \o <<task>>
<1>1. stack \in Seq(Tasks)
  BY StackIsSeq
<1>2. all \in Seq(Tasks)
  BY <1>1
<1>3. \A k \in DOMAIN all :
         /\ k \in Nat
         /\ \/ k \in DOMAIN stack /\ all[k] = stack[k]
            \/ k = Len(stack) + 1 /\ all[k] = task
  BY <1>1
<1>4. \A k, l \in DOMAIN all :
         k < l => /\ k \in DOMAIN stack /\ all[k] = stack[k]
                  /\ \/ l \in DOMAIN stack /\ all[l] = stack[l]
                     \/ all[l] = task
  BY <1>1
<1>5. task # NoTask
  BY TaskIsNotNone
<1>6. Arranged(NoTask, all, R, Bad)
  <2> HIDE DEF all
  <2>1. \A k \in DOMAIN all : all[k].row \in R
    BY <1>3, <1>5 DEF Arranged
  <2>2. \A k, l \in DOMAIN all : k < l => <<all[k].row, all[l].row>> \notin Bad
    BY <1>4, <1>5 DEF Arranged
  <2>3. QED  BY <2>1, <2>2 DEF Arranged
<1>7. CASE Len(all) > StackMax
  <2>1. Len(all) - StackMax + 1 \in Nat \ {0} /\ Len(all) \in 0..Len(all)
    BY <1>2, <1>7, LimitAssumption
  <2>2. Arranged(NoTask, SubSeq(all, Len(all) - StackMax + 1, Len(all)), R, Bad)
    <3> HIDE DEF all
    <3>1. QED  BY <1>2, <1>6, <2>1, SectionArranged
  <2>3. QED  BY <1>7, <2>2 DEF Push
<1>8. CASE ~(Len(all) > StackMax)
  BY <1>6, <1>8 DEF Push
<1>9. QED  BY <1>7, <1>8

\* Expired tasks leave the others in their order.
LEMMA SurvivingArranged ==
    ASSUME NEW R, NEW Bad, NEW task, NEW stack \in Stacks,
           Arranged(task, stack, R, Bad), NEW f \in Picks(Len(stack))
    PROVE  Arranged(task, Surviving(stack, f), R, Bad)
<1> DEFINE kept == Surviving(stack, f)
<1>1. DOMAIN stack = 1..Len(stack) /\ Len(stack) \in Nat
  BY StackIsSeq
<1>2. PICK m \in 0..Len(stack) :
         f \in [1..m -> 1..Len(stack)] /\ \A i, j \in 1..m : i < j => f[i] < f[j]
  BY DEF Picks
<1>3. \A k \in DOMAIN kept : /\ k \in 1..m /\ f[k] \in DOMAIN stack
                             /\ kept[k] = stack[f[k]]
  BY <1>1, <1>2 DEF Surviving
<1>4. Arranged(task, kept, R, Bad)
  <2> HIDE DEF kept
  <2>1. \A k \in DOMAIN kept : kept[k].row \in R
    BY <1>3 DEF Arranged
  <2>2. \A k, l \in DOMAIN kept : k < l => <<kept[k].row, kept[l].row>> \notin Bad
    BY <1>2, <1>3 DEF Arranged
  <2>3. task # NoTask =>
          /\ task.row \in R
          /\ \A k \in DOMAIN kept : <<kept[k].row, task.row>> \notin Bad
    BY <1>3 DEF Arranged
  <2>4. QED  BY <2>1, <2>2, <2>3 DEF Arranged
<1>5. QED  BY <1>4 DEF kept

LEMMA PendingArranged ==
    ASSUME NEW R, NEW Bad \in SUBSET (Rows \X Rows), NoRow \in R,
           NEW task, NEW stack \in Stacks, Arranged(task, stack, R, Bad),
           NEW pending \in Pendings(Requests)
    PROVE  Arranged(task, PushPending(stack, pending), R, Bad)
<1> DEFINE tasks == [i \in DOMAIN pending |->
                        NewTask(pending[i].intent, pending[i].slots)]
<1>1. tasks \in Seq(Tasks) /\ \A i \in DOMAIN tasks : tasks[i].row = NoRow
  <2>1. tasks \in Seq(Tasks)
    BY PendingTasksType
  <2>2. QED  BY <2>1 DEF NewTask
<1> HIDE DEF tasks
<1>2. \A i \in 1..Len(tasks) : Len(tasks) - i + 1 \in DOMAIN tasks
  BY <1>1
<1>3. /\ Reverse(tasks) \in Seq(Tasks)
      /\ \A i \in DOMAIN Reverse(tasks) : Reverse(tasks)[i].row = NoRow
  <2>1. Reverse(tasks) \in [1..Len(tasks) -> Tasks]
    BY <1>1, <1>2 DEF Reverse
  <2>2. Reverse(tasks) \in Seq(Tasks)
    BY <1>1, <2>1
  <2>3. \A i \in 1..Len(tasks) : Reverse(tasks)[i].row = NoRow
    BY <1>1, <1>2 DEF Reverse
  <2>4. QED  BY <2>1, <2>2, <2>3
<1>4. Arranged(task, Push(stack, Reverse(tasks)), R, Bad)
  BY <1>3, PushFreshArranged
<1>5. QED  BY <1>4 DEF PushPending, tasks

LEMMA AskedRow == \A task \in Tasks : Asked(task).row = task.row
BY DEF Asked, Tasks

\* Ending a task resumes one of the stack, and only tasks below it are left.
LEMMA FinishTurnArranged ==
    ASSUME NEW R, NEW Bad, NEW stack \in Stacks, Arranged(NoTask, stack, R, Bad),
           NEW status, NEW finished, NEW end, NEW intent,
           NEW out, out = FinishTurn(status, stack, finished, end, intent)
    PROVE  Arranged(out.active, out.stack, R, Bad)
<1> DEFINE resumed == Topmost({i \in DOMAIN stack : ~GivesUp(stack[i])})
           waiting == Topmost({i \in DOMAIN stack : Waits(stack[i])})
           rest == IF waiting = 0 THEN <<>> ELSE SubSeq(stack, 1, waiting - 1)
<1>1. /\ Len(stack) \in Nat /\ DOMAIN stack = 1..Len(stack) /\ stack \in Seq(Tasks)
      /\ \A i \in 1..Len(stack) : stack[i] \in Tasks
  BY StackIsSeq, LimitAssumption
<1>2. /\ resumed \in {i \in DOMAIN stack : ~GivesUp(stack[i])} \cup {0}
      /\ \A i \in {i \in DOMAIN stack : ~GivesUp(stack[i])} : i <= resumed
  BY <1>1, TopmostLemma
<1>3. waiting \in {i \in DOMAIN stack : Waits(stack[i])} \cup {0}
  BY <1>1, TopmostLemma
<1>4. waiting <= resumed
  <2> HIDE DEF resumed, waiting
  <2>1. QED  BY <1>1, <1>2, <1>3 DEF Waits
<1>5. Arranged(NoTask, rest, R, Bad)
  <2> HIDE DEF resumed, waiting
  <2>1. CASE waiting = 0
    BY <2>1, NoneArranged
  <2>2. CASE waiting # 0
    <3>1. waiting - 1 \in 0..Len(stack)
      BY <1>1, <1>3, <2>2
    <3>2. QED  BY <1>1, <2>2, <3>1, SectionArranged
  <2>3. QED  BY <2>1, <2>2
<1>6. resumed # 0 => Arranged(stack[resumed], rest, R, Bad)
  <2> HIDE DEF resumed
  <2>1. SUFFICES ASSUME resumed # 0 PROVE Arranged(stack[resumed], rest, R, Bad)
    OBVIOUS
  <2>2. stack[resumed].row \in R
    BY <1>2, <2>1 DEF Arranged
  <2>3. \A k \in DOMAIN rest : k \in DOMAIN stack /\ k < resumed /\ rest[k] = stack[k]
    <3> HIDE DEF waiting
    <3>1. QED  BY <1>1, <1>2, <1>3, <1>4, <2>1
  <2>4. \A k \in DOMAIN rest : <<rest[k].row, stack[resumed].row>> \notin Bad
    BY <1>2, <2>1, <2>3 DEF Arranged
  <2> HIDE DEF rest
  <2>5. QED  BY <1>5, <2>2, <2>4 DEF Arranged
<1>7. out = IF stack = <<>>
            THEN Outcome(end, status, NoTask, <<>>, finished, intent)
            ELSE IF resumed = 0
            THEN Outcome("ABORTED", status, NoTask, <<>>, finished, intent)
            ELSE IF CompleteRead(stack[resumed])
            THEN Outcome("COLLECTING", status, stack[resumed], rest, finished, intent)
            ELSE Outcome(WaitState(stack[resumed]), status, Asked(stack[resumed]),
                         rest, finished, intent)
  BY DEF FinishTurn
<1> HIDE DEF resumed, waiting, rest
<1>8. CASE stack = <<>> \/ resumed = 0
  <2>1. out.active = NoTask /\ out.stack = <<>>
    BY <1>7, <1>8 DEF Outcome
  <2>2. QED  BY <2>1, NoneArranged
<1>9. CASE stack # <<>> /\ resumed # 0
  <2>1. /\ out.active \in {stack[resumed], Asked(stack[resumed])}
        /\ out.stack = rest
    BY <1>7, <1>9 DEF Outcome
  <2>2. out.active.row = stack[resumed].row
    BY <1>1, <1>2, <1>9, <2>1, AskedRow
  <2>3. stack[resumed] # NoTask
    BY <1>1, <1>2, <1>9, TaskIsNotNone
  <2>4. QED  BY <1>6, <1>9, <2>1, <2>2, <2>3 DEF Arranged
<1>10. QED  BY <1>8, <1>9

LEMMA EvaluateArranged ==
    ASSUME NEW R, NEW Bad, NEW task \in Tasks, NEW stack \in Stacks,
           Arranged(task, stack, R, Bad),
           NEW out, out = Evaluate(task, stack)
    PROVE  Arranged(out.active, out.stack, R, Bad)
<1>1. CASE GivesUp(task) \/ CompleteRead(task)
  <2>1. \E status, end : out = FinishTurn(status, stack, NoTask, end, task.intent)
    BY <1>1 DEF Evaluate
  <2>2. Arranged(NoTask, stack, R, Bad)
    BY ForgottenArranged
  <2>3. QED  BY <2>1, <2>2, FinishTurnArranged
<1>2. CASE ~GivesUp(task) /\ ~CompleteRead(task)
  <2>1. out.active = Asked(task) /\ out.stack = stack
    BY <1>2 DEF Evaluate, Outcome
  <2>2. out.active.row = task.row /\ task # NoTask
    BY <2>1, AskedRow, TaskIsNotNone
  <2>3. QED  BY <2>1, <2>2 DEF Arranged
<1>3. QED  BY <1>1, <1>2

LEMMA AdvanceArranged ==
    ASSUME NEW R, NEW Bad, NEW task \in Tasks, NEW slots \in SlotFillings,
           NEW stack \in Stacks, Arranged(task, stack, R, Bad),
           NEW out, out = Advance(task, slots, stack)
    PROVE  Arranged(out.active, out.stack, R, Bad)
<1> DEFINE merged == [task EXCEPT !.slots = Merge(task.slots, slots)]
<1>1. merged \in Tasks
  <2>1. Merge(task.slots, slots) \in SlotFillings
    BY MergeType DEF Tasks
  <2>2. QED  BY <2>1, WithSlotsType
<1>2. merged.row = task.row /\ task # NoTask
  BY TaskIsNotNone DEF Tasks
<1>3. out = Evaluate(merged, stack)
  BY DEF Advance
<1> HIDE DEF merged
<1>4. Arranged(merged, stack, R, Bad)
  BY <1>2 DEF Arranged
<1>5. QED  BY <1>1, <1>3, <1>4, EvaluateArranged

LEMMA OnRequestArranged ==
    ASSUME NEW R, NEW Bad \in SUBSET (Rows \X Rows), NoRow \in R,
           NEW state \in States, NEW active \in Tasks \cup {NoTask},
           NEW stack \in Stacks, Arranged(active, stack, R, Bad),
           NEW intent \in Intents, NEW slots \in SlotFillings, NEW strong \in BOOLEAN,
           NEW out, out = OnRequest(state, active, stack, intent, slots, strong)
    PROVE  Arranged(out.active, out.stack, R, Bad)
<1> DEFINE switch == active # NoTask /\ state \in WaitingStates /\ active.intent # intent
<1>1. CASE ~switch
  <2>1. out = Evaluate(NewTask(intent, slots), stack)
    BY <1>1 DEF OnRequest
  <2>2. NewTask(intent, slots) \in Tasks /\ NewTask(intent, slots).row = NoRow
    BY NewTaskType DEF NewTask
  <2>3. Arranged(NewTask(intent, slots), stack, R, Bad)
    BY <2>2, TopArranged
  <2>4. QED  BY <2>1, <2>2, <2>3, EvaluateArranged
<1>2. CASE switch /\ ~strong
  <2>1. out = Advance(active, NoSlots, stack)
    BY <1>2 DEF OnRequest
  <2>2. QED  BY <1>2, <2>1, NoSlotsType, AdvanceArranged
<1>3. CASE switch /\ strong
  <2> DEFINE new == NewTask(intent, Merge(Inherited(active, intent), slots))
             pushed == Push(stack, <<active>>)
  <2>1. out = Evaluate(new, pushed)
    BY <1>3 DEF OnRequest
  <2>2. active \in Tasks
    BY <1>3
  <2>3. pushed \in Stacks /\ Arranged(NoTask, pushed, R, Bad)
    <3>1. <<active>> \in Seq(Tasks)
      BY <2>2
    <3>2. QED  BY <2>2, <3>1, PushType, SuspendArranged
  <2>4. new \in Tasks /\ new.row = NoRow
    <3>1. Merge(Inherited(active, intent), slots) \in SlotFillings
      BY <2>2, InheritedType, MergeType
    <3>2. QED  BY <3>1, NewTaskType DEF NewTask
  <2> HIDE DEF new, pushed
  <2>5. Arranged(new, pushed, R, Bad)
    BY <2>3, <2>4, TopArranged
  <2>6. QED  BY <2>1, <2>3, <2>4, <2>5, EvaluateArranged
<1>4. QED  BY <1>1, <1>2, <1>3

\* One message brings no row into the conversation and puts none above
\* another one that it was not above before.
THEOREM ResolveArranged ==
    ASSUME NEW R, NEW Bad \in SUBSET (Rows \X Rows), NoRow \in R,
           NEW state \in States, NEW active \in Tasks \cup {NoTask},
           NEW stack0 \in Stacks, Arranged(active, stack0, R, Bad),
           NEW msg \in Messages,
           NEW out, out = Resolve(state, active, stack0, msg)
    PROVE  Arranged(out.active, out.stack, R, Bad)
<1> DEFINE stack == PushPending(stack0, msg.pending)
<1>1. /\ msg.label \in Labels /\ msg.slots \in SlotFillings
      /\ msg.pending \in Pendings(Requests) /\ msg.strong \in BOOLEAN
  BY DEF Messages
<1>2. /\ stack \in Stacks
      /\ Arranged(active, stack, R, Bad)
      /\ Arranged(NoTask, stack, R, Bad)
  BY <1>1, PushPendingType, PendingArranged, ForgottenArranged
<1>3. /\ msg.label = "TRANSFER" =>
            out = Outcome("HANDOFF", "HANDOFF", NoTask, <<>>, NoTask, "TRANSFER")
      /\ msg.label = "ABORT" =>
            out = Outcome("ABORTED", "ABORTED", NoTask, <<>>, NoTask, "ABORT")
      /\ msg.label \in {"CHAT", "PAYMENT"} =>
            out = Outcome(state, "DONE", active, stack, NoTask, msg.label)
      /\ msg.label = "CONFIRM" => out = OnConfirm(state, active, stack)
      /\ msg.label = "DENY" => out = OnDeny(state, active, stack)
      /\ msg.label = "SLOT_ONLY" => out = OnSlots(state, active, stack, msg.slots)
      /\ msg.label = "UNKNOWN" => out = OnUnknown(state, active, stack, msg.slots)
  BY LabelsAssumption DEF Resolve, ControlLabels, Intents
<1>4. msg.label \in Intents =>
          out = OnRequest(state, active, stack, msg.label, msg.slots, msg.strong)
  BY LabelsAssumption DEF Resolve, ControlLabels
<1> HIDE DEF stack
<1>5. CASE msg.label \in {"TRANSFER", "ABORT"}
  <2>1. out.active = NoTask /\ out.stack = <<>>
    BY <1>3, <1>5 DEF Outcome
  <2>2. QED  BY <2>1, NoneArranged
<1>6. CASE msg.label \in {"CHAT", "PAYMENT"}
  <2>1. out.active = active /\ out.stack = stack
    BY <1>3, <1>6 DEF Outcome
  <2>2. QED  BY <1>2, <2>1
<1>7. CASE out = Fallback(state, stack)
  <2>1. out.active = NoTask /\ out.stack = stack
    BY <1>7 DEF Fallback, Outcome
  <2>2. QED  BY <1>2, <2>1
<1>8. CASE msg.label \in {"CONFIRM", "DENY"} /\ out # Fallback(state, stack)
  <2>1. \E status, finished, end, intent :
           out = FinishTurn(status, stack, finished, end, intent)
    BY <1>3, <1>8 DEF OnConfirm, OnDeny
  <2>2. QED  BY <1>2, <2>1, FinishTurnArranged
<1>9. CASE msg.label \in {"SLOT_ONLY", "UNKNOWN"} /\ out # Fallback(state, stack)
  <2>1. active \in Tasks
    BY <1>3, <1>9 DEF OnSlots, OnUnknown
  <2>2. \E slots \in SlotFillings : out = Advance(active, slots, stack)
    BY <1>1, <1>3, <1>9, <2>1, EvidenceType DEF OnSlots, OnUnknown
  <2>3. QED  BY <1>2, <2>1, <2>2, AdvanceArranged
<1>10. CASE msg.label \in Intents
  BY <1>1, <1>2, <1>4, <1>10, OnRequestArranged
<1>11. QED
  BY <1>1, <1>5, <1>6, <1>7, <1>8, <1>9, <1>10 DEF Labels, ControlLabels
=============================================================================
