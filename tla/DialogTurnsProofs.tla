------------------------- MODULE DialogTurnsProofs -------------------------
(***************************************************************************)
(* The conversation of DialogTurns keeps its invariants and implements the *)
(* confirmation gate, and the closed form of the resumption is the         *)
(* recursion of DialogRecursion, for every skill registry, stack limit and *)
(* ask limit.                                                              *)
(***************************************************************************)
EXTENDS DialogRecursion, DialogManagerProofs

\* The strengthening: GateArmed alone does not say that nothing is current
\* when the machine does not wait, and that is what keeps a message that fits
\* nothing from leaving a gate without a task.
GateInv ==
    /\ TypeOK
    /\ Armed(state, active)
    /\ state = "CONFIRMING" => shown = Content(active)

LEMMA InitGateInv == Init => GateInv
<1> SUFFICES ASSUME Init PROVE GateInv
  OBVIOUS
<1>1. TypeOK
  BY EmptyIsStack DEF Init, TypeOK, States
<1>2. Armed(state, active)
  BY DEF Init, Armed, WaitingStates
<1>3. QED  BY <1>1, <1>2 DEF GateInv, Init

\* What load_session_state hands to the state machine is as sound as what was
\* stored; a task at the gate has not been replaced.
LEMMA LoadedSound ==
    ASSUME GateInv, NEW alive \in {TRUE, active = NoTask}
    PROVE  /\ Loaded(alive).state \in States
           /\ Loaded(alive).active \in Tasks \cup {NoTask}
           /\ Armed(Loaded(alive).state, Loaded(alive).active)
           /\ Loaded(alive).active # NoTask => Loaded(alive).active = active
           /\ Loaded(alive).state = "CONFIRMING" => state = "CONFIRMING"
<1>1. state \in States /\ active \in Tasks \cup {NoTask} /\ Armed(state, active)
  BY DEF GateInv, TypeOK
<1>2. CASE alive
  BY <1>1, <1>2 DEF Loaded
<1>3. CASE ~alive
  BY <1>1, <1>3 DEF Loaded, Armed, States, WaitingStates
<1>4. QED  BY <1>2, <1>3

LEMMA SavedType ==
    ASSUME NEW task \in Tasks \cup {NoTask}, NEW saved \in Saved(task)
    PROVE  /\ saved \in Tasks \cup {NoTask}
           /\ saved = NoTask <=> task = NoTask
           /\ task # NoTask => saved.intent = task.intent /\ saved.slots = task.slots
<1>1. CASE task = NoTask
  BY <1>1 DEF Saved, NeedsRow
<1>2. CASE task # NoTask
  <2>1. task \in Tasks
    BY <1>2
  <2>2. saved = task \/ \E r \in Rows : saved = [task EXCEPT !.row = r]
    BY DEF Saved
  <2>3. saved \in Tasks /\ saved.intent = task.intent /\ saved.slots = task.slots
    BY <2>1, <2>2 DEF Tasks
  <2>4. QED  BY <1>2, <2>3, TaskIsNotNone
<1>3. QED  BY <1>1, <1>2

\* What one turn does to the conversation, apart from the state machine's own
\* decision out.
TurnStep(label, alive, out) ==
    /\ Sound(out)
    /\ out.finished # NoTask =>
          Loaded(alive).state = "CONFIRMING" /\ out.finished = active
    /\ label \in {"CHAT", "PAYMENT"} =>
          out.state = Loaded(alive).state /\ out.active = Loaded(alive).active
    /\ state' = out.state
    /\ active' \in Saved(out.active)
    /\ stack' = out.stack
    /\ human' \in BOOLEAN
    /\ shown' = Shown(out, label)
    /\ last' = [label |-> label, finished |-> out.finished]

LEMMA TurnLemma ==
    ASSUME GateInv, NEW alive \in {TRUE, active = NoTask},
           NEW f \in Picks(Len(stack)), NEW msg \in Messages, Turn(msg, alive, f)
    PROVE  \E out : TurnStep(msg.label, alive, out)
<1> DEFINE now == Loaded(alive)
           before == Surviving(stack, f)
           out == Resolve(now.state, now.active, before, msg)
<1>1. /\ now.state \in States /\ now.active \in Tasks \cup {NoTask}
      /\ Armed(now.state, now.active)
      /\ now.active # NoTask => now.active = active
  BY LoadedSound
<1>2. before \in Stacks
  BY SurvivingType DEF GateInv, TypeOK
<1>3. Sayable(msg.label, now.state)
  BY DEF Turn
<1>4. /\ state' = out.state
      /\ active' \in Saved(out.active)
      /\ stack' = out.stack
      /\ human' \in BOOLEAN
      /\ shown' = Shown(out, msg.label)
      /\ last' = [label |-> msg.label, finished |-> out.finished]
  BY DEF Turn
<1>5. /\ Sound(out)
      /\ out.finished # NoTask =>
            now.state = "CONFIRMING" /\ now.active # NoTask /\ out.finished = now.active
  <2> HIDE DEF now, before
  <2>1. QED  BY <1>1, <1>2, <1>3, ResolveSound, Zenon
<1>6. msg.label \in {"CHAT", "PAYMENT"} =>
          out.state = now.state /\ out.active = now.active
  BY LabelsAssumption DEF Resolve, Outcome, ControlLabels, Intents
<1> HIDE DEF out
<1>7. QED  BY <1>1, <1>4, <1>5, <1>6 DEF TurnStep

LEMMA TurnKeepsGateInv ==
    ASSUME GateInv, NEW alive \in {TRUE, active = NoTask}, NEW label \in Labels,
           NEW out, TurnStep(label, alive, out)
    PROVE  GateInv'
<1>1. /\ out.state \in States /\ out.active \in Tasks \cup {NoTask}
      /\ out.stack \in Stacks /\ out.finished \in Tasks \cup {NoTask}
      /\ Armed(out.state, out.active)
  BY DEF TurnStep, Sound, Outcomes
<1>2. /\ active' \in Tasks \cup {NoTask}
      /\ active' = NoTask <=> out.active = NoTask
      /\ out.active # NoTask => /\ active'.intent = out.active.intent
                                /\ active'.slots = out.active.slots
  BY <1>1, SavedType DEF TurnStep
<1>3. Armed(state, active)'
  BY <1>1, <1>2 DEF TurnStep, Armed, Missing, WaitingStates
<1>4. out.state = "CONFIRMING" => out.active \in Tasks
  BY <1>1 DEF Armed, WaitingStates
<1>5. CASE out.state # "CONFIRMING"
  <2>1. shown' = NoTask
    BY <1>5 DEF TurnStep, Shown
  <2>2. QED
    BY <1>1, <1>2, <1>3, <1>5, <2>1 DEF GateInv, TypeOK, TurnStep
<1>6. CASE out.state = "CONFIRMING"
  <2>1. out.active # NoTask /\ Content(out.active) \in Contents
        /\ Content(active') = Content(out.active)
    BY <1>2, <1>4, <1>6, TaskIsNotNone DEF Content, Contents, Tasks
  <2>2. CASE label \in {"CHAT", "PAYMENT"}
    <3>1. shown' = shown
      BY <1>6, <2>1, <2>2 DEF TurnStep, Shown
    <3>2. state = "CONFIRMING" /\ out.active = active
      BY <1>6, <2>1, <2>2, LoadedSound DEF TurnStep
    <3>3. shown' = Content(active')
      BY <2>1, <3>1, <3>2 DEF GateInv
    <3>4. QED
      BY <1>1, <1>2, <1>3, <2>1, <3>3 DEF GateInv, TypeOK, TurnStep
  <2>3. CASE label \notin {"CHAT", "PAYMENT"}
    <3>1. shown' = Content(active')
      BY <1>6, <2>1, <2>3 DEF TurnStep, Shown
    <3>2. QED
      BY <1>1, <1>2, <1>3, <2>1, <3>1 DEF GateInv, TypeOK, TurnStep
  <2>4. QED  BY <2>2, <2>3
<1>7. QED  BY <1>5, <1>6

LEMMA NextGateInv == GateInv /\ [Next]_vars => GateInv'
<1> SUFFICES ASSUME GateInv, [Next]_vars PROVE GateInv'
  OBVIOUS
<1>1. CASE SomeTurn
  <2>1. PICK alive \in {TRUE, active = NoTask}, f \in Picks(Len(stack)), msg \in Messages :
           Turn(msg, alive, f)
    BY <1>1 DEF SomeTurn
  <2>2. PICK out : TurnStep(msg.label, alive, out)
    BY <2>1, TurnLemma
  <2>3. msg.label \in Labels
    BY DEF Messages
  <2>4. QED  BY <2>2, <2>3, TurnKeepsGateInv
<1>2. CASE Reset
  <2>1. TypeOK'
    BY <1>2, EmptyIsStack DEF Reset, TypeOK, States
  <2>2. Armed(state, active)'
    BY <1>2 DEF Reset, Armed, WaitingStates
  <2>3. QED  BY <1>2, <2>1, <2>2 DEF GateInv, Reset
<1>3. CASE UNCHANGED vars
  BY <1>3 DEF vars, GateInv, TypeOK, Armed
<1>4. QED  BY <1>1, <1>2, <1>3 DEF Next

LEMMA GateInvariant == Spec => []GateInv
BY InitGateInv, NextGateInv, PTL DEF Spec

-----------------------------------------------------------------------------

\* Every conversation state the loop can reach is well formed.
THEOREM TypeTheorem == Spec => []TypeOK
<1>1. GateInv => TypeOK
  BY DEF GateInv
<1>2. QED  BY <1>1, GateInvariant, PTL

\* The pair written by the branches of resolve never disagrees: a task is
\* current exactly while the user is asked for something.
THEOREM WaitingTheorem == Spec => []WaitingHasTask
<1>1. GateInv => WaitingHasTask
  BY DEF GateInv, Armed, WaitingHasTask
<1>2. QED  BY <1>1, GateInvariant, PTL

\* What stands at the gate is a complete write operation, and it is the one
\* the user was shown.
THEOREM GateTheorem == Spec => []GateArmed
<1>1. GateInv => GateArmed
  BY DEF GateInv, Armed, GateArmed
<1>2. QED  BY <1>1, GateInvariant, PTL

\* The conversation implements the confirmation gate: what a turn hands to the
\* executor is the content of the prompt that was standing.
THEOREM GateRefinement == Spec => GateSpec
<1>1. Init => Gate!Init
  BY DEF Init, Gate!Init
<1>2. GateInv /\ GateInv' /\ [Next]_vars => [Gate!Next]_(Gate!vars)
  <2> SUFFICES ASSUME GateInv, GateInv', [Next]_vars
               PROVE  [Gate!Next]_(Gate!vars)
    OBVIOUS
  <2>1. shown' \in Contents \cup {NoTask}
    BY DEF GateInv, TypeOK
  <2>2. CASE SomeTurn
    <3>1. PICK alive \in {TRUE, active = NoTask}, f \in Picks(Len(stack)), msg \in Messages :
             Turn(msg, alive, f)
      BY <2>2 DEF SomeTurn
    <3>2. PICK out : TurnStep(msg.label, alive, out)
      BY <3>1, TurnLemma
    <3>3. CASE out.finished = NoTask
      <4>1. last'.finished = NoTask
        BY <3>2, <3>3 DEF TurnStep
      <4>2. QED  BY <2>1, <4>1 DEF Gate!Next, Gate!Talk
    <3>4. CASE out.finished # NoTask
      <4>1. last'.finished = active /\ last'.finished # NoTask /\ active \in Tasks
            /\ state = "CONFIRMING"
        BY <3>2, <3>4, LoadedSound DEF TurnStep, GateInv, TypeOK
      <4>2. shown = Content(active)
        BY <4>1 DEF GateInv
      <4>3. Content(active) \in Contents
        BY <4>1 DEF Content, Contents, Tasks
      <4>4. shown # NoTask
        BY <4>2, <4>3, NoTaskAssumption
      <4>5. QED  BY <2>1, <4>1, <4>2, <4>4 DEF Gate!Next, Gate!Execute
    <3>5. QED  BY <3>3, <3>4
  <2>3. CASE Reset
    BY <2>1, <2>3 DEF Reset, Gate!Next, Gate!Talk
  <2>4. CASE UNCHANGED vars
    BY <2>4 DEF vars, Gate!vars
  <2>5. QED  BY <2>2, <2>3, <2>4 DEF Next
<1>3. QED  BY <1>1, <1>2, GateInvariant, PTL DEF Spec, GateSpec, Gate!Spec

-----------------------------------------------------------------------------
(***************************************************************************)
(* Rows.  OneTaskPerRow is not inductive: a current task without a row     *)
(* could be suspended, and two tasks without a row say nothing.  The       *)
(* strengthening gives the current task a row and counts it as the top of  *)
(* the stack.                                                              *)
(***************************************************************************)
SameRow == {<<r, r>> : r \in Rows}

RowInv ==
    /\ GateInv
    /\ Arranged(active, stack, Rows \cup {NoRow}, SameRow)
    /\ active # NoTask => active.row # NoRow

LEMMA InitRowInv == Init => RowInv
<1> SUFFICES ASSUME Init PROVE RowInv
  OBVIOUS
<1>1. active = NoTask /\ stack = <<>>
  BY DEF Init
<1>2. QED  BY <1>1, InitGateInv, NoneArranged DEF RowInv

\* The rows in use, as LiveRows computes them.
LEMMA LiveRowsLemma ==
    ASSUME GateInv
    PROVE  /\ \A k \in DOMAIN stack : stack[k].row \in LiveRows(active, stack) \cup {NoRow}
           /\ active # NoTask => active.row \in LiveRows(active, stack) \cup {NoRow}
           /\ LiveRows(active, stack) \subseteq Rows
<1>1. stack \in Stacks /\ active \in Tasks \cup {NoTask}
  BY DEF GateInv, TypeOK
<1>2. \A k \in DOMAIN stack : stack[k] \in Tasks
  BY <1>1, StackIsSeq
<1>3. QED  BY <1>1, <1>2 DEF LiveRows, Elements, Tasks

\* Loading, deciding and expiry neither bring in a row nor turn two around.
LEMMA TurnArranged ==
    ASSUME GateInv, NEW alive \in {TRUE, active = NoTask},
           NEW f \in Picks(Len(stack)), NEW msg \in Messages, Turn(msg, alive, f),
           NEW R, NEW Bad \in SUBSET (Rows \X Rows), NoRow \in R,
           Arranged(active, stack, R, Bad)
    PROVE  \E out : /\ out.active \in Tasks \cup {NoTask}
                    /\ Arranged(out.active, out.stack, R, Bad)
                    /\ active' \in Saved(out.active)
                    /\ stack' = out.stack
<1> DEFINE now == Loaded(alive)
           before == Surviving(stack, f)
           out == Resolve(now.state, now.active, before, msg)
<1>1. /\ now.state \in States /\ now.active \in Tasks \cup {NoTask}
      /\ Armed(now.state, now.active)
      /\ now.active # NoTask => now.active = active
  BY LoadedSound
<1>2. before \in Stacks /\ Arranged(active, before, R, Bad)
  BY SurvivingType, SurvivingArranged DEF GateInv, TypeOK
<1>3. /\ Sayable(msg.label, now.state)
      /\ active' \in Saved(out.active) /\ stack' = out.stack
  BY DEF Turn
<1>4. Arranged(now.active, before, R, Bad)
  <2> HIDE DEF before, now
  <2>1. Arranged(NoTask, before, R, Bad)
    BY <1>2, ForgottenArranged
  <2>2. QED  BY <1>1, <1>2, <2>1
<1>5. Arranged(out.active, out.stack, R, Bad)
  <2> HIDE DEF now, before
  <2>1. QED  BY <1>1, <1>2, <1>4, ResolveArranged
<1>6. out.active \in Tasks \cup {NoTask}
  <2>1. Sound(out)
    <3> HIDE DEF now, before
    <3>1. QED  BY <1>1, <1>2, <1>3, ResolveSound, Zenon
  <2> HIDE DEF out
  <2>2. QED  BY <2>1 DEF Sound, Outcomes
<1>7. QED  BY <1>3, <1>5, <1>6

LEMMA NextRowInv == RowInv /\ [Next]_vars => RowInv'
<1> SUFFICES ASSUME RowInv, [Next]_vars PROVE RowInv'
  OBVIOUS
<1>1. GateInv'
  BY NextGateInv DEF RowInv
<1>2. CASE SomeTurn
  <2> DEFINE live == LiveRows(active, stack) \cup {NoRow}
  <2>1. PICK alive \in {TRUE, active = NoTask}, f \in Picks(Len(stack)), msg \in Messages :
           Turn(msg, alive, f)
    BY <1>2 DEF SomeTurn
  <2>2. Arranged(active, stack, live, SameRow) /\ live \subseteq Rows \cup {NoRow}
    BY LiveRowsLemma DEF RowInv, Arranged
  <2>3. SameRow \in SUBSET (Rows \X Rows)
    BY DEF SameRow
  <2>4. PICK out : /\ out.active \in Tasks \cup {NoTask}
                   /\ Arranged(out.active, out.stack, live, SameRow)
                   /\ active' \in Saved(out.active)
                   /\ stack' = out.stack
    <3>1. NoRow \in live
      OBVIOUS
    <3> HIDE DEF live
    <3>2. QED  BY <2>1, <2>2, <2>3, <3>1, TurnArranged DEF RowInv
  <2>5. CASE out.active = NoTask
    <3>1. active' = NoTask
      BY <2>4, <2>5 DEF Saved, NeedsRow
    <3>2. QED  BY <1>1, <2>2, <2>4, <2>5, <3>1 DEF RowInv, Arranged
  <2>6. CASE out.active # NoTask /\ out.active.row # NoRow
    <3>1. active' = out.active
      BY <2>4, <2>6 DEF Saved, NeedsRow
    <3>2. QED  BY <1>1, <2>2, <2>4, <2>6, <3>1 DEF RowInv, Arranged
  <2>7. CASE out.active # NoTask /\ out.active.row = NoRow
    <3>1. PICK r \in Rows \ LiveRows(active, stack) : active' = [out.active EXCEPT !.row = r]
      BY <2>4, <2>7 DEF Saved, NeedsRow
    <3>2. active'.row = r /\ r # NoRow
      BY <2>4, <2>7, <3>1, SkillAssumption DEF Tasks
    <3>3. \A k \in DOMAIN out.stack : out.stack[k].row # r
      BY <2>4, <3>1, <3>2 DEF Arranged
    <3>4. \A k \in DOMAIN out.stack : <<out.stack[k].row, r>> \notin SameRow
      BY <3>3 DEF SameRow
    <3>5. Arranged(active', stack', Rows \cup {NoRow}, SameRow)
      BY <2>2, <2>4, <3>1, <3>2, <3>4 DEF Arranged
    <3>6. QED  BY <1>1, <3>2, <3>5 DEF RowInv, Arranged
  <2>8. QED  BY <2>5, <2>6, <2>7
<1>3. CASE Reset
  <2>1. active' = NoTask /\ stack' = <<>>
    BY <1>3 DEF Reset
  <2>2. QED  BY <1>1, <2>1, NoneArranged DEF RowInv, Arranged
<1>4. CASE UNCHANGED vars
  BY <1>1, <1>4 DEF vars, RowInv, Arranged
<1>5. QED  BY <1>2, <1>3, <1>4 DEF Next

LEMMA RowInvariant == Spec => []RowInv
BY InitRowInv, NextRowInv, PTL DEF Spec

LEMMA RowsApart ==
    ASSUME RowInv, NEW k \in DOMAIN stack, NEW l \in DOMAIN stack,
           k # l, stack[k].row # NoRow
    PROVE  stack[k].row # stack[l].row
<1>1. k \in Nat /\ l \in Nat /\ stack[k].row \in Rows
  <2>1. stack \in Stacks
    BY DEF RowInv, GateInv, TypeOK
  <2>2. k \in 1..Len(stack) /\ l \in 1..Len(stack) /\ Len(stack) \in Nat /\ stack[k] \in Tasks
    BY <2>1, StackIsSeq, LimitAssumption
  <2>3. QED  BY <2>2 DEF Tasks
<1>2. CASE k < l
  BY <1>1, <1>2 DEF RowInv, Arranged, SameRow
<1>3. CASE l < k
  BY <1>1, <1>3 DEF RowInv, Arranged, SameRow
<1>4. QED  BY <1>1, <1>2, <1>3

\* No row of chat_task belongs to two tasks of the conversation: interrupting,
\* resuming, restating and expiry never leave a task in two places.
THEOREM RowTheorem == Spec => []OneTaskPerRow
<1>1. ASSUME RowInv PROVE OneTaskPerRow
  <2>1. \A i, j \in DOMAIN stack :
          i # j /\ stack[i].row # NoRow => stack[i].row # stack[j].row
    BY <1>1, RowsApart
  <2>2. ASSUME active # NoTask PROVE \A i \in DOMAIN stack : stack[i].row # active.row
    <3>1. active.row \in Rows /\ <<active.row, active.row>> \in SameRow
      BY <1>1, <2>2 DEF RowInv, Arranged, SameRow
    <3>2. QED  BY <1>1, <2>2, <3>1 DEF RowInv, Arranged
  <2>3. QED  BY <2>1, <2>2 DEF OneTaskPerRow
<1>2. QED  BY <1>1, RowInvariant, PTL

\* Last in, first out: when a suspended task becomes current, every task that
\* was above it has left the stack.
THEOREM NewestTheorem == Spec => NewestResumedFirst
<1> DEFINE Overtaken(i, j) ==
        /\ i < j
        /\ active' # NoTask /\ stack[i].row # NoRow
        /\ active'.row = stack[i].row
        /\ stack[j].row # NoRow
<1>1. ASSUME RowInv, Next,
             NEW i \in DOMAIN stack, NEW j \in DOMAIN stack, Overtaken(i, j),
             NEW k \in DOMAIN stack'
      PROVE  stack'[k].row # stack[j].row
  <2> DEFINE live == LiveRows(active, stack) \cup {NoRow}
             Bad == {<<stack[j].row, stack[i].row>>}
  <2>1. GateInv /\ stack \in Stacks
    BY <1>1 DEF RowInv, GateInv, TypeOK
  <2>2. \A m \in DOMAIN stack : m \in Nat /\ stack[m].row \in live
    BY <2>1, LiveRowsLemma, StackIsSeq
  <2>3. i # j /\ stack[i].row \in Rows /\ stack[j].row \in Rows
    BY <1>1, <2>1, <2>2, LiveRowsLemma
  <2>4. CASE SomeTurn
    <3>1. PICK alive \in {TRUE, active = NoTask}, f \in Picks(Len(stack)), msg \in Messages :
             Turn(msg, alive, f)
      BY <2>4 DEF SomeTurn
    <3>2. Arranged(active, stack, live, Bad)
      <4>1. \A m, n \in DOMAIN stack : m < n => <<stack[m].row, stack[n].row>> \notin Bad
        BY <1>1, <2>2, <2>3, RowsApart
      <4>2. active # NoTask =>
              /\ active.row \in live
              /\ \A m \in DOMAIN stack : <<stack[m].row, active.row>> \notin Bad
        <5>1. active # NoTask => active.row # stack[i].row
          <6>1. active # NoTask => <<active.row, active.row>> \in SameRow
            BY <1>1 DEF RowInv, Arranged, SameRow
          <6>2. QED  BY <1>1, <6>1 DEF RowInv, Arranged
        <5>2. QED  BY <2>1, <5>1, LiveRowsLemma
      <4> HIDE DEF live, Bad
      <4>3. QED  BY <2>2, <4>1, <4>2 DEF Arranged
    <3>3. Bad \in SUBSET (Rows \X Rows) /\ NoRow \in live
      BY <2>3
    <3>4. PICK out : /\ out.active \in Tasks \cup {NoTask}
                     /\ Arranged(out.active, out.stack, live, Bad)
                     /\ active' \in Saved(out.active)
                     /\ stack' = out.stack
      <4> HIDE DEF live, Bad
      <4>1. QED  BY <2>1, <3>1, <3>2, <3>3, TurnArranged
    <3>5. out.active # NoTask /\ out.active.row = stack[i].row
      <4>1. CASE NeedsRow(out.active)
        <5>1. PICK r \in Rows \ LiveRows(active, stack) : active' = [out.active EXCEPT !.row = r]
          BY <3>4, <4>1 DEF Saved
        <5>2. active'.row = r
          BY <3>4, <4>1, <5>1 DEF Tasks, NeedsRow
        <5>3. QED  BY <1>1, <2>2, <5>1, <5>2, SkillAssumption
      <4>2. CASE ~NeedsRow(out.active)
        BY <1>1, <3>4, <4>2 DEF Saved
      <4>3. QED  BY <4>1, <4>2
    <3>6. QED  BY <1>1, <3>4, <3>5 DEF Arranged
  <2>5. CASE Reset
    BY <1>1, <2>5 DEF Reset
  <2>6. QED  BY <1>1, <2>4, <2>5 DEF Next
<1>2. RowInv /\ [Next]_vars =>
        [ \A i \in DOMAIN stack, j \in DOMAIN stack :
          /\ i < j
          /\ active' # NoTask /\ stack[i].row # NoRow
          /\ active'.row = stack[i].row
          => \A k \in DOMAIN stack' :
                stack'[k].row # stack[j].row \/ stack[j].row = NoRow ]_vars
  BY <1>1
<1>3. QED  BY <1>2, RowInvariant, PTL DEF Spec, NewestResumedFirst

-----------------------------------------------------------------------------
(***************************************************************************)
(* The closed form of the resumption.  It satisfies the equation of the    *)
(* recursion at every height of the stack (FinishStep, EvaluateStep), so   *)
(* the recursive function is defined; and there is no least height at      *)
(* which the two differ (LeastExists).                                     *)
(***************************************************************************)
LEMMA TopmostAbove ==
    ASSUME NEW n \in Nat, NEW T, T \subseteq 1..n, NEW S, S = T \/ S = T \cup {n + 1}
    PROVE  Topmost(S) = IF n + 1 \in S THEN n + 1 ELSE Topmost(T)
<1>1. CASE n + 1 \notin S
  BY <1>1
<1>2. CASE n + 1 \in S
  <2>1. n + 1 \in Nat /\ \A m \in S : m \in 1..(n + 1)
    <3>1. \A m \in S : m \in 1..n \/ m = n + 1
      BY Zenon
    <3>2. n + 1 \in 1..(n + 1) /\ \A m \in 1..n : m \in 1..(n + 1)
      OBVIOUS
    <3>3. QED  BY <3>1, <3>2
  <2>2. S \subseteq 1..(n + 1)
    BY <2>1
  <2>3. Topmost(S) \in S \cup {0} /\ \A m \in S : m <= Topmost(S)
    BY <2>1, <2>2, TopmostLemma
  <2>4. QED  BY <1>2, <2>1, <2>3
<1>3. QED  BY <1>1, <1>2

\* Where FinishTurn stops on its way down a stack, and what it leaves suspended.
Resumed(s) == Topmost({i \in DOMAIN s : ~GivesUp(s[i])})
Awaited(s) == Topmost({i \in DOMAIN s : Waits(s[i])})
Rest(s) == IF Awaited(s) = 0 THEN <<>> ELSE SubSeq(s, 1, Awaited(s) - 1)

LEMMA FinishTurnIs ==
    ASSUME NEW s, NEW status, NEW finished, NEW end, NEW intent
    PROVE  FinishTurn(status, s, finished, end, intent) =
              IF s = <<>>
              THEN Outcome(end, status, NoTask, <<>>, finished, intent)
              ELSE IF Resumed(s) = 0
              THEN Outcome("ABORTED", status, NoTask, <<>>, finished, intent)
              ELSE IF CompleteRead(s[Resumed(s)])
              THEN Outcome("COLLECTING", status, s[Resumed(s)], Rest(s), finished, intent)
              ELSE Outcome(WaitState(s[Resumed(s)]), status, Asked(s[Resumed(s)]), Rest(s),
                           finished, intent)
BY DEF FinishTurn, Resumed, Awaited, Rest

\* The same places in a stack, and in that stack with a task on top.
IsAbove(high, low, top) ==
    /\ Len(low) \in Nat /\ high # <<>> /\ high[Len(high)] = top
    /\ high[Len(low) + 1] = top
    /\ \A k \in 1..Len(low) : high[k] = low[k]
    /\ Resumed(high) = IF ~GivesUp(top) THEN Len(low) + 1 ELSE Resumed(low)
    /\ Awaited(high) = IF Waits(top) THEN Len(low) + 1 ELSE Awaited(low)
    /\ SubSeq(high, 1, Len(low)) = low
    /\ \A k \in 1..Len(low) : SubSeq(high, 1, k - 1) = SubSeq(low, 1, k - 1)

LEMMA Above ==
    ASSUME NEW low \in Seq(Tasks), NEW top \in Tasks, NEW high, high = Append(low, top)
    PROVE  IsAbove(high, low, top)
<1>1. /\ Len(low) \in Nat /\ Len(high) = Len(low) + 1
      /\ DOMAIN low = 1..Len(low) /\ DOMAIN high = 1..(Len(low) + 1)
      /\ high[Len(low) + 1] = top /\ \A k \in 1..Len(low) : high[k] = low[k]
      /\ high \in Seq(Tasks) /\ high # <<>>
  OBVIOUS
<1>2. Resumed(high) = IF ~GivesUp(top) THEN Len(low) + 1 ELSE Resumed(low)
  <2> DEFINE T == {i \in DOMAIN low : ~GivesUp(low[i])}
             S == {i \in DOMAIN high : ~GivesUp(high[i])}
  <2>1. T \subseteq 1..Len(low) /\ (Len(low) + 1 \in S <=> ~GivesUp(top))
    BY <1>1
  <2>2. S = T \/ S = T \cup {Len(low) + 1}
    BY <1>1
  <2>3. Resumed(high) = Topmost(S) /\ Resumed(low) = Topmost(T)
    BY Zenon DEF Resumed
  <2> HIDE DEF S, T
  <2>4. Topmost(S) = IF Len(low) + 1 \in S THEN Len(low) + 1 ELSE Topmost(T)
    BY <1>1, <2>1, <2>2, TopmostAbove
  <2>5. QED  BY <2>1, <2>3, <2>4
<1>3. Awaited(high) = IF Waits(top) THEN Len(low) + 1 ELSE Awaited(low)
  <2> DEFINE T == {i \in DOMAIN low : Waits(low[i])}
             S == {i \in DOMAIN high : Waits(high[i])}
  <2>1. T \subseteq 1..Len(low) /\ (Len(low) + 1 \in S <=> Waits(top))
    BY <1>1
  <2>2. S = T \/ S = T \cup {Len(low) + 1}
    BY <1>1
  <2>3. Awaited(high) = Topmost(S) /\ Awaited(low) = Topmost(T)
    BY Zenon DEF Awaited
  <2> HIDE DEF S, T
  <2>4. Topmost(S) = IF Len(low) + 1 \in S THEN Len(low) + 1 ELSE Topmost(T)
    BY <1>1, <2>1, <2>2, TopmostAbove
  <2>5. QED  BY <2>1, <2>3, <2>4
<1>4. SubSeq(high, 1, Len(low)) = low
  OBVIOUS
<1>5. ASSUME NEW k \in 1..Len(low) PROVE SubSeq(high, 1, k - 1) = SubSeq(low, 1, k - 1)
  <2>1. \A i \in 1..(k - 1) : i \in 1..Len(low)
    OBVIOUS
  <2>2. QED  BY <1>1, <2>1
<1>6. high[Len(high)] = top
  BY <1>1
<1>7. QED  BY <1>1, <1>2, <1>3, <1>4, <1>5, <1>6, Zenon DEF IsAbove

LEMMA Places ==
    ASSUME NEW low \in Seq(Tasks)
    PROVE  /\ Resumed(low) \in 0..Len(low)
           /\ Awaited(low) \in 0..Len(low)
           /\ low = <<>> => Resumed(low) = 0
           /\ Resumed(low) = 0 => Awaited(low) = 0
<1> DEFINE T == {i \in DOMAIN low : ~GivesUp(low[i])}
           S == {i \in DOMAIN low : Waits(low[i])}
<1>1. T \subseteq 1..Len(low) /\ S \subseteq T /\ S \subseteq 1..Len(low)
      /\ Len(low) \in Nat /\ (low = <<>> => Len(low) = 0)
  BY DEF Waits
<1>2. Resumed(low) = Topmost(T) /\ Awaited(low) = Topmost(S)
  BY Zenon DEF Resumed, Awaited
<1> HIDE DEF S, T
<1>3. Topmost(T) \in T \cup {0} /\ \A m \in T : m <= Topmost(T)
  BY <1>1, TopmostLemma
<1>4. Topmost(S) \in S \cup {0} /\ \A m \in S : m <= Topmost(S)
  BY <1>1, TopmostLemma
<1>5. Topmost(T) \in 0..Len(low) /\ Topmost(S) \in 0..Len(low)
  <2>1. \A m \in (1..Len(low)) \cup {0} : m \in 0..Len(low)
    BY <1>1
  <2>2. Topmost(T) \in (1..Len(low)) \cup {0} /\ Topmost(S) \in (1..Len(low)) \cup {0}
    BY <1>1, <1>3, <1>4, Zenon
  <2>3. QED  BY <2>1, <2>2, Zenon
<1>6. low = <<>> => Topmost(T) = 0
  BY <1>1, <1>5
<1>7. Topmost(T) = 0 => Topmost(S) = 0
  BY <1>1, <1>3, <1>4, <1>5
<1>8. QED  BY <1>2, <1>5, <1>6, <1>7

\* The three ways a task can go exclude each other, and a task with all its slots
\* is one or the other kind of operation.
LEMMA ThreeWays ==
    ASSUME NEW task \in Tasks
    PROVE  /\ GivesUp(task) \/ CompleteRead(task) \/ Waits(task)
           /\ Waits(task) <=> ~GivesUp(task) /\ ~CompleteRead(task)
           /\ CompleteRead(task) => ~GivesUp(task) /\ task.intent \notin WriteIntents
           /\ GivesUp(task) <=> Missing(task) # {} /\ task.asks + 1 > AsksMax
           /\ Missing(task) = {} /\ task.intent \notin WriteIntents => CompleteRead(task)
BY SkillAssumption, LimitAssumption DEF GivesUp, CompleteRead, Waits, Tasks, Intents

\* FinishTurn is what _finish_turn returns, when revived is what it gets of the
\* task on top.
IsRecursion(s, revived) ==
    \A status, finished, end, intent :
        FinishTurn(status, s, finished, end, intent)
            = FinishRec(status, s, finished, end, intent, revived)

\* _finish_turn: what becomes of the task on top, and of those below it.
LEMMA FinishStep ==
    ASSUME NEW low \in Seq(Tasks), NEW top \in Tasks, NEW high, high = Append(low, top)
    PROVE  IsRecursion(high, Evaluate(top, low))
<1> SUFFICES ASSUME NEW status, NEW finished, NEW end, NEW intent,
                    NEW revived, revived = Evaluate(top, low)
             PROVE  FinishTurn(status, high, finished, end, intent)
                        = FinishRec(status, high, finished, end, intent, revived)
  BY DEF IsRecursion
<1> DEFINE done == FinishTurn(status, high, finished, end, intent)
           rec == FinishRec(status, high, finished, end, intent, revived)
<1>1. /\ Len(low) \in Nat /\ high # <<>> /\ high[Len(high)] = top
      /\ high[Len(low) + 1] = top
      /\ \A k \in 1..Len(low) : high[k] = low[k]
      /\ Resumed(high) = IF ~GivesUp(top) THEN Len(low) + 1 ELSE Resumed(low)
      /\ Awaited(high) = IF Waits(top) THEN Len(low) + 1 ELSE Awaited(low)
      /\ SubSeq(high, 1, Len(low)) = low
      /\ \A k \in 1..Len(low) : SubSeq(high, 1, k - 1) = SubSeq(low, 1, k - 1)
  <2>1. IsAbove(high, low, top)
    BY Above
  <2>2. QED  BY <2>1, Zenon DEF IsAbove
<1>2. /\ Resumed(low) \in 0..Len(low) /\ Awaited(low) \in 0..Len(low)
      /\ low = <<>> => Resumed(low) = 0
      /\ Resumed(low) = 0 => Awaited(low) = 0
  BY Places
<1>3. Rest(high) = IF Waits(top) THEN low ELSE Rest(low)
  <2>1. CASE Waits(top)
    <3>1. Awaited(high) # 0 /\ Awaited(high) - 1 = Len(low)
      BY <1>1, <2>1
    <3>2. QED  BY <1>1, <2>1, <3>1, Zenon DEF Rest
  <2>2. CASE ~Waits(top)
    <3>1. Awaited(high) = Awaited(low)
      BY <1>1, <2>2
    <3>2. Awaited(low) # 0 => Awaited(low) \in 1..Len(low)
      BY <1>1, <1>2
    <3>3. QED  BY <1>1, <2>2, <3>1, <3>2, Zenon DEF Rest
  <2>3. QED  BY <2>1, <2>2
<1>4. rec = IF revived.status = "DONE"
            THEN Outcome("COLLECTING", status, top, revived.stack, finished, intent)
            ELSE Outcome(revived.state, status, revived.active, revived.stack, finished, intent)
  BY <1>1, Zenon DEF FinishRec
<1>5. done = IF Resumed(high) = 0
             THEN Outcome("ABORTED", status, NoTask, <<>>, finished, intent)
             ELSE IF CompleteRead(high[Resumed(high)])
             THEN Outcome("COLLECTING", status, high[Resumed(high)], Rest(high), finished, intent)
             ELSE Outcome(WaitState(high[Resumed(high)]), status, Asked(high[Resumed(high)]),
                          Rest(high), finished, intent)
  BY <1>1, FinishTurnIs, Zenon
<1> HIDE DEF done, rec
<1>6. CASE Waits(top)
  <2>1. ~GivesUp(top) /\ ~CompleteRead(top)
    BY <1>6 DEF Waits
  <2>2. done = Outcome(WaitState(top), status, Asked(top), low, finished, intent)
    <3>1. Resumed(high) = Len(low) + 1 /\ Len(low) + 1 # 0
      BY <1>1, <2>1
    <3>2. QED  BY <1>1, <1>3, <1>5, <1>6, <2>1, <3>1, Zenon
  <2>3. /\ revived.state = WaitState(top) /\ revived.active = Asked(top)
        /\ revived.stack = low /\ revived.status # "DONE"
    BY <2>1 DEF Evaluate, Outcome
  <2>4. rec = done
    BY <1>4, <2>2, <2>3, Zenon
  <2>5. QED  BY <2>4 DEF done, rec
<1>7. CASE GivesUp(top)
  <2>1. ~Waits(top)
    BY <1>7 DEF Waits
  <2>2. revived = FinishTurn("FALLBACK", low, NoTask, "ABORTED", top.intent)
    BY <1>7 DEF Evaluate
  <2>3. Resumed(high) = Resumed(low) /\ Rest(high) = Rest(low)
    BY <1>1, <1>3, <1>7, <2>1
  <2>4. CASE Resumed(low) = 0
    <3>1. revived = Outcome("ABORTED", "FALLBACK", NoTask, <<>>, NoTask, top.intent)
      BY <2>2, <2>4, FinishTurnIs, Zenon
    <3>2. rec = Outcome("ABORTED", status, NoTask, <<>>, finished, intent)
      BY <1>4, <3>1 DEF Outcome
    <3>3. rec = done
      BY <1>5, <2>3, <2>4, <3>2
    <3>4. QED  BY <3>3 DEF done, rec
  <2>5. CASE Resumed(low) # 0
    <3> DEFINE task == low[Resumed(low)]
    <3>1. low # <<>> /\ high[Resumed(low)] = task
      BY <1>1, <1>2, <2>5
    <3>2. revived = IF CompleteRead(task)
                    THEN Outcome("COLLECTING", "FALLBACK", task, Rest(low), NoTask, top.intent)
                    ELSE Outcome(WaitState(task), "FALLBACK", Asked(task), Rest(low), NoTask, top.intent)
      BY <2>2, <2>5, <3>1, FinishTurnIs, Zenon
    <3>3. done = IF CompleteRead(task)
                 THEN Outcome("COLLECTING", status, task, Rest(low), finished, intent)
                 ELSE Outcome(WaitState(task), status, Asked(task), Rest(low), finished, intent)
      BY <1>5, <2>3, <2>5, <3>1, Zenon
    <3> HIDE DEF task
    <3>4. rec = done
      <4>1. CASE CompleteRead(task)
        BY <1>4, <3>2, <3>3, <4>1 DEF Outcome
      <4>2. CASE ~CompleteRead(task)
        BY <1>4, <3>2, <3>3, <4>2 DEF Outcome
      <4>3. QED  BY <4>1, <4>2
    <3>5. QED  BY <3>4 DEF done, rec
  <2>6. QED  BY <2>4, <2>5
<1>8. CASE CompleteRead(top)
  <2>1. ~Waits(top) /\ ~GivesUp(top)
    BY <1>8, ThreeWays
  <2>2. revived = FinishTurn("DONE", low, NoTask, "DONE", top.intent)
    BY <1>8, <2>1 DEF Evaluate
  <2>3. done = Outcome("COLLECTING", status, top, Rest(low), finished, intent)
    <3>1. Resumed(high) = Len(low) + 1 /\ Len(low) + 1 # 0
      BY <1>1, <2>1
    <3>2. QED  BY <1>1, <1>3, <1>5, <1>8, <2>1, <3>1, Zenon
  <2>4. revived.status = "DONE" /\ revived.stack = Rest(low)
    <3>1. CASE Resumed(low) = 0
      <4>1. Rest(low) = <<>>
        BY <1>2, <3>1 DEF Rest
      <4>2. \E e : revived = Outcome(e, "DONE", NoTask, <<>>, NoTask, top.intent)
        BY <2>2, <3>1, FinishTurnIs, Zenon
      <4>3. QED  BY <4>1, <4>2 DEF Outcome
    <3>2. CASE Resumed(low) # 0
      <4>1. low # <<>>
        BY <1>2, <3>2
      <4>2. \E e, a : revived = Outcome(e, "DONE", a, Rest(low), NoTask, top.intent)
        BY <2>2, <3>2, <4>1, FinishTurnIs, Zenon
      <4>3. QED  BY <4>2 DEF Outcome
    <3>3. QED  BY <3>1, <3>2
  <2>5. rec = done
    BY <1>4, <2>3, <2>4, Zenon
  <2>6. QED  BY <2>5 DEF done, rec
<1>9. QED  BY <1>6, <1>7, <1>8, ThreeWays

\* _evaluate_task: when it ends the task at once, the stack below is resumed.
LEMMA EvaluateStep ==
    ASSUME NEW task \in Tasks, NEW below \in Seq(Tasks), NEW revived,
           below # <<>> => revived = Evaluate(below[Len(below)], SubSeq(below, 1, Len(below) - 1))
    PROVE  Evaluate(task, below) = EvaluateRec(task, below, revived)
<1>1. \A status, end, intent : FinishTurn(status, below, NoTask, end, intent)
                                  = FinishRec(status, below, NoTask, end, intent, revived)
  <2>1. CASE below = <<>>
    BY <2>1, Zenon DEF FinishTurn, FinishRec
  <2>2. CASE below # <<>>
    <3> DEFINE low == SubSeq(below, 1, Len(below) - 1)
               top == below[Len(below)]
    <3>1. low \in Seq(Tasks) /\ top \in Tasks /\ below = Append(low, top)
      BY <2>2
    <3> HIDE DEF low, top
    <3>2. revived = Evaluate(top, low)
      BY <2>2 DEF low, top
    <3>3. IsRecursion(below, revived)
      BY <3>1, <3>2, FinishStep
    <3>4. QED  BY <3>3, Zenon DEF IsRecursion
  <2>3. QED  BY <2>1, <2>2
<1>2. CASE GivesUp(task)
  <2>1. Missing(task) # {} /\ task.asks + 1 > AsksMax
    BY <1>2, ThreeWays
  <2>2. QED  BY <1>1, <1>2, <2>1, Zenon DEF Evaluate, EvaluateRec
<1>3. CASE CompleteRead(task)
  <2>1. Missing(task) = {} /\ ~GivesUp(task) /\ task.intent \notin WriteIntents
    BY <1>3, ThreeWays DEF CompleteRead
  <2>2. QED  BY <1>1, <1>3, <2>1, Zenon DEF Evaluate, EvaluateRec
<1>4. CASE Waits(task)
  <2>1. ~GivesUp(task) /\ ~CompleteRead(task)
    BY <1>4, ThreeWays
  <2>2. CASE Missing(task) # {}
    <3>1. ~(task.asks + 1 > AsksMax) /\ WaitState(task) = "COLLECTING"
          /\ Asked(task) = [task EXCEPT !.asks = task.asks + 1]
      BY <2>1, <2>2, ThreeWays DEF WaitState, Asked
    <3>2. QED  BY <2>1, <2>2, <3>1, Zenon DEF Evaluate, EvaluateRec
  <2>3. CASE Missing(task) = {}
    <3>1. task.intent \in WriteIntents /\ WaitState(task) = "CONFIRMING" /\ Asked(task) = task
      BY <2>1, <2>3, ThreeWays DEF WaitState, Asked
    <3>2. QED  BY <2>1, <2>3, <3>1, Zenon DEF Evaluate, EvaluateRec
  <2>4. QED  BY <2>2, <2>3
<1>5. QED  BY <1>2, <1>3, <1>4, ThreeWays

\* The recursion has a value at every height: that of the closed form.
LEMMA EvaluatedIs ==
    ASSUME NEW s \in Seq(Tasks), NEW k \in 1..Len(s)
    PROVE  Evaluated(s)[k] = Evaluate(s[k], SubSeq(s, 1, k - 1))
<1> DEFINE Equation(f) ==
              f = [n \in 0..Len(s) |->
                     IF n = 0 THEN Nothing
                     ELSE EvaluateRec(s[n], SubSeq(s, 1, n - 1), f[n - 1])]
           g == [n \in 0..Len(s) |->
                   IF n = 0 THEN Nothing ELSE Evaluate(s[n], SubSeq(s, 1, n - 1))]
<1>1. Evaluated(s) = CHOOSE f : Equation(f)
  BY Zenon DEF Evaluated
<1>2. ASSUME NEW n \in 1..Len(s)
      PROVE  g[n] = EvaluateRec(s[n], SubSeq(s, 1, n - 1), g[n - 1])
  <2> DEFINE below == SubSeq(s, 1, n - 1)
  <2>1. /\ s[n] \in Tasks /\ below \in Seq(Tasks) /\ Len(below) = n - 1
        /\ n - 1 \in 0..Len(s) /\ n \in 0..Len(s) /\ n # 0
    OBVIOUS
  <2>2. below # <<>> => g[n - 1] = Evaluate(below[Len(below)], SubSeq(below, 1, Len(below) - 1))
    <3>1. SUFFICES ASSUME below # <<>> PROVE g[n - 1] = Evaluate(s[n - 1], SubSeq(s, 1, n - 1 - 1))
                /\ below[Len(below)] = s[n - 1]
                /\ SubSeq(below, 1, Len(below) - 1) = SubSeq(s, 1, n - 1 - 1)
      BY <2>1
    <3>2. n - 1 \in 1..Len(s)
      BY <3>1, <2>1
    <3>3. below[Len(below)] = s[n - 1]
      BY <2>1, <3>2
    <3>4. SubSeq(below, 1, Len(below) - 1) = SubSeq(s, 1, n - 1 - 1)
      BY <2>1, <3>2
    <3>5. QED  BY <3>2, <3>3, <3>4
  <2>3. g[n] = Evaluate(s[n], below)
    BY <2>1
  <2> HIDE DEF below, g
  <2>4. Evaluate(s[n], below) = EvaluateRec(s[n], below, g[n - 1])
    BY <2>1, <2>2, EvaluateStep, Zenon
  <2>5. QED  BY <2>3, <2>4 DEF below
<1>3. Equation(g)
  <2>1. g[0] = Nothing
    OBVIOUS
  <2>2. \A n \in 0..Len(s) : n # 0 => n \in 1..Len(s)
    OBVIOUS
  <2>3. \A n \in 0..Len(s) :
           g[n] = IF n = 0 THEN Nothing
                  ELSE EvaluateRec(s[n], SubSeq(s, 1, n - 1), g[n - 1])
    <3> HIDE DEF g
    <3>1. QED  BY <1>2, <2>1, <2>2, Zenon
  <2>4. g = [n \in 0..Len(s) |-> g[n]]
    OBVIOUS
  <2> HIDE DEF g
  <2>5. QED  BY <2>3, <2>4, Zenon
<1>4. ASSUME NEW f, Equation(f) PROVE f = g
  <2> HIDE DEF g
  <2>1. \A n \in 0..Len(s) : f[n] = IF n = 0 THEN Nothing
                             ELSE EvaluateRec(s[n], SubSeq(s, 1, n - 1), f[n - 1])
    BY <1>4, Zenon
  <2>2. \A n \in 0..Len(s) : g[n] = IF n = 0 THEN Nothing
                             ELSE EvaluateRec(s[n], SubSeq(s, 1, n - 1), g[n - 1])
    BY <1>3, Zenon
  <2>3. \A n \in 0..Len(s) : f[n] = g[n]
    <3> DEFINE T == {n \in 0..Len(s) : f[n] # g[n]}
    <3>1. SUFFICES ASSUME T # {} PROVE FALSE
      OBVIOUS
    <3>2. PICK n \in T : \A m \in T : ~(m < n)
      <4>1. T \subseteq Nat
        OBVIOUS
      <4> HIDE DEF T
      <4>2. QED  BY <3>1, <4>1, LeastExists
    <3>3. n # 0
      BY <2>1, <2>2, <3>2
    <3>4. n - 1 \in 0..Len(s) /\ n - 1 \notin T
      BY <3>2, <3>3
    <3>5. QED  BY <2>1, <2>2, <3>2, <3>3, <3>4
  <2>4. f = [n \in 0..Len(s) |-> f[n]] /\ g = [n \in 0..Len(s) |-> g[n]]
    BY <1>3, <1>4, Zenon
  <2>5. QED  BY <2>3, <2>4, Zenon
<1>5. Evaluated(s) = g
  <2> HIDE DEF g, Equation
  <2>1. QED  BY <1>1, <1>3, <1>4, Zenon
<1>6. k \in 0..Len(s) /\ k # 0
  OBVIOUS
<1>7. QED  BY <1>5, <1>6

\* For every stack, limit and skill registry, the closed form of the resumption
\* is the mutual recursion of _evaluate_task and _finish_turn.
THEOREM RecursionTheorem == Spec => []ResumeIsRecursion
<1>1. TypeOK => ResumeIsRecursion
  <2> SUFFICES ASSUME TypeOK, NEW intent \in Intents, NEW slots \in SlotFillings,
                      NEW asks \in 0..AsksMax, NEW task,
                      task = [NewTask(intent, slots) EXCEPT !.asks = asks]
               PROVE  LET taller == Append(stack, task)
                          returned == Evaluated(taller)[Len(taller)]
                      IN  /\ Evaluate(task, stack) = returned
                          /\ FinishTurn("CONFIRMED", taller, task, "DONE", intent)
                                = FinishRec("CONFIRMED", taller, task, "DONE", intent, returned)
                          /\ FinishTurn("ABORTED", taller, NoTask, "ABORTED", "DENY")
                                = FinishRec("ABORTED", taller, NoTask, "ABORTED", "DENY", returned)
    BY DEF ResumeIsRecursion
  <2> DEFINE taller == Append(stack, task)
  <2>1. task \in Tasks /\ stack \in Seq(Tasks)
    BY StackIsSeq DEF TypeOK, NewTask, Tasks
  <2>2. /\ taller \in Seq(Tasks) /\ Len(taller) \in 1..Len(taller)
        /\ taller[Len(taller)] = task /\ SubSeq(taller, 1, Len(taller) - 1) = stack
    BY <2>1
  <2> HIDE DEF taller
  <2>3. Evaluated(taller)[Len(taller)] = Evaluate(task, stack)
    BY <2>2, EvaluatedIs
  <2>4. IsRecursion(taller, Evaluate(task, stack))
    <3>1. taller = Append(stack, task)
      BY DEF taller
    <3>2. QED  BY <2>1, <3>1, FinishStep
  <2>5. /\ Evaluate(task, stack) = Evaluated(taller)[Len(taller)]
        /\ FinishTurn("CONFIRMED", taller, task, "DONE", intent)
              = FinishRec("CONFIRMED", taller, task, "DONE", intent, Evaluated(taller)[Len(taller)])
        /\ FinishTurn("ABORTED", taller, NoTask, "ABORTED", "DENY")
              = FinishRec("ABORTED", taller, NoTask, "ABORTED", "DENY", Evaluated(taller)[Len(taller)])
    BY <2>3, <2>4 DEF IsRecursion
  <2>6. QED  BY <2>5 DEF taller
<1>2. QED  BY <1>1, TypeTheorem, PTL
=============================================================================
