--------------------------- MODULE CustomerProofs ---------------------------
(***************************************************************************)
(* For any number of turns, of sessions, of messages and of offers: the    *)
(* summary of a session stands for the messages up to its cursor, no       *)
(* background task takes the cursor back, a turn that began after a        *)
(* refusal was heard suggests nothing, and the stage of a customer goes    *)
(* back only where a turn overwrites a row it has not read.                *)
(***************************************************************************)
EXTENDS Customer, Integers, TLAPS

(* The memory of a session *)

Records == [covered : Nat, summary : SUBSET Nat, language : Languages \cup {"default"}]

Steps == {"unborn", "queued", "model", "write", "facts", "insert", "ended"}

MemoryTypes ==
    /\ total \in Nat
    /\ meta \in Records
    /\ tasks \in [MemoryTasks -> [pc : Steps, covered : Nat, cut : Nat, base : SUBSET Nat]]
    /\ loads \in [Loaders -> Records \cup {ME!NoCopy}]

\* A summary that stands for the first messages, none of them in the window.
Prefix(covered, summary) ==
    /\ summary = 1 .. covered
    /\ covered > 0 => covered + Window =< total

\* The summary, the copies that may be written back, and what the tasks may
\* still write are all prefixes; their cursors may differ.
MemoryInv ==
    /\ MemoryTypes
    /\ Prefix(meta.covered, meta.summary)
    /\ \A l \in Loaders : loads[l] # ME!NoCopy => Prefix(loads[l].covered, loads[l].summary)
    /\ \A t \in MemoryTasks : tasks[t].pc \in {"model", "write"} =>
          tasks[t].cut > tasks[t].covered /\ Prefix(tasks[t].cut, tasks[t].base)

-----------------------------------------------------------------------------

LEMMA InitMemoryInv == ME!MemoryAssumption /\ ME!Init => MemoryInv
BY DEF ME!MemoryAssumption, ME!Init, MemoryInv, MemoryTypes, Records, Steps, ME!Unborn, ME!NoCopy, Prefix

\* What a task folds: the summary it read and the messages up to its cut.
LEMMA Folding ==
    ASSUME ME!MemoryAssumption, MemoryInv, NEW cut \in Int, cut > meta.covered,
           cut + Window =< total
    PROVE  Prefix(cut, meta.summary \cup ME!Range(meta.covered, cut))
BY DEF ME!MemoryAssumption, MemoryInv, MemoryTypes, Records, Prefix, ME!Range

\* Messages are only added.
LEMMA StaysPrefix ==
    ASSUME ME!MemoryAssumption, MemoryInv, total' \in Nat, total' >= total,
           NEW covered \in Nat, NEW summary, Prefix(covered, summary)
    PROVE  Prefix(covered, summary)'
BY DEF ME!MemoryAssumption, MemoryInv, MemoryTypes, Prefix

\* One step of a task that leaves the messages and the copies alone.
LEMMA TaskSteps ==
    ASSUME ME!MemoryAssumption, MemoryInv, NEW t \in MemoryTasks, NEW b \in BOOLEAN,
           ME!Read(t) \/ ME!Answer(t, b) \/ ME!Write(t) \/ ME!Extract(t, b) \/ ME!Insert(t) \/ ME!Cancel(t)
    PROVE  MemoryInv'
<1>1. CASE ME!Read(t)
  <2> DEFINE messages == ME!Lesser(total, HistoryLimit)
             cut == messages - Window
  <2>1. messages \in Nat /\ messages =< total /\ cut \in Int /\ cut + Window =< total
    BY DEF ME!Lesser, ME!MemoryAssumption, MemoryInv, MemoryTypes
  <2>2. CASE tasks' = [tasks EXCEPT ![t] =
               [pc |-> "model", covered |-> meta.covered, cut |-> cut,
                base |-> meta.summary \cup ME!Range(meta.covered, cut)]]
             /\ cut > meta.covered
    <3>1. Prefix(cut, meta.summary \cup ME!Range(meta.covered, cut))
      BY <2>1, <2>2, Folding
    <3>2. cut \in Nat /\ ME!Range(meta.covered, cut) \in SUBSET Nat
      BY <2>1, <2>2 DEF ME!Range, MemoryInv, MemoryTypes, Records
    <3> HIDE DEF cut
    <3>3. MemoryTypes'
      BY <1>1, <2>2, <3>2 DEF ME!Read, MemoryInv, MemoryTypes, Records, Steps
    <3>4. UNCHANGED <<total, meta, loads>>
          /\ tasks'[t].cut = cut /\ tasks'[t].covered < cut /\ tasks'[t].base = meta.summary \cup ME!Range(meta.covered, cut)
          /\ \A u \in MemoryTasks \ {t} : tasks'[u] = tasks[u]
      BY <1>1, <2>2 DEF ME!Read, MemoryInv, MemoryTypes
    <3>5. \A u \in MemoryTasks : tasks'[u].pc \in {"model", "write"} =>
                tasks'[u].cut > tasks'[u].covered /\ Prefix(tasks'[u].cut, tasks'[u].base)
      BY <3>1, <3>4 DEF MemoryInv
    <3>6. QED
      BY <3>3, <3>4, <3>5 DEF MemoryInv, Prefix
  <2>3. CASE tasks' = [tasks EXCEPT ![t] = [ME!Unborn EXCEPT !.pc = "facts"]]
    BY <1>1, <2>3 DEF ME!Read, MemoryInv, MemoryTypes, Steps, ME!Unborn, Prefix
  <2>4. QED  BY <1>1, <2>2, <2>3 DEF ME!Read, ME!Cut
<1>2. CASE ME!Answer(t, b)
  BY <1>2 DEF ME!Answer, MemoryInv, MemoryTypes, Steps, Prefix
<1>3. CASE ME!Write(t)
  <2>1. MemoryTypes'
    BY <1>3 DEF ME!Write, MemoryInv, MemoryTypes, Records, Steps
  <2>2. Prefix(meta.covered, meta.summary)'
    BY <1>3 DEF ME!Write, MemoryInv, MemoryTypes, Records, Prefix
  <2>3. QED  BY <1>3, <2>1, <2>2 DEF ME!Write, MemoryInv, MemoryTypes, Prefix
<1>4. CASE ME!Extract(t, b)
  BY <1>4 DEF ME!Extract, MemoryInv, MemoryTypes, Steps, ME!Unborn, Prefix
<1>5. CASE ME!Insert(t)
  BY <1>5 DEF ME!Insert, MemoryInv, MemoryTypes, Steps, ME!Unborn, Prefix
<1>6. CASE ME!Cancel(t)
  BY <1>6 DEF ME!Cancel, MemoryInv, MemoryTypes, Steps, ME!Unborn, Prefix
<1>7. QED  BY <1>1, <1>2, <1>3, <1>4, <1>5, <1>6

LEMMA NextMemoryInv == ME!MemoryAssumption /\ MemoryInv /\ [ME!Next]_ME!vars => MemoryInv'
<1> SUFFICES ASSUME ME!MemoryAssumption, MemoryInv, [ME!Next]_ME!vars PROVE MemoryInv'
  OBVIOUS
<1>1. ASSUME NEW l \in Loaders, ME!Load(l) PROVE MemoryInv'
  <2>1. PICK language \in Languages \ {meta.language} :
           loads' = [loads EXCEPT ![l] = [meta EXCEPT !.language = language]]
    BY <1>1 DEF ME!Load
  <2> DEFINE copy == [meta EXCEPT !.language = language]
  <2>2. copy \in Records /\ copy.covered = meta.covered /\ copy.summary = meta.summary
    BY DEF MemoryInv, MemoryTypes, Records
  <2> HIDE DEF copy
  <2>3. loads' = [loads EXCEPT ![l] = copy] /\ UNCHANGED <<total, meta, tasks>>
    BY <1>1, <2>1 DEF ME!Load, copy
  <2>4. MemoryTypes'
    BY <2>2, <2>3 DEF MemoryInv, MemoryTypes
  <2>5. \A k \in Loaders : loads'[k] = loads[k] \/ loads'[k] = copy
    BY <2>3 DEF MemoryInv, MemoryTypes
  <2>6. QED
    BY <2>2, <2>3, <2>4, <2>5 DEF MemoryInv, Prefix
<1>2. ASSUME NEW l \in Loaders, ME!StoreLanguage(l) PROVE MemoryInv'
  <2>1. MemoryTypes'
    BY <1>2 DEF ME!StoreLanguage, MemoryInv, MemoryTypes
  <2>2. QED  BY <1>2, <2>1 DEF ME!StoreLanguage, MemoryInv, MemoryTypes, Prefix
<1>3. ASSUME NEW t \in MemoryTasks, ME!CommitTurn(t) PROVE MemoryInv'
  <2>1. MemoryTypes' /\ total' >= total
    BY <1>3 DEF ME!CommitTurn, MemoryInv, MemoryTypes, Steps
  <2>2. \A u \in MemoryTasks : tasks'[u].pc \in {"model", "write"} => tasks'[u] = tasks[u]
    BY <1>3 DEF ME!CommitTurn, MemoryInv, MemoryTypes
  <2>3. QED
    BY <1>3, <2>1, <2>2, StaysPrefix DEF ME!CommitTurn, MemoryInv, MemoryTypes, Records
<1>4. ASSUME NEW t \in MemoryTasks, NEW b \in BOOLEAN,
             ME!Read(t) \/ ME!Answer(t, b) \/ ME!Write(t) \/ ME!Extract(t, b) \/ ME!Insert(t) \/ ME!Cancel(t)
      PROVE  MemoryInv'
  BY <1>4, TaskSteps
<1>5. CASE UNCHANGED ME!vars
  BY <1>5 DEF ME!vars, MemoryInv, MemoryTypes, Prefix
<1>6. QED  BY <1>1, <1>2, <1>3, <1>4, <1>5 DEF ME!Next

LEMMA MemoryInvInvariant ==
    ASSUME ME!MemoryAssumption PROVE ME!Spec => []MemoryInv
<1>1. ME!Init => MemoryInv
  BY InitMemoryInv
<1>2. MemoryInv /\ [ME!Next]_ME!vars => MemoryInv'
  BY NextMemoryInv
<1>3. QED  BY <1>1, <1>2, PTL DEF ME!Spec

-----------------------------------------------------------------------------

\* The summary stands for the messages up to its cursor, each once, and for none
\* of the recent window, whichever tasks overlap and whatever is written back.
THEOREM SummaryTheorem == ME!Spec => []SummaryIsPrefix
<1>1. MemoryInv => SummaryIsPrefix
  BY CustomerAssumption
  DEF ME!MemoryAssumption, MemoryInv, MemoryTypes, Records, Prefix,
      SummaryIsPrefix, ME!SummaryIsPrefix, ME!Range
<1>2. QED  BY <1>1, CustomerAssumption, MemoryInvInvariant, PTL

\* The cursor goes back only when a turn that changes the language writes back
\* the metadata it had loaded, never by a background task.
THEOREM CursorTheorem == ME!Spec => CursorAdvances
<1> DEFINE Advances == \/ meta'.covered >= meta.covered
                       \/ \E l \in Loaders : loads[l] # ME!NoCopy /\ meta' = loads[l]
<1>1. MemoryInv /\ [ME!Next]_ME!vars => [Advances]_ME!vars
  <2> SUFFICES ASSUME MemoryInv, [ME!Next]_ME!vars PROVE Advances \/ UNCHANGED ME!vars
    OBVIOUS
  <2>1. meta.covered \in Nat
    BY DEF MemoryInv, MemoryTypes, Records
  <2>2. ASSUME NEW l \in Loaders, ME!StoreLanguage(l) PROVE Advances
    BY <2>2 DEF ME!StoreLanguage
  <2>3. ASSUME meta' = meta PROVE Advances
    BY <2>1, <2>3
  <2>4. ASSUME NEW t \in MemoryTasks, NEW b \in BOOLEAN,
               ME!CommitTurn(t) \/ ME!Read(t) \/ ME!Answer(t, b) \/ ME!Extract(t, b) \/ ME!Insert(t) \/ ME!Cancel(t)
        PROVE  meta' = meta
    BY <2>4 DEF ME!CommitTurn, ME!Read, ME!Answer, ME!Extract, ME!Insert, ME!Cancel
  <2>5. ASSUME NEW t \in MemoryTasks, ME!Write(t) PROVE Advances
    BY <2>1, <2>5 DEF ME!Write, MemoryInv, MemoryTypes, Records
  <2>6. CASE UNCHANGED ME!vars
    BY <2>6 DEF ME!vars
  <2>7. ASSUME NEW l \in Loaders, ME!Load(l) PROVE meta' = meta
    BY <2>7 DEF ME!Load
  <2> HIDE DEF Advances
  <2>8. QED
    BY <2>2, <2>3, <2>4, <2>5, <2>6, <2>7 DEF ME!Next
<1>2. QED
  BY <1>1, CustomerAssumption, MemoryInvInvariant, PTL
  DEF ME!Spec, CursorAdvances, ME!CursorAdvances

-----------------------------------------------------------------------------
(* Suggestions *)

AtWelcome == {"welcome", "place"}
Asking == {"window", "consume", "reject", "note", "gate optout"}
Cooling == Asking \cup {"gate cooldown"}
Offering == {"gate session", "choose", "record", "reply"}

Positions == Int
Bars == {"no", "for now", "for ever"}

Running == [pc : AtWelcome \cup Cooling \cup Offering, session : Sessions, says : PR!Sayings,
            step : Positions, barred : Bars]

ProactiveTypes ==
    /\ optout \in BOOLEAN
    /\ cool \in BOOLEAN
    /\ offerTurns \in [CustomerTurns -> Running \cup {PR!Idle}]

\* What was heard has its key.
Heard ==
    /\ PR!Stands("opt out") => optout
    /\ PR!Stands("rejection") => cool

\* What bars a turn holds as long as the turn is barred, and no barred turn has
\* passed the gate that asks for it.
Heeded(turn) ==
    /\ turn.barred = "for ever" => optout /\ turn.pc \in {"welcome"} \cup Asking
    /\ turn.barred = "for now" => cool /\ turn.pc \in Cooling

ProactiveInv ==
    /\ ProactiveTypes
    /\ Heard
    /\ \A t \in CustomerTurns : offerTurns[t] # PR!Idle => Heeded(offerTurns[t])

-----------------------------------------------------------------------------

LEMMA InitProactiveInv == PR!Init => ProactiveInv
BY DEF PR!Init, ProactiveInv, ProactiveTypes, Heard, PR!Stands, PR!Refusals

\* A turn that is moved on, or ended, while what the user refused stays refused.
LEMMA TurnMoves ==
    ASSUME ProactiveInv, NEW t \in CustomerTurns, NEW new \in Running \cup {PR!Idle},
           offerTurns' = [offerTurns EXCEPT ![t] = new],
           new # PR!Idle => Heeded(new),
           optout' \in BOOLEAN, cool' \in BOOLEAN, optout => optout', cool => cool', Heard'
    PROVE  ProactiveInv'
BY DEF ProactiveInv, ProactiveTypes, Heeded

\* A turn at a step is a running one.
LEMMA AtIsRunning ==
    ASSUME ProactiveInv, NEW t \in CustomerTurns, offerTurns[t].pc # "idle"
    PROVE  offerTurns[t] \in Running /\ offerTurns[t] # PR!Idle /\ Heeded(offerTurns[t])
BY DEF ProactiveInv, ProactiveTypes, PR!Idle

LEMMA GoesOn ==
    ASSUME ProactiveInv, NEW t \in CustomerTurns, offerTurns[t].pc # "idle",
           NEW pc \in AtWelcome \cup Cooling \cup Offering, NEW says \in PR!Sayings, NEW step \in Positions,
           offerTurns' = [offerTurns EXCEPT ![t].pc = pc, ![t].says = says, ![t].step = step],
           offerTurns[t].barred = "for ever" => pc \in {"welcome"} \cup Asking,
           offerTurns[t].barred = "for now" => pc \in Cooling,
           optout' \in BOOLEAN, cool' \in BOOLEAN, optout => optout', cool => cool', Heard'
    PROVE  ProactiveInv'
<1> DEFINE new == [offerTurns[t] EXCEPT !.pc = pc, !.says = says, !.step = step]
<1>1. new \in Running /\ new.barred = offerTurns[t].barred /\ new.pc = pc
  BY AtIsRunning DEF Running
<1>2. Heeded(new)
  BY <1>1, AtIsRunning DEF Heeded
<1>3. offerTurns' = [offerTurns EXCEPT ![t] = new]
  BY AtIsRunning DEF Running, ProactiveInv, ProactiveTypes
<1> HIDE DEF new
<1>4. QED  BY <1>1, <1>2, <1>3, TurnMoves

LEMMA Ends ==
    ASSUME ProactiveInv, NEW t \in CustomerTurns, PR!End(t),
           optout' \in BOOLEAN, cool' \in BOOLEAN, optout => optout', cool => cool', Heard'
    PROVE  ProactiveInv'
BY TurnMoves DEF PR!End

\* A turn or a session begins; what bars it is noted.
LEMMA Begins ==
    ASSUME ProactiveInv, NEW t \in CustomerTurns, NEW s \in Sessions, NEW says \in PR!Sayings,
           PR!Begin(t, s, says) \/ PR!Create(t, s)
    PROVE  ProactiveInv'
<1>1. PICK pc \in {"window", "reject", "welcome"}, words \in PR!Sayings :
         offerTurns' = [offerTurns EXCEPT ![t] = PR!NewTurn(pc, s, words)]
  BY DEF PR!Begin, PR!Create, PR!Sayings, PR!Refusals
<1>2. PR!NewTurn(pc, s, words) \in Running
  <2> DEFINE barred == IF PR!Stands("opt out") THEN "for ever"
                       ELSE IF PR!Stands("rejection") /\ pc # "welcome" THEN "for now" ELSE "no"
  <2>1. barred \in Bars /\ pc \in AtWelcome \cup Cooling \cup Offering
    BY DEF AtWelcome, Asking, Cooling, Bars
  <2>2. 1 \in Positions
    BY DEF Positions
  <2>3. PR!NewTurn(pc, s, words) = [pc |-> pc, session |-> s, says |-> words, step |-> 1, barred |-> barred]
    BY DEF PR!NewTurn
  <2> HIDE DEF barred
  <2>4. QED  BY <2>1, <2>2, <2>3 DEF Running
<1>3. Heeded(PR!NewTurn(pc, s, words))
  BY DEF PR!NewTurn, Heeded, Heard, Asking, Cooling, ProactiveInv, ProactiveTypes
<1>4. UNCHANGED <<optout, cool>> /\ Heard'
  BY DEF PR!Begin, PR!Create, PR!keys, PR!words, ProactiveInv, Heard, PR!Stands
<1>5. QED  BY <1>1, <1>2, <1>3, <1>4, TurnMoves DEF ProactiveInv, ProactiveTypes

\* A step of a turn that leaves the refusals alone.
LEMMA Quiet ==
    ASSUME ProactiveInv, NEW t \in CustomerTurns, NEW b \in BOOLEAN, UNCHANGED <<optout, cool, said, lost>>,
           \/ PR!ReadWindow(t) \/ PR!Consume(t) \/ PR!Choose(t, b) \/ PR!Record(t) \/ PR!Reply(t)
           \/ PR!AskOptout(t) \/ PR!Welcome(t, b)
    PROVE  ProactiveInv'
<1> offerTurns[t].pc # "idle" /\ offerTurns[t] \in Running /\ Heeded(offerTurns[t])
  BY AtIsRunning DEF PR!ReadWindow, PR!Consume, PR!Choose, PR!Record, PR!Reply, PR!AskOptout, PR!Welcome, PR!At
<1> Heard'
  BY DEF ProactiveInv, Heard, PR!Stands
<1> optout \in BOOLEAN /\ cool \in BOOLEAN /\ offerTurns[t].says \in PR!Sayings /\ offerTurns[t].step \in Positions
  BY DEF ProactiveInv, ProactiveTypes, Running
<1>1. ASSUME NEW pc \in AtWelcome \cup Cooling \cup Offering, PR!Goto(t, pc),
             offerTurns[t].barred = "for ever" => pc \in {"welcome"} \cup Asking,
             offerTurns[t].barred = "for now" => pc \in Cooling
      PROVE  ProactiveInv'
  <2>1. offerTurns' = [offerTurns EXCEPT ![t].pc = pc, ![t].says = offerTurns[t].says, ![t].step = offerTurns[t].step]
    BY <1>1 DEF PR!Goto, ProactiveInv, ProactiveTypes, Running, PR!Idle
  <2>2. QED  BY <1>1, <2>1, GoesOn
<1>2. CASE PR!ReadWindow(t) \/ PR!Consume(t)
  <2>1. (\E pc \in Asking : PR!Goto(t, pc)) /\ offerTurns[t].pc \in Asking
    BY <1>2 DEF PR!ReadWindow, PR!Consume, PR!At, Asking
  <2>2. QED  BY <1>1, <2>1 DEF Cooling, Asking
<1>3. CASE PR!Choose(t, b) \/ PR!Record(t)
  <2>1. offerTurns[t].barred # "for ever" /\ offerTurns[t].barred # "for now"
    BY <1>3 DEF PR!Choose, PR!Record, PR!At, Heeded, Asking, Cooling
  <2>2. CASE PR!End(t)
    BY <2>2, Ends
  <2>3. CASE PR!Goto(t, "record")
    BY <1>1, <2>1, <2>3 DEF Offering
  <2>4. CASE offerTurns' = [offerTurns EXCEPT ![t].step = @ + 1]
    <3> DEFINE step == offerTurns[t].step + 1
               pc == offerTurns[t].pc
    <3>1. offerTurns' = [offerTurns EXCEPT ![t].pc = pc, ![t].says = offerTurns[t].says, ![t].step = step]
      BY <2>4 DEF ProactiveInv, ProactiveTypes, Running, PR!Idle
    <3>2. pc \in AtWelcome \cup Cooling \cup Offering /\ step \in Positions
      BY DEF Running, Positions
    <3> HIDE DEF step, pc
    <3>3. QED  BY <2>1, <3>1, <3>2, GoesOn
  <2>5. CASE offerTurns' = [offerTurns EXCEPT ![t].pc = "reply", ![t].step = 1]
    <3>1. offerTurns' = [offerTurns EXCEPT ![t].pc = "reply", ![t].says = offerTurns[t].says, ![t].step = 1]
      BY <2>5 DEF ProactiveInv, ProactiveTypes, Running, PR!Idle
    <3>2. "reply" \in AtWelcome \cup Cooling \cup Offering /\ 1 \in Positions
      BY DEF Offering, Positions
    <3>3. QED  BY <2>1, <3>1, <3>2, GoesOn
  <2>6. QED  BY <1>3, <2>2, <2>3, <2>4, <2>5 DEF PR!Choose, PR!Record
<1>4. CASE PR!Reply(t)
  BY <1>4, Ends DEF PR!Reply
<1>5. CASE PR!AskOptout(t)
  <2>1. PR!End(t) \/ (PR!Goto(t, "place") /\ offerTurns[t].barred # "for ever" /\ offerTurns[t].barred # "for now")
    BY <1>5 DEF PR!AskOptout, PR!At, Heeded, Cooling, Asking
  <2>2. QED  BY <2>1, <1>1, Ends DEF AtWelcome
<1>6. CASE PR!Welcome(t, b)
  <2>1. PR!End(t) \/ (PR!Goto(t, "reply") /\ offerTurns[t].barred # "for ever" /\ offerTurns[t].barred # "for now")
    BY <1>6 DEF PR!Welcome, PR!At, Heeded, Cooling, Asking
  <2>2. QED  BY <2>1, <1>1, Ends DEF Offering
<1>7. QED  BY <1>2, <1>3, <1>4, <1>5, <1>6

\* What is not heard changes nothing.
LEMMA UnheardKeeps ==
    ASSUME NEW r, Heard, PR!Unheard(r), UNCHANGED <<optout, cool>>
    PROVE  Heard'
BY DEF PR!Unheard, Heard, PR!Stands

\* The step that reads the answer of the user.
LEMMA Rejects ==
    ASSUME ProactiveInv, NEW t \in CustomerTurns, NEW b \in BOOLEAN, PR!Reject(t, b)
    PROVE  ProactiveInv'
<1>1. offerTurns[t].pc = "reject" /\ offerTurns[t] \in Running /\ Heeded(offerTurns[t])
  BY AtIsRunning DEF PR!Reject, PR!At
<1>2. UNCHANGED <<optout, cool>> /\ optout \in BOOLEAN /\ cool \in BOOLEAN
  BY DEF PR!Reject, PR!keys, ProactiveInv, ProactiveTypes
<1>3. Heard'
  <2>1. Heard /\ (PR!Unheard(offerTurns[t].says) \/ UNCHANGED <<said, lost>>)
    BY DEF PR!Reject, PR!words, ProactiveInv
  <2>2. QED  BY <1>2, <2>1, UnheardKeeps DEF Heard, PR!Stands
<1>4. offerTurns[t].says \in PR!Sayings /\ offerTurns[t].step \in Positions
  BY <1>1 DEF Running
<1>5. CASE PR!End(t)
  BY <1>2, <1>3, <1>5, Ends
<1>6. CASE PR!Goto(t, "note")
  <2>1. offerTurns' = [offerTurns EXCEPT ![t].pc = "note", ![t].says = offerTurns[t].says,
                               ![t].step = offerTurns[t].step]
    BY <1>1, <1>6 DEF PR!Goto, ProactiveInv, ProactiveTypes, Running, PR!Idle
  <2>2. QED  BY <1>1, <1>2, <1>3, <1>4, <2>1, GoesOn DEF Asking, Cooling
<1>7. CASE offerTurns' = [offerTurns EXCEPT ![t].pc = "gate optout", ![t].says = "other"]
  <2>1. offerTurns' = [offerTurns EXCEPT ![t].pc = "gate optout", ![t].says = "other",
                               ![t].step = offerTurns[t].step]
    BY <1>1, <1>7 DEF ProactiveInv, ProactiveTypes, Running, PR!Idle
  <2>2. QED  BY <1>1, <1>2, <1>3, <1>4, <2>1, GoesOn DEF PR!Sayings, Asking, Cooling
<1>8. QED  BY <1>5, <1>6, <1>7 DEF PR!Reject

\* The step that notes a refusal, or loses it.
LEMMA Notes ==
    ASSUME ProactiveInv, NEW t \in CustomerTurns, PR!Note(t)
    PROVE  ProactiveInv'
<1>1. Heard /\ optout \in BOOLEAN /\ cool \in BOOLEAN
  BY DEF ProactiveInv, ProactiveTypes
<1>2. CASE PR!Unheard(offerTurns[t].says) /\ UNCHANGED <<optout, cool>>
  BY <1>1, <1>2, UnheardKeeps, Ends DEF PR!Note
<1>3. CASE /\ optout' = (optout \/ offerTurns[t].says = "opt out")
           /\ cool' = (cool \/ offerTurns[t].says = "rejection")
           /\ said' = said \cup {offerTurns[t].says}
           /\ lost' = lost \ {offerTurns[t].says}
  <2>1. Heard'
    BY <1>1, <1>3 DEF Heard, PR!Stands
  <2>2. optout' \in BOOLEAN /\ cool' \in BOOLEAN /\ (optout => optout') /\ (cool => cool')
    BY <1>1, <1>3
  <2>3. QED  BY <2>1, <2>2, Ends DEF PR!Note
<1>4. QED  BY <1>2, <1>3 DEF PR!Note

\* A gate lets a turn on only when what it asks for does not bar the turn.
LEMMA Gates ==
    ASSUME ProactiveInv, NEW t \in CustomerTurns,
           \/ PR!Gate(t, "gate optout", ~optout, "gate cooldown")
           \/ PR!Gate(t, "gate cooldown", ~cool, "gate session")
           \/ \E passes \in BOOLEAN : PR!Gate(t, "gate session", passes, "choose")
    PROVE  ProactiveInv'
<1>1. offerTurns[t].pc # "idle" /\ offerTurns[t] \in Running /\ Heeded(offerTurns[t])
  BY AtIsRunning DEF PR!Gate, PR!At
<1>2. UNCHANGED <<optout, cool>> /\ optout \in BOOLEAN /\ cool \in BOOLEAN /\ Heard'
  BY DEF PR!Gate, PR!keys, PR!words, ProactiveInv, ProactiveTypes, Heard, PR!Stands
<1>3. CASE PR!End(t)
  BY <1>2, <1>3, Ends
<1>4. ASSUME NEW pc \in {"gate cooldown", "gate session", "choose"}, PR!Goto(t, pc),
             offerTurns[t].barred # "for ever", offerTurns[t].barred = "for now" => pc = "gate cooldown"
      PROVE  ProactiveInv'
  <2>1. offerTurns' = [offerTurns EXCEPT ![t].pc = pc, ![t].says = offerTurns[t].says, ![t].step = offerTurns[t].step]
    BY <1>1, <1>4 DEF PR!Goto, ProactiveInv, ProactiveTypes, Running, PR!Idle
  <2>2. offerTurns[t].says \in PR!Sayings /\ offerTurns[t].step \in Positions
    BY <1>1 DEF Running
  <2>3. QED  BY <1>1, <1>2, <1>4, <2>1, <2>2, GoesOn DEF Cooling, Offering
<1>5. \/ PR!End(t)
      \/ PR!Goto(t, "gate cooldown") /\ offerTurns[t].barred # "for ever"
      \/ /\ PR!Goto(t, "gate session") \/ PR!Goto(t, "choose")
         /\ offerTurns[t].barred # "for ever" /\ offerTurns[t].barred # "for now"
  BY <1>1 DEF PR!Gate, PR!At, Heeded, Cooling, Asking
<1>6. QED  BY <1>3, <1>4, <1>5

\* What was refused for now may be forgotten, by the turns as well.
LEMMA Expires ==
    ASSUME ProactiveInv, PR!CoolExpires PROVE ProactiveInv'
<1>1. UNCHANGED optout /\ cool' = FALSE /\ Heard'
  BY DEF PR!CoolExpires, ProactiveInv, Heard, PR!Stands
<1>2. ASSUME NEW t \in CustomerTurns
      PROVE  offerTurns'[t] \in Running \cup {PR!Idle} /\ (offerTurns'[t] # PR!Idle => Heeded(offerTurns[t])')
  <2>1. CASE offerTurns[t] = PR!Idle
    BY <2>1 DEF PR!CoolExpires
  <2>2. CASE offerTurns[t] # PR!Idle /\ offerTurns[t].barred = "for now"
    <3>1. offerTurns'[t] = [offerTurns[t] EXCEPT !.barred = "no"] /\ offerTurns[t] \in Running
      BY <2>2 DEF PR!CoolExpires, ProactiveInv, ProactiveTypes
    <3>2. "no" \in Bars
      BY DEF Bars
    <3>3. offerTurns'[t] \in Running /\ offerTurns'[t].barred = "no"
      BY <3>1, <3>2 DEF Running
    <3>4. QED  BY <3>3 DEF Heeded
  <2>3. CASE offerTurns[t] # PR!Idle /\ offerTurns[t].barred # "for now"
    <3>1. offerTurns'[t] = offerTurns[t]
      BY <2>3 DEF PR!CoolExpires
    <3>2. offerTurns[t] \in Running \cup {PR!Idle} /\ Heeded(offerTurns[t])
      BY <2>3 DEF ProactiveInv, ProactiveTypes
    <3>3. QED  BY <1>1, <2>3, <3>1, <3>2 DEF Heeded
  <2>4. QED  BY <2>1, <2>2, <2>3
<1>3. offerTurns' \in [CustomerTurns -> Running \cup {PR!Idle}]
  BY <1>2 DEF PR!CoolExpires
<1>4. QED  BY <1>1, <1>2, <1>3 DEF ProactiveInv, ProactiveTypes

LEMMA NextProactiveInv == ProactiveInv /\ [PR!Next]_PR!vars => ProactiveInv'
<1> SUFFICES ASSUME ProactiveInv, [PR!Next]_PR!vars PROVE ProactiveInv'
  OBVIOUS
<1>1. ASSUME NEW t \in CustomerTurns, NEW b \in BOOLEAN,
             \/ PR!ReadWindow(t) \/ PR!Consume(t) \/ PR!Choose(t, b) \/ PR!Record(t) \/ PR!Reply(t)
             \/ PR!AskOptout(t) \/ PR!Welcome(t, b)
      PROVE  ProactiveInv'
  <2>1. UNCHANGED <<optout, cool, said, lost>>
    BY <1>1 DEF PR!ReadWindow, PR!Consume, PR!Choose, PR!Record, PR!Reply, PR!AskOptout, PR!Welcome,
       PR!keys, PR!words
  <2>2. QED  BY <1>1, <2>1, Quiet
<1>2. ASSUME NEW t \in CustomerTurns, PR!Gate(t, "gate session", offerTurns[t] # PR!Idle
                                  /\ shown[offerTurns[t].session] < SessionMax, "choose")
      PROVE  ProactiveInv'
  <2>1. \E passes \in BOOLEAN : PR!Gate(t, "gate session", passes, "choose")
    BY <1>2
  <2>2. QED  BY <2>1, Gates
<1>3. ASSUME UNCHANGED <<optout, cool, offerTurns, said, lost>> PROVE ProactiveInv'
  BY <1>3 DEF ProactiveInv, ProactiveTypes, Heeded, Heard, PR!Stands
<1>4. CASE PR!CountsExpire \/ PR!Outage \/ (\E s \in Sessions : PR!WindowExpires(s)) \/ UNCHANGED PR!vars
  BY <1>3, <1>4 DEF PR!CountsExpire, PR!Outage, PR!WindowExpires, PR!vars, PR!keys, PR!words
<1>5. ASSUME NEW t \in CustomerTurns, NEW s \in Sessions, NEW says \in PR!Sayings,
             PR!Begin(t, s, says) \/ PR!Create(t, s)
      PROVE  ProactiveInv'
  BY <1>5, Begins
<1>6. ASSUME NEW t \in CustomerTurns, NEW s \in Sessions, PR!Create(t, s) PROVE ProactiveInv'
  <2>1. "other" \in PR!Sayings
    BY DEF PR!Sayings
  <2>2. QED  BY <1>5, <1>6, <2>1
<1>7. ASSUME NEW t \in CustomerTurns, PR!ReadWindow(t) \/ PR!Consume(t) \/ PR!Record(t) \/ PR!Reply(t) \/ PR!AskOptout(t)
      PROVE  ProactiveInv'
  <2>1. TRUE \in BOOLEAN
    OBVIOUS
  <2>2. QED  BY <1>1, <1>7, <2>1
<1>8. ASSUME NEW t \in CustomerTurns, NEW b \in BOOLEAN, PR!Reject(t, b) PROVE ProactiveInv'
  BY <1>8, Rejects
<1>9. ASSUME NEW t \in CustomerTurns, PR!Note(t) PROVE ProactiveInv'
  BY <1>9, Notes
<1>10. ASSUME NEW t \in CustomerTurns, \/ PR!Gate(t, "gate optout", ~optout, "gate cooldown")
                              \/ PR!Gate(t, "gate cooldown", ~cool, "gate session")
      PROVE  ProactiveInv'
  BY <1>10, Gates
<1>11. QED
  BY <1>1, <1>2, <1>4, <1>5, <1>6, <1>7, <1>8, <1>9, <1>10, Expires DEF PR!Next

\* A turn that began after an opt-out was heard, or within the cooldown of a
\* rejection that was heard, never replies with a suggestion, though Redis fails
\* between any two of its steps.
THEOREM RefusalTheorem == PR!Spec => []RefusalHeeded
<1>1. PR!Init => ProactiveInv
  BY InitProactiveInv
<1>2. ProactiveInv /\ [PR!Next]_PR!vars => ProactiveInv'
  BY NextProactiveInv
<1>3. ProactiveInv => RefusalHeeded
  <2> SUFFICES ASSUME ProactiveInv, NEW t \in CustomerTurns, offerTurns[t].pc = "reply"
               PROVE  offerTurns[t].barred = "no"
    BY DEF RefusalHeeded, PR!RefusalHeeded
  <2>1. offerTurns[t].barred \in Bars /\ Heeded(offerTurns[t])
    BY AtIsRunning DEF Running
  <2>2. QED  BY <2>1 DEF Heeded, Bars, Asking, Cooling
<1>4. QED  BY <1>1, <1>2, <1>3, PTL DEF PR!Spec

-----------------------------------------------------------------------------
(* The journey *)

JourneyRows == [stage : Nat, risk : BOOLEAN]

Writes == [stage : Nat, moves : BOOLEAN, risk : BOOLEAN, strong : BOOLEAN]

\* What a turn writes moves on from the row it has read.
MovesOn(read, write) ==
    /\ read \in JourneyRows \cup {Absent} /\ write \in Writes
    /\ write.moves => \/ write.strong /\ write.stage > JO!Stage(read)
                      \/ write.stage = JO!Stage(read) + 1

JourneyInv ==
    /\ row \in JourneyRows \cup {Absent}
    /\ journeys \in [CustomerTurns -> [pc : {"idle", "read", "written"},
                                       read : JourneyRows \cup {Absent},
                                       write : Writes \cup {Absent}]]
    /\ \A t \in CustomerTurns :
          journeys[t].pc # "idle" => MovesOn(journeys[t].read, journeys[t].write)

LEMMA StageType ==
    ASSUME JO!JourneyAssumption, NEW r \in JourneyRows \cup {Absent}
    PROVE  JO!Stage(r) \in Nat
BY DEF JO!Stage, JourneyRows

\* The weak evidence of a turn moves one rank, the strong one to its goal.
LEMMA DerivedLemma ==
    ASSUME NEW current \in Nat, NEW signal \in [goal : Nat, strong : BOOLEAN, risk : BOOLEAN]
    PROVE  /\ JO!Derived(current, signal) \in Nat
           /\ JO!Derived(current, signal) # current =>
                 \/ signal.strong /\ JO!Derived(current, signal) > current
                 \/ JO!Derived(current, signal) = current + 1
<1>1. signal.goal \in Nat
  OBVIOUS
<1>2. CASE signal.goal <= current
  BY <1>2 DEF JO!Derived
<1>3. CASE ~(signal.goal <= current) /\ signal.strong
  BY <1>1, <1>3 DEF JO!Derived
<1>4. CASE ~(signal.goal <= current) /\ ~signal.strong
  BY <1>1, <1>4 DEF JO!Derived
<1>5. QED  BY <1>2, <1>3, <1>4

LEMMA InitJourneyInv == JO!Init => JourneyInv
BY DEF JO!Init, JourneyInv, JO!Idle

LEMMA ReadJourney ==
    ASSUME JO!JourneyAssumption, JourneyInv, NEW t \in CustomerTurns, NEW signal \in Signals,
           JO!Read(t, signal)
    PROVE  JourneyInv'
<1>1. PICK stage : stage = JO!Derived(JO!Stage(row), signal)
  OBVIOUS
<1>2. PICK moves \in BOOLEAN : moves = (stage # JO!Stage(row))
  OBVIOUS
<1>3. PICK w : w = [stage |-> stage, moves |-> moves, risk |-> signal.risk, strong |-> signal.strong]
  OBVIOUS
<1>4. JO!Stage(row) \in Nat
  BY StageType DEF JourneyInv
<1>5. signal \in [goal : Nat, strong : BOOLEAN, risk : BOOLEAN]
  BY DEF JO!JourneyAssumption
<1>6. /\ stage \in Nat
      /\ stage # JO!Stage(row) => \/ signal.strong /\ stage > JO!Stage(row)
                                  \/ stage = JO!Stage(row) + 1
  BY <1>1, <1>4, <1>5, DerivedLemma
<1>7. w \in Writes /\ w.moves = moves /\ w.strong = signal.strong /\ w.stage = stage
  BY <1>3, <1>5, <1>6 DEF Writes
<1>8. MovesOn(row, w)
  BY <1>2, <1>6, <1>7 DEF MovesOn, JourneyInv
<1>9. row' = row /\ journeys' = [journeys EXCEPT ![t] = [pc |-> "read", read |-> row, write |-> w]]
  BY <1>1, <1>2, <1>3 DEF JO!Read
<1>10. QED  BY <1>7, <1>8, <1>9 DEF JourneyInv, MovesOn, JO!Stage

LEMMA CommitRow ==
    ASSUME JO!JourneyAssumption, JourneyInv, NEW t \in CustomerTurns, JO!Commit(t)
    PROVE  /\ row' \in JourneyRows
           /\ row'.stage = IF journeys[t].write.moves THEN journeys[t].write.stage
                           ELSE JO!Stage(row)
<1>1. JO!Stage(row) \in Nat
  BY StageType DEF JourneyInv
<1>2. journeys[t].write \in Writes
  BY DEF JO!Commit, JourneyInv, MovesOn
<1>3. (journeys[t].write.risk \/ (row # Absent /\ row.risk)) \in BOOLEAN
  OBVIOUS
<1>4. QED  BY <1>1, <1>2, <1>3 DEF JO!Commit, Writes, JourneyRows

LEMMA NextJourneyInv ==
    ASSUME JO!JourneyAssumption, JourneyInv, [JO!Next]_JO!vars
    PROVE  JourneyInv'
<1>1. CASE UNCHANGED JO!vars
  BY <1>1 DEF JO!vars, JourneyInv, MovesOn, JO!Stage
<1>2. ASSUME NEW t \in CustomerTurns, JO!Write(t) PROVE JourneyInv'
  BY <1>2 DEF JO!Write, JourneyInv, JO!Idle, MovesOn, JO!Stage
<1>3. ASSUME NEW t \in CustomerTurns, JO!Commit(t) PROVE JourneyInv'
  <2>1. row' \in JourneyRows
    BY <1>3, CommitRow
  <2>2. journeys' = [journeys EXCEPT ![t] = JO!Idle]
    BY <1>3 DEF JO!Commit
  <2>3. QED  BY <2>1, <2>2 DEF JourneyInv, JO!Idle, MovesOn, JO!Stage
<1>4. ASSUME NEW t \in CustomerTurns, JO!Rollback(t) PROVE JourneyInv'
  BY <1>4 DEF JO!Rollback, JourneyInv, JO!Idle, MovesOn, JO!Stage
<1>5. QED  BY <1>1, <1>2, <1>3, <1>4, ReadJourney DEF JO!Next

\* The stage of a customer never goes back, and weak evidence moves it by one rank,
\* except where a turn writes what it made of a row another turn has changed since
\* (update_from_turn reads and writes without a lock between the two).
THEOREM StageTheorem == JO!Spec => StageMovesOn
<1>1. ASSUME JourneyInv, JO!JourneyAssumption, JO!Next
      PROVE  \/ JO!Stage(row') \in {JO!Stage(row), JO!Stage(row) + 1}
             \/ \E t \in CustomerTurns :
                   /\ journeys[t].pc = "written" /\ journeys'[t] = JO!Idle
                   /\ \/ journeys[t].read # row
                      \/ journeys[t].write.strong /\ JO!Stage(row') > JO!Stage(row)
  <2>1. CASE row' = row
    BY <2>1
  <2>2. ASSUME NEW t \in CustomerTurns, JO!Commit(t), journeys[t].read = row
        PROVE  \/ JO!Stage(row') \in {JO!Stage(row), JO!Stage(row) + 1}
               \/ journeys[t].write.strong /\ JO!Stage(row') > JO!Stage(row)
    <3>1. MovesOn(row, journeys[t].write)
      BY <1>1, <2>2 DEF JO!Commit, JourneyInv
    <3>2. /\ row' \in JourneyRows
          /\ row'.stage = IF journeys[t].write.moves THEN journeys[t].write.stage
                          ELSE JO!Stage(row)
      BY <1>1, <2>2, CommitRow
    <3>3. row' # Absent
      BY <1>1, <3>2 DEF JO!JourneyAssumption, JourneyRows
    <3>4. JO!Stage(row') = IF journeys[t].write.moves THEN journeys[t].write.stage
                           ELSE JO!Stage(row)
      BY <3>2, <3>3 DEF JO!Stage
    <3>5. QED  BY <3>1, <3>4 DEF MovesOn
  <2>3. ASSUME NEW t \in CustomerTurns, JO!Commit(t)
        PROVE  journeys[t].pc = "written" /\ journeys'[t] = JO!Idle
    BY <1>1, <2>3 DEF JO!Commit, JourneyInv
  <2>4. row' = row \/ \E t \in CustomerTurns : JO!Commit(t)
    BY <1>1 DEF JO!Next, JO!Read, JO!Write, JO!Rollback
  <2>5. QED  BY <2>1, <2>2, <2>3, <2>4
<1>2. JO!Init => JourneyInv
  BY InitJourneyInv
<1>3. JourneyInv /\ [JO!Next]_JO!vars => JourneyInv'
  BY NextJourneyInv, CustomerAssumption
<1>4. JourneyInv /\ [JO!Next]_JO!vars =>
         [\/ JO!Stage(row') \in {JO!Stage(row), JO!Stage(row) + 1}
          \/ \E t \in CustomerTurns :
                /\ journeys[t].pc = "written" /\ journeys'[t] = JO!Idle
                /\ \/ journeys[t].read # row
                   \/ journeys[t].write.strong /\ JO!Stage(row') > JO!Stage(row)]_JO!vars
  BY <1>1, CustomerAssumption
<1>5. QED  BY <1>2, <1>3, <1>4, PTL DEF JO!Spec, StageMovesOn, JO!StageMovesOn
=============================================================================
