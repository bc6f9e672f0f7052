--------------------------- MODULE ChatTurnProofs ---------------------------
(***************************************************************************)
(* For any number of concurrent turns, of tasks and of rollbacks: the      *)
(* execution right of a chat_task row is granted a second time only after  *)
(* something took the row out of EXECUTING without recording an outcome,   *)
(* and the tool runs at most once for each right that was granted. For one *)
(* turn at a time without failures: an operation is executed at most once, *)
(* and the rows follow the dialog. For overlapping turns, whatever the ORM *)
(* retains: a commit leaves the sequential conversation only by saving a   *)
(* turn that another commit has passed; and what a lost update does not    *)
(* break, complete operations, a row for one task only and the order in    *)
(* which suspended tasks are resumed.                                      *)
(***************************************************************************)
EXTENDS ChatTurnHistory, DialogManagerProofs, FiniteSetTheorems, TLAPS

\* The part of the type invariant the argument needs.
RowTypes ==
    /\ rows \in [Rows -> RowStatuses]
    /\ claims \in [Rows -> Nat]
    /\ reopens \in [Rows -> Nat]

\* Why it is inductive: the one claim that no reopening accounts for belongs
\* to a row that is being executed or has its outcome.
Taken(r) == rows[r] \in Final \cup {"EXECUTING"}

ClaimInv ==
    /\ RowTypes
    /\ \A r \in Rows : claims[r] <= reopens[r] + (IF Taken(r) THEN 1 ELSE 0)

-----------------------------------------------------------------------------

\* Counting reopenings only ever increases the counters.
LEMMA CountReopensType ==
    ASSUME RowTypes, NEW new
    PROVE  /\ CountReopens(new) \in [Rows -> Nat]
           /\ \A r \in Rows : CountReopens(new)[r] >= reopens[r]
           /\ \A r \in Rows : rows[r] = "EXECUTING" /\ new[r] \notin Final \cup {"EXECUTING"}
                 => CountReopens(new)[r] = reopens[r] + 1
BY SMT DEF CountReopens, RowTypes

\* A step that grants no claim preserves the invariant if it keeps recorded
\* outcomes and counts the rows it takes out of EXECUTING.
LEMMA NoClaimStep ==
    ASSUME ClaimInv,
           rows' \in [Rows -> RowStatuses],
           \A r \in Rows : rows[r] \in Final => rows'[r] \in Final,
           reopens' = CountReopens(rows'),
           claims' = claims
    PROVE  ClaimInv'
<1>1. RowTypes'
  BY CountReopensType DEF ClaimInv, RowTypes
<1>2. ASSUME NEW r \in Rows
      PROVE  claims'[r] <= reopens'[r] + (IF Taken(r)' THEN 1 ELSE 0)
  <2>1. /\ claims[r] \in Nat /\ reopens[r] \in Nat /\ reopens'[r] \in Nat
        /\ claims'[r] = claims[r]
        /\ claims[r] <= reopens[r] + (IF Taken(r) THEN 1 ELSE 0)
    BY <1>1 DEF ClaimInv, RowTypes
  <2>2. /\ reopens'[r] >= reopens[r]
        /\ rows[r] = "EXECUTING" /\ rows'[r] \notin Final \cup {"EXECUTING"}
              => reopens'[r] = reopens[r] + 1
    BY CountReopensType DEF ClaimInv
  <2>3. CASE Taken(r)'
    BY <2>1, <2>2, <2>3
  <2>4. CASE ~Taken(r)' /\ Taken(r)
    <3>1. rows[r] = "EXECUTING" /\ rows'[r] \notin Final \cup {"EXECUTING"}
      BY <2>4 DEF Taken, Final
    <3>2. QED  BY <3>1, <2>1, <2>2, <2>4
  <2>5. CASE ~Taken(r)' /\ ~Taken(r)
    BY <2>1, <2>2, <2>5
  <2>6. QED  BY <2>3, <2>4, <2>5
<1>3. QED  BY <1>1, <1>2 DEF ClaimInv

\* The conditional UPDATE: the row was waiting, so nothing is outstanding.
LEMMA ClaimStep ==
    ASSUME ClaimInv, NEW q, TakeRight(q), reopens' = reopens
    PROVE  ClaimInv'
<1>1. RowTypes'
  <2>1. rows' \in [Rows -> RowStatuses]
    BY DEF TakeRight, ClaimInv, RowTypes, RowStatuses
  <2>2. claims' = [r \in Rows |-> IF r = q THEN claims[r] + 1 ELSE claims[r]]
    BY DEF TakeRight, ClaimInv, RowTypes
  <2>3. \A r \in Rows : claims[r] + 1 \in Nat /\ claims[r] \in Nat
    BY DEF ClaimInv, RowTypes
  <2>4. claims' \in [Rows -> Nat]
    BY <2>2, <2>3
  <2>5. QED  BY <2>1, <2>4 DEF ClaimInv, RowTypes
<1>2. ASSUME NEW r \in Rows
      PROVE  claims'[r] <= reopens'[r] + (IF Taken(r)' THEN 1 ELSE 0)
  <2>1. /\ claims[r] \in Nat /\ reopens[r] \in Nat
        /\ claims[r] <= reopens[r] + (IF Taken(r) THEN 1 ELSE 0)
    BY DEF ClaimInv, RowTypes
  <2>2. CASE r = q
    <3>1. ~Taken(r) /\ Taken(r)'
      BY <2>2 DEF TakeRight, Taken, Final, ClaimInv, RowTypes
    <3>2. claims'[r] = claims[r] + 1
      BY <2>2 DEF TakeRight, ClaimInv, RowTypes
    <3>3. QED  BY <2>1, <3>1, <3>2
  <2>3. CASE r # q
    <3>1. claims'[r] = claims[r] /\ rows'[r] = rows[r]
      BY <2>3 DEF TakeRight, ClaimInv, RowTypes
    <3>2. QED  BY <2>1, <3>1 DEF Taken
  <2>4. QED  BY <2>2, <2>3
<1>3. QED  BY <1>1, <1>2 DEF ClaimInv

\* Whatever the turn decided, saving it leaves every recorded outcome alone.
LEMMA SyncedKeepsOutcomes ==
    ASSUME rows \in [Rows -> RowStatuses], NEW t \in Turns, NEW active
    PROVE  /\ Synced(t, active) \in [Rows -> RowStatuses]
           /\ \A r \in Rows : rows[r] \in Final => Synced(t, active)[r] \in Final
<1> DEFINE out == turns[t].out
           first == AfterExecutor(t)
           second == SyncActive(first, RowOf(active), out.state)
           third == SyncStack(second, out.stack)
<1>1. /\ first \in [Rows -> RowStatuses]
      /\ \A r \in Rows : rows[r] \in Final => first[r] \in Final
  BY DEF AfterExecutor, RowStatuses, Final
<1>2. /\ second \in [Rows -> RowStatuses]
      /\ \A r \in Rows : first[r] \in Final => second[r] \in Final
  BY <1>1 DEF SyncActive, RowStatuses
<1>3. /\ third \in [Rows -> RowStatuses]
      /\ \A r \in Rows : second[r] \in Final => third[r] \in Final
  <2> HIDE DEF second
  <2>1. QED  BY <1>2 DEF SyncStack, RowStatuses
<1>4. /\ Synced(t, active) \in [Rows -> RowStatuses]
      /\ \A r \in Rows : third[r] \in Final => Synced(t, active)[r] \in Final
  <2>1. Synced(t, active) = SyncPrevious(third, turns[t].prev, LiveRows(active, out.stack),
                                         out.finished, out.status)
    BY DEF Synced
  <2> HIDE DEF third
  <2>2. QED  BY <1>3, <2>1 DEF SyncPrevious, RowStatuses
<1>5. QED  BY <1>1, <1>2, <1>3, <1>4

-----------------------------------------------------------------------------

LEMMA InitClaimInv == Init => ClaimInv
BY DEF Init, ClaimInv, RowTypes, RowStatuses, Taken, Final

LEMMA StepClaimInv == ClaimInv /\ [Next]_vars => ClaimInv'
<1> SUFFICES ASSUME ClaimInv, [Next]_vars PROVE ClaimInv'
  OBVIOUS
<1>0. CASE /\ UNCHANGED <<rows, claims, reopens>>
  BY <1>0 DEF ClaimInv, RowTypes, Taken
<1>1. ASSUME NEW t \in Turns, NEW msg, NEW f, NEW retained, Begin(t, msg, f, retained)
      PROVE  ClaimInv'
  <2>1. /\ rows' \in [Rows -> RowStatuses]
        /\ \A r \in Rows : rows[r] \in Final => rows'[r] \in Final
    BY <1>1 DEF Begin, ClaimInv, RowTypes, RowStatuses
  <2>2. reopens' = CountReopens(rows') /\ claims' = claims
    BY <1>1 DEF Begin
  <2>3. QED  BY <2>1, <2>2, NoClaimStep
<1>2. ASSUME NEW t \in Turns, NeedIdentity(t) PROVE ClaimInv'
  BY <1>0, <1>2 DEF NeedIdentity
<1>3. ASSUME NEW t \in Turns, Claim(t) PROVE ClaimInv'
  BY <1>3, ClaimStep DEF Claim
<1>4. ASSUME NEW t \in Turns, ClaimError(t) PROVE ClaimInv'
  <2>1. CASE UNCHANGED <<rows, claims>>
    BY <1>0, <1>4, <2>1 DEF ClaimError
  <2>2. CASE TakeRight(Finished(t).row)
    BY <1>4, <2>2, ClaimStep DEF ClaimError
  <2>3. QED  BY <1>4, <2>1, <2>2 DEF ClaimError
<1>5. ASSUME NEW t \in Turns, Refused(t) PROVE ClaimInv'
  BY <1>0, <1>5 DEF Refused
<1>6. ASSUME NEW t \in Turns, Invoke(t) PROVE ClaimInv'
  BY <1>0, <1>6 DEF Invoke
<1>7. ASSUME NEW t \in Turns, Save(t) PROVE ClaimInv'
  <2>1. PICK active : rows' = Synced(t, active)
    BY <1>7 DEF Save
  <2>2. /\ rows' \in [Rows -> RowStatuses]
        /\ \A r \in Rows : rows[r] \in Final => rows'[r] \in Final
    BY <2>1, SyncedKeepsOutcomes DEF ClaimInv, RowTypes
  <2>3. reopens' = CountReopens(rows') /\ claims' = claims
    BY <1>7 DEF Save
  <2>4. QED  BY <2>2, <2>3, NoClaimStep
<1>8. ASSUME NEW t \in Turns, Rollback(t) PROVE ClaimInv'
  BY <1>0, <1>8 DEF Rollback
<1>9. ASSUME Reset PROVE ClaimInv'
  <2>1. /\ rows' \in [Rows -> RowStatuses]
        /\ \A r \in Rows : rows[r] \in Final => rows'[r] \in Final
    BY <1>9 DEF Reset, ClaimInv, RowTypes, RowStatuses, Final, Open
  <2>2. reopens' = CountReopens(rows') /\ claims' = claims
    BY <1>9 DEF Reset
  <2>3. QED  BY <2>1, <2>2, NoClaimStep
<1>10. ASSUME NEW r \in Rows, Age(r) PROVE ClaimInv'
  BY <1>0, <1>10 DEF Age
<1>11. CASE UNCHANGED vars
  BY <1>0, <1>11 DEF vars
<1>12. QED
  BY <1>1, <1>2, <1>3, <1>4, <1>5, <1>6, <1>7, <1>8, <1>9, <1>10, <1>11 DEF Next, Step

\* The execution right of a row (claim_for_execution) is granted at most once
\* more than the row was taken out of EXECUTING without an outcome: whatever
\* the number of concurrent confirmations, two of them never both win.
THEOREM ClaimsTheorem == Spec => []ClaimsNeedReopening
<1>1. ClaimInv => ClaimsNeedReopening
  <2> SUFFICES ASSUME ClaimInv, NEW r \in Rows PROVE claims[r] <= 1 + reopens[r]
    BY DEF ClaimsNeedReopening
  <2>1. /\ claims[r] \in Nat /\ reopens[r] \in Nat
        /\ claims[r] <= reopens[r] + (IF Taken(r) THEN 1 ELSE 0)
    BY DEF ClaimInv, RowTypes
  <2>2. QED  BY <2>1
<1>2. QED  BY InitClaimInv, StepClaimInv, <1>1, PTL DEF Spec

-----------------------------------------------------------------------------
(***************************************************************************)
(* The calls of the write tool.  A turn that holds an execution right      *)
(* calls it once; so each call, made or still to come, has a claim of its  *)
(* own, also when the turn that made it is rolled back.                    *)
(***************************************************************************)
Invoking(r) == {t \in Turns : Pc(t) = "invoke" /\ Finished(t).row = r}

CallTypes ==
    /\ claims \in [Rows -> Nat]
    /\ calls \in [Rows -> Nat]
    /\ DOMAIN turns = Turns
    /\ \A t \in Turns : DOMAIN turns[t] = DOMAIN IdleTurn

CallInv == CallTypes /\ CallsAreClaimed

LEMMA InvokingFinite ==
    ASSUME NEW r
    PROVE  IsFiniteSet(Invoking(r)) /\ Cardinality(Invoking(r)) \in Nat
<1>1. IsFiniteSet(Turns)
  BY TurnAssumption
<1>2. Invoking(r) \subseteq Turns
  BY DEF Invoking
<1>3. QED  BY <1>1, <1>2, FS_Subset, FS_CardinalityType

\* No call is made, no claim is lost and no turn gets to the call.
LEMMA FewerInvoking ==
    ASSUME CallInv, claims' \in [Rows -> Nat], \A r \in Rows : claims'[r] >= claims[r],
           calls' = calls, DOMAIN turns' = Turns,
           \A t \in Turns : DOMAIN turns'[t] = DOMAIN IdleTurn,
           \A r \in Rows : Invoking(r)' \subseteq Invoking(r)
    PROVE  CallInv'
<1>1. ASSUME NEW r \in Rows
      PROVE  calls'[r] + Cardinality(Invoking(r)') <= claims'[r]
  <2>1. /\ Cardinality(Invoking(r)) \in Nat /\ Cardinality(Invoking(r)') \in Nat
        /\ Cardinality(Invoking(r)') <= Cardinality(Invoking(r))
    BY InvokingFinite, FS_Subset, FS_CardinalityType
  <2>2. calls[r] + Cardinality(Invoking(r)) <= claims[r]
    BY DEF CallInv, CallsAreClaimed, Invoking
  <2>3. calls[r] \in Nat /\ claims[r] \in Nat /\ claims'[r] \in Nat
    BY DEF CallInv, CallTypes
  <2>4. QED  BY <2>1, <2>2, <2>3
<1>2. QED  BY <1>1 DEF CallInv, CallTypes, CallsAreClaimed, Invoking

LEMMA InitCallInv == Init => CallInv
<1> SUFFICES ASSUME Init PROVE CallInv
  OBVIOUS
<1>1. CallTypes
  BY DEF Init, CallTypes, IdleTurn
<1>2. ASSUME NEW r \in Rows PROVE calls[r] + Cardinality(Invoking(r)) <= claims[r]
  <2>1. Invoking(r) = {}
    BY DEF Init, Invoking, Pc, IdleTurn
  <2>2. QED  BY <2>1, FS_EmptySet DEF Init
<1>3. QED  BY <1>1, <1>2 DEF CallInv, CallsAreClaimed, Invoking

LEMMA CountedType ==
    ASSUME NEW count \in [Rows -> Nat], NEW q, NEW new, new = [count EXCEPT ![q] = @ + 1]
    PROVE  /\ new \in [Rows -> Nat]
           /\ \A r \in Rows : new[r] = IF r = q THEN count[r] + 1 ELSE count[r]
<1>1. new = [r \in Rows |-> IF r = q THEN count[r] + 1 ELSE count[r]]
  OBVIOUS
<1>2. \A r \in Rows : count[r] \in Nat /\ count[r] + 1 \in Nat
  OBVIOUS
<1>3. QED  BY <1>1, <1>2

\* What the conditional UPDATE does to the claims.
LEMMA ClaimsGrow ==
    ASSUME CallInv, NEW q, TakeRight(q)
    PROVE  /\ claims' \in [Rows -> Nat]
           /\ \A r \in Rows : claims'[r] = IF r = q THEN claims[r] + 1 ELSE claims[r]
<1>1. claims \in [Rows -> Nat] /\ claims' = [claims EXCEPT ![q] = @ + 1]
  BY DEF CallInv, CallTypes, TakeRight
<1>2. QED  BY <1>1, CountedType


LEMMA StepCallInv == CallInv /\ [Next]_vars => CallInv'
<1> SUFFICES ASSUME CallInv, [Next]_vars PROVE CallInv'
  OBVIOUS
<1>1. /\ claims \in [Rows -> Nat] /\ calls \in [Rows -> Nat]
      /\ \A r \in Rows : claims[r] \in Nat /\ calls[r] \in Nat
      /\ DOMAIN turns = Turns
      /\ \A t \in Turns : DOMAIN turns[t] = DOMAIN IdleTurn
  BY DEF CallInv, CallTypes
<1>2. DOMAIN IdleTurn = {"pc", "label", "prev", "result", "out", "retained", "quiet", "stale"}
  BY DEF IdleTurn
<1>3. CASE UNCHANGED <<turns, claims, calls>>
  BY <1>3 DEF CallInv, CallTypes, CallsAreClaimed, Pc, Finished
<1>4. ASSUME NEW t \in Turns,
             \/ \E msg, f, retained : Begin(t, msg, f, retained)
             \/ NeedIdentity(t) \/ ClaimError(t) \/ Refused(t) \/ Rollback(t) \/ Save(t)
      PROVE  CallInv'
  <2>1. claims' \in [Rows -> Nat] /\ \A r \in Rows : claims'[r] >= claims[r]
    <3>1. CASE claims' = claims
      BY <1>1, <3>1
    <3>2. CASE ClaimError(t)
      BY <1>1, <3>1, <3>2, ClaimsGrow DEF ClaimError
    <3>3. QED
      BY <1>4, <3>1, <3>2 DEF Begin, NeedIdentity, Refused, Rollback, Save
  <2>2. calls' = calls
    BY <1>4 DEF Begin, NeedIdentity, ClaimError, Refused, Rollback, Save
  <2>3. /\ DOMAIN turns' = Turns
        /\ \A u \in Turns : DOMAIN turns'[u] = DOMAIN IdleTurn
        /\ \A u \in Turns \ {t} : turns'[u].pc = turns[u].pc /\ turns'[u].out = turns[u].out
        /\ turns'[t].pc # "invoke"
    <3>1. CASE \E msg, f, retained : Begin(t, msg, f, retained)
      BY <1>1, <1>2, <3>1 DEF Begin
    <3>2. CASE NeedIdentity(t)
      BY <1>1, <1>2, <3>2 DEF NeedIdentity
    <3>3. CASE ClaimError(t)
      BY <1>1, <1>2, <3>3 DEF ClaimError
    <3>4. CASE Refused(t)
      BY <1>1, <1>2, <3>4 DEF Refused
    <3>5. CASE turns' = [turns EXCEPT ![t] = IdleTurn]
      BY <1>1, <3>5 DEF IdleTurn
    <3>6. CASE turns' = StaleBut(t)
      BY <1>1, <1>2, <3>6 DEF StaleBut, IdleTurn
    <3>7. QED
      BY <1>4, <3>1, <3>2, <3>3, <3>4, <3>5, <3>6 DEF Rollback, Save
  <2>4. \A r \in Rows : Invoking(r)' \subseteq Invoking(r)
    BY <2>3 DEF Invoking, Pc, Finished
  <2>5. QED  BY <2>1, <2>2, <2>3, <2>4, FewerInvoking
<1>5. ASSUME NEW t \in Turns, Claim(t) PROVE CallInv'
  <2> DEFINE q == Finished(t).row
  <2>1. turns' = [turns EXCEPT ![t].pc = "invoke"] /\ Pc(t) = "execute" /\ calls' = calls
    BY <1>5 DEF Claim
  <2>2. /\ claims' \in [Rows -> Nat]
        /\ \A r \in Rows : claims'[r] = IF r = q THEN claims[r] + 1 ELSE claims[r]
    BY <1>5, ClaimsGrow DEF Claim
  <2>3. /\ DOMAIN turns' = Turns
        /\ \A u \in Turns : DOMAIN turns'[u] = DOMAIN IdleTurn
        /\ \A u \in Turns : turns'[u].out = turns[u].out
        /\ \A u \in Turns \ {t} : turns'[u].pc = turns[u].pc
        /\ turns'[t].pc = "invoke"
    BY <1>1, <1>2, <2>1
  <2>4. \A r \in Rows : Invoking(r)' = IF r = q THEN Invoking(r) \cup {t} ELSE Invoking(r)
    BY <2>1, <2>3 DEF Invoking, Pc, Finished
  <2>5. t \notin Invoking(q)
    BY <2>1 DEF Invoking
  <2>6. ASSUME NEW r \in Rows PROVE calls'[r] + Cardinality(Invoking(r)') <= claims'[r]
    <3>1. calls[r] + Cardinality(Invoking(r)) <= claims[r]
      BY DEF CallInv, CallsAreClaimed, Invoking
    <3>2. Cardinality(Invoking(r)) \in Nat
      BY InvokingFinite
    <3> HIDE DEF q
    <3>3. CASE r = q
      <4>1. Cardinality(Invoking(r) \cup {t}) = Cardinality(Invoking(r)) + 1
        BY <2>5, <3>3, InvokingFinite, FS_AddElement
      <4>2. claims'[r] = claims[r] + 1 /\ calls'[r] = calls[r]
        BY <2>1, <2>2, <3>3
      <4>3. Cardinality(Invoking(r)') = Cardinality(Invoking(r)) + 1
        BY <2>4, <3>3, <4>1
      <4>4. QED  BY <1>1, <3>1, <3>2, <4>2, <4>3
    <3>4. CASE r # q
      <4>1. claims'[r] = claims[r] /\ calls'[r] = calls[r] /\ Invoking(r)' = Invoking(r)
        BY <2>1, <2>2, <2>4, <3>4
      <4>2. QED  BY <3>1, <4>1
    <3>5. QED  BY <3>3, <3>4
  <2>7. QED  BY <1>1, <2>1, <2>2, <2>3, <2>6 DEF CallInv, CallTypes, CallsAreClaimed, Invoking
<1>6. ASSUME NEW t \in Turns, Invoke(t) PROVE CallInv'
  <2> DEFINE q == Finished(t).row
  <2>1. PICK result : turns' = [turns EXCEPT ![t].pc = "executed", ![t].result = result]
    BY <1>6 DEF Invoke
  <2>2. Pc(t) = "invoke" /\ claims' = claims /\ calls' = [calls EXCEPT ![q] = @ + 1]
    BY <1>6 DEF Invoke
  <2>3. /\ calls' \in [Rows -> Nat]
        /\ \A r \in Rows : calls'[r] = IF r = q THEN calls[r] + 1 ELSE calls[r]
    BY <1>1, <2>2, CountedType
  <2>4. /\ DOMAIN turns' = Turns
        /\ \A u \in Turns : DOMAIN turns'[u] = DOMAIN IdleTurn
        /\ \A u \in Turns : turns'[u].out = turns[u].out
        /\ \A u \in Turns \ {t} : turns'[u].pc = turns[u].pc
        /\ turns'[t].pc = "executed"
    BY <1>1, <1>2, <2>1
  <2>5. \A r \in Rows : Invoking(r)' = IF r = q THEN Invoking(r) \ {t} ELSE Invoking(r)
    BY <2>2, <2>4 DEF Invoking, Pc, Finished
  <2>6. t \in Invoking(q)
    BY <2>2 DEF Invoking
  <2>7. ASSUME NEW r \in Rows PROVE calls'[r] + Cardinality(Invoking(r)') <= claims'[r]
    <3>1. calls[r] + Cardinality(Invoking(r)) <= claims[r]
      BY DEF CallInv, CallsAreClaimed, Invoking
    <3>2. Cardinality(Invoking(r)) \in Nat
      BY InvokingFinite
    <3> HIDE DEF q
    <3>3. CASE r = q
      <4>1. Cardinality(Invoking(r) \ {t}) = Cardinality(Invoking(r)) - 1
        BY <2>6, <3>3, InvokingFinite, FS_RemoveElement
      <4>2. claims'[r] = claims[r] /\ calls'[r] = calls[r] + 1
        BY <2>2, <2>3, <3>3
      <4>3. Cardinality(Invoking(r)') = Cardinality(Invoking(r)) - 1
        BY <2>5, <3>3, <4>1
      <4>4. QED  BY <1>1, <3>1, <3>2, <4>2, <4>3
    <3>4. CASE r # q
      <4>1. claims'[r] = claims[r] /\ calls'[r] = calls[r] /\ Invoking(r)' = Invoking(r)
        BY <2>2, <2>3, <2>5, <3>4
      <4>2. QED  BY <3>1, <4>1
    <3>5. QED  BY <3>3, <3>4
  <2>8. QED  BY <1>1, <2>2, <2>3, <2>4, <2>7 DEF CallInv, CallTypes, CallsAreClaimed, Invoking
<1>7. ASSUME Reset PROVE CallInv'
  <2>1. /\ claims' = claims /\ calls' = calls
        /\ turns' = [u \in Turns |-> [turns[u] EXCEPT !.stale = turns[u].pc # "idle"]]
    BY <1>7 DEF Reset
  <2>2. /\ DOMAIN turns' = Turns
        /\ \A u \in Turns : DOMAIN turns'[u] = DOMAIN IdleTurn
        /\ \A u \in Turns : turns'[u].pc = turns[u].pc /\ turns'[u].out = turns[u].out
    BY <1>1, <1>2, <2>1
  <2>3. \A r \in Rows : Invoking(r)' \subseteq Invoking(r)
    BY <2>2 DEF Invoking, Pc, Finished
  <2>4. claims' \in [Rows -> Nat] /\ \A r \in Rows : claims'[r] >= claims[r]
    BY <1>1, <2>1
  <2>5. QED  BY <2>1, <2>2, <2>3, <2>4, FewerInvoking
<1>8. ASSUME NEW r \in Rows, Age(r) PROVE CallInv'
  BY <1>3, <1>8 DEF Age
<1>9. CASE UNCHANGED vars
  BY <1>3, <1>9 DEF vars
<1>10. QED
  BY <1>4, <1>5, <1>6, <1>7, <1>8, <1>9 DEF Next, Step

\* The write tool runs at most once for each execution right that was taken
\* (claim_for_execution, then the tool, in that order), also when turns are rolled
\* back between the claim and the call.  With ClaimsTheorem: a row whose operation
\* runs twice was taken out of EXECUTING without an outcome in between.
THEOREM CallsTheorem == Spec => []CallsAreClaimed
<1>1. CallInv => CallsAreClaimed
  BY DEF CallInv
<1>2. QED  BY InitCallInv, StepCallInv, <1>1, PTL DEF Spec

-----------------------------------------------------------------------------
(***************************************************************************)
(* One turn at a time, which nothing aborts but a reset.  AtMostOnce is far from inductive:   *)
(* it needs that no task of the dialog, nor of the decision of the turn,   *)
(* has a row whose tool has run already, which in turn needs that no two   *)
(* tasks have the same row and that a row that is spent never comes back.  *)
(* RowsFollowDialog says it of the committed state only; while a turn is   *)
(* in flight the rows agree with nothing, and it is the decision of the    *)
(* turn that has to be arranged.                                           *)
(***************************************************************************)
Serial == ~Failures /\ \A t, u \in Turns : t = u

SameRow == {<<r, r>> : r \in Rows}

\* The rows an operation may still be executed for.
Unspent == {r \in Rows : rows[r] \notin Final \cup {"NONE"} /\ calls[r] = 0}

Spending(t) == IF Finished(t) = NoTask THEN {} ELSE {Finished(t).row}

SerialTypes ==
    /\ rows \in [Rows -> RowStatuses]
    /\ calls \in [Rows -> {0, 1}]
    /\ \A r \in Rows : rows[r] = "NONE" => calls[r] = 0
    /\ dialog \in [state : States, active : Tasks \cup {NoTask}, stack : Stacks]
    /\ Armed(dialog.state, dialog.active)
    /\ dialog.active # NoTask => dialog.active.row \in Rows
    /\ DOMAIN turns = Turns
    /\ \A t \in Turns : /\ DOMAIN turns[t] = DOMAIN IdleTurn
                        /\ turns[t].prev \in Tasks \cup {NoTask}
                        /\ Sound(turns[t].out)
                        /\ Pc(t) = "idle" => turns[t].result = "NONE"

\* Between turns: the dialog.
AtRest ==
    /\ Arranged(dialog.active, dialog.stack, Unspent \cup {NoRow}, SameRow)
    /\ dialog.active # NoTask => rows[dialog.active.row] = dialog.state
    /\ \A i \in DOMAIN dialog.stack :
          dialog.stack[i].row # NoRow => rows[dialog.stack[i].row] = "SUSPENDED"

\* In a turn: what it has decided, and the operation it has been handed.
InTurn(t) ==
    LET out == turns[t].out
        task == Finished(t)
    IN  /\ Arranged(out.active, out.stack, (Unspent \cup {NoRow}) \ Spending(t), SameRow)
        /\ task # NoTask => task.row \in Rows /\ rows[task.row] \notin Final \cup {"NONE"}
        /\ Pc(t) \in {"execute", "invoke", "executed"} => task # NoTask
        /\ Pc(t) \in {"execute", "invoke"} => calls[task.row] = 0
        /\ Pc(t) = "execute" /\ ~turns[t].stale => rows[task.row] = "CONFIRMING"
        /\ turns[t].stale => dialog = EmptyDialog
        /\ turns[t].quiet /\ ~turns[t].stale =>
              dialog = [state |-> out.state, active |-> out.active, stack |-> out.stack]

SerialInv ==
    /\ SerialTypes
    /\ ConfirmExecutes
    /\ (\A t \in Turns : Pc(t) = "idle") => AtRest
    /\ \A t \in Turns : Pc(t) # "idle" => InTurn(t)

-----------------------------------------------------------------------------

\* The row that an expectation of the dialog speaks of.
LEMMA NotARow == \A r \in Rows : r # NoRow
BY SkillAssumption

LEMMA WiderArranged ==
    ASSUME NEW task, NEW tasks, NEW R, NEW S, NEW Bad, Arranged(task, tasks, R, Bad),
           R \subseteq S
    PROVE  Arranged(task, tasks, S, Bad)
BY DEF Arranged

\* Without the current task, its row is not among those of the others.
LEMMA WithoutArranged ==
    ASSUME NEW task, NEW tasks, NEW R, Arranged(task, tasks, R, SameRow),
           task # NoTask, task.row \in Rows
    PROVE  Arranged(NoTask, tasks, R \ {task.row}, SameRow)
BY DEF Arranged, SameRow

LEMMA ResetIsSound ==
    /\ EmptyDialog \in [state : States, active : Tasks \cup {NoTask}, stack : Stacks]
    /\ EmptyDialog.active = NoTask /\ EmptyDialog.stack = <<>>
    /\ Armed(EmptyDialog.state, EmptyDialog.active)
BY EmptyIsStack DEF EmptyDialog, States, Armed, WaitingStates

LEMMA IdleIsSound ==
    /\ IdleTurn.pc = "idle" /\ IdleTurn.prev = NoTask /\ IdleTurn.result = "NONE"
    /\ Sound(IdleTurn.out)
BY EmptyIsStack
DEF IdleTurn, Outcome, Sound, Outcomes, Armed, States, Statuses, WaitingStates, Labels, ControlLabels

LEMMA InitSerialInv == Init => SerialInv
<1> SUFFICES ASSUME Init PROVE SerialInv
  OBVIOUS
<1>1. dialog = EmptyDialog /\ \A t \in Turns : turns[t] = IdleTurn
  BY DEF Init
<1>2. SerialTypes
  BY <1>1, ResetIsSound, IdleIsSound DEF Init, SerialTypes, RowStatuses, Pc
<1>3. AtRest
  BY <1>1, ResetIsSound, NoneArranged DEF AtRest
<1>4. QED
  BY <1>1, <1>2, <1>3, IdleIsSound DEF SerialInv, ConfirmExecutes, Pc

\* A step of the turn that keeps its decision, and touches the row of its own
\* operation only.
Moves(t, pc, result) == turns' = [turns EXCEPT ![t].pc = pc, ![t].result = result]

OwnRowOnly(t) ==
    /\ rows' \in [Rows -> RowStatuses] /\ calls' \in [Rows -> {0, 1}]
    /\ \A r \in Rows \ Spending(t) : rows'[r] = rows[r] /\ calls'[r] = calls[r]
    /\ Finished(t) # NoTask => rows'[Finished(t).row] \notin Final \cup {"NONE"}

LEMMA Proceeds ==
    ASSUME Serial, SerialInv, NEW t \in Turns, Pc(t) # "idle",
           NEW pc \in {"invoke", "executed", "save"}, NEW result, Moves(t, pc, result),
           result \in {"ALREADY", "INTERRUPTED"} => turns[t].stale,
           dialog' = dialog, OwnRowOnly(t),
           pc \in {"invoke", "executed"} => Finished(t) # NoTask,
           pc = "invoke" => calls'[Finished(t).row] = 0
    PROVE  SerialInv'
<1>1. /\ DOMAIN turns = Turns /\ DOMAIN turns[t] = DOMAIN IdleTurn
      /\ InTurn(t) /\ \A u \in Turns : u = t
  BY DEF SerialInv, SerialTypes, Serial
<1>2. DOMAIN IdleTurn = {"pc", "label", "prev", "result", "out", "retained", "quiet", "stale"}
  BY DEF IdleTurn
<1>0. /\ rows' \in [Rows -> RowStatuses] /\ calls' \in [Rows -> {0, 1}]
      /\ \A r \in Rows \ Spending(t) : rows'[r] = rows[r] /\ calls'[r] = calls[r]
      /\ Finished(t) # NoTask => rows'[Finished(t).row] \notin Final \cup {"NONE"}
  BY DEF OwnRowOnly
<1>3. /\ DOMAIN turns' = Turns /\ DOMAIN turns'[t] = DOMAIN IdleTurn
      /\ turns'[t].pc = pc /\ turns'[t].result = result
      /\ turns'[t].out = turns[t].out /\ turns'[t].prev = turns[t].prev
      /\ turns'[t].stale = turns[t].stale /\ turns'[t].quiet = turns[t].quiet
  BY <1>1, <1>2 DEF Moves
<1>4. Spending(t)' = Spending(t) /\ Finished(t)' = Finished(t) /\ Pc(t)' = pc
  BY <1>3 DEF Spending, Finished, Pc
<1>5. Unspent \ Spending(t) \subseteq Unspent' \ Spending(t)
  BY <1>0, <1>3 DEF Unspent
<1>6. SerialTypes'
  <2>1. \A r \in Rows : rows'[r] = "NONE" => calls'[r] = 0
    BY <1>0 DEF SerialInv, SerialTypes, Spending
  <2>2. QED
    BY <1>0, <1>1, <1>3, <2>1 DEF SerialInv, SerialTypes, Pc
<1>7. InTurn(t)'
  <2>1. Arranged(turns'[t].out.active, turns'[t].out.stack,
                 (Unspent' \cup {NoRow}) \ Spending(t), SameRow)
    BY <1>1, <1>3, <1>5, WiderArranged DEF InTurn
  <2>2. Finished(t) # NoTask => Finished(t).row \in Rows
    BY <1>1 DEF InTurn
  <2>3. turns[t].stale => dialog = EmptyDialog
    BY <1>1 DEF InTurn
  <2>4. turns[t].quiet /\ ~turns[t].stale =>
           dialog = [state |-> turns[t].out.state, active |-> turns[t].out.active,
                     stack |-> turns[t].out.stack]
    BY <1>1 DEF InTurn
  <2>5. QED
    BY <1>0, <1>3, <1>4, <2>1, <2>2, <2>3, <2>4 DEF InTurn
<1>8. ConfirmExecutes'
  BY <1>1, <1>3 DEF ConfirmExecutes
<1>9. QED
  BY <1>1, <1>3, <1>4, <1>6, <1>7, <1>8 DEF SerialInv, Pc

\* The steps before the turn is saved.
LEMMA Executes ==
    ASSUME Serial, SerialInv, NEW t \in Turns,
           NeedIdentity(t) \/ Claim(t) \/ ClaimError(t) \/ Refused(t) \/ Invoke(t)
    PROVE  SerialInv'
<1>1. Pc(t) \in {"execute", "invoke"} /\ Pc(t) # "idle" /\ InTurn(t) /\ dialog' = dialog
  BY DEF NeedIdentity, Claim, ClaimError, Refused, Invoke, SerialInv
<1>2. /\ Finished(t) # NoTask /\ Finished(t).row \in Rows
      /\ rows[Finished(t).row] \notin Final \cup {"NONE"}
      /\ calls[Finished(t).row] = 0
      /\ Pc(t) = "execute" /\ ~turns[t].stale => rows[Finished(t).row] = "CONFIRMING"
      /\ Spending(t) = {Finished(t).row}
  BY <1>1 DEF InTurn, Spending
<1>3. rows \in [Rows -> RowStatuses] /\ calls \in [Rows -> {0, 1}]
      /\ DOMAIN turns = Turns /\ DOMAIN turns[t] = DOMAIN IdleTurn
  BY DEF SerialInv, SerialTypes
<1>4. DOMAIN IdleTurn = {"pc", "label", "prev", "result", "out", "retained", "quiet", "stale"}
  BY DEF IdleTurn
<1>5. CASE NeedIdentity(t)
  <2>1. Moves(t, "save", "IDENTITY")
        /\ rows' = rows /\ calls' = calls
    BY <1>5 DEF NeedIdentity, Moves
  <2>2. OwnRowOnly(t)
    BY <1>2, <1>3, <2>1 DEF OwnRowOnly
  <2>3. QED  BY <1>1, <2>1, <2>2, Proceeds
<1>6. CASE Claim(t)
  <2>1. /\ Moves(t, "invoke", turns[t].result)
        /\ calls' = calls
    BY <1>3, <1>4, <1>6 DEF Claim, Moves
  <2>2. rows' = [rows EXCEPT ![Finished(t).row] = "EXECUTING"]
    BY <1>6 DEF Claim, TakeRight
  <2>3. rows' \in [Rows -> RowStatuses] /\ rows'[Finished(t).row] = "EXECUTING"
        /\ \A r \in Rows \ Spending(t) : rows'[r] = rows[r]
    BY <1>2, <1>3, <2>2 DEF RowStatuses
  <2>4. turns[t].result \in {"ALREADY", "INTERRUPTED"} => turns[t].stale
    BY DEF SerialInv, ConfirmExecutes
  <2>5. OwnRowOnly(t)
    BY <1>2, <1>3, <2>1, <2>3 DEF OwnRowOnly, Final
  <2>6. QED  BY <1>1, <1>2, <2>1, <2>4, <2>5, Proceeds
<1>7. CASE ClaimError(t)
  <2>1. /\ Moves(t, "save", "UNCLAIMED")
        /\ calls' = calls
    BY <1>7 DEF ClaimError, Moves
  <2>2. \/ rows' = rows
        \/ rows' = [rows EXCEPT ![Finished(t).row] = "EXECUTING"]
    BY <1>7 DEF ClaimError, TakeRight
  <2>3. /\ rows' \in [Rows -> RowStatuses]
        /\ rows'[Finished(t).row] \in {rows[Finished(t).row], "EXECUTING"}
        /\ \A r \in Rows \ Spending(t) : rows'[r] = rows[r]
    BY <1>2, <1>3, <2>2 DEF RowStatuses
  <2>4. OwnRowOnly(t)
    BY <1>2, <1>3, <2>1, <2>3 DEF OwnRowOnly, Final
  <2>5. QED  BY <1>1, <2>1, <2>4, Proceeds DEF ClaimError
<1>8. CASE Refused(t)
  <2>1. PICK result : Moves(t, "save", result)
    BY <1>8 DEF Refused, Moves
  <2>2. rows' = rows /\ calls' = calls
    BY <1>8 DEF Refused
  <2>3. turns[t].stale
    BY <1>2, <1>8 DEF Refused
  <2>4. OwnRowOnly(t)
    BY <1>2, <1>3, <2>2 DEF OwnRowOnly
  <2>5. QED  BY <1>1, <2>1, <2>2, <2>3, <2>4, Proceeds
<1>9. CASE Invoke(t)
  <2>1. PICK result \in {"OK", "FAILED"} :
           Moves(t, "executed", result)
    BY <1>9 DEF Invoke, Moves
  <2>2. rows' = rows /\ calls' = [calls EXCEPT ![Finished(t).row] = @ + 1]
    BY <1>9 DEF Invoke
  <2>3. calls' \in [Rows -> {0, 1}] /\ \A r \in Rows \ Spending(t) : calls'[r] = calls[r]
    BY <1>2, <1>3, <2>2
  <2>4. OwnRowOnly(t)
    BY <1>2, <1>3, <2>2, <2>3 DEF OwnRowOnly
  <2>5. QED  BY <1>1, <1>2, <2>1, <2>4, Proceeds
<1>10. QED  BY <1>5, <1>6, <1>7, <1>8, <1>9

\* A turn that is rolled back had been overtaken by a reset; the reset leaves no
\* task, and no row that was spent becomes one that is not.
LEMMA Restarts ==
    ASSUME Serial, SerialInv,
           Reset \/ (\E t \in Turns : Rollback(t)) \/ (\E r \in Rows : Age(r)) \/ UNCHANGED vars
    PROVE  SerialInv'
<1>1. /\ DOMAIN turns = Turns /\ \A t \in Turns : DOMAIN turns[t] = DOMAIN IdleTurn
      /\ rows \in [Rows -> RowStatuses] /\ calls \in [Rows -> {0, 1}]
  BY DEF SerialInv, SerialTypes
<1>2. DOMAIN IdleTurn = {"pc", "label", "prev", "result", "out", "retained", "quiet", "stale"}
  BY DEF IdleTurn
<1>3. ASSUME UNCHANGED <<rows, calls, dialog, turns>> PROVE SerialInv'
  <2>1. SerialTypes' /\ ConfirmExecutes'
    BY <1>3 DEF SerialInv, SerialTypes, ConfirmExecutes, Pc
  <2>2. AtRest => AtRest'
    BY <1>3 DEF AtRest, Unspent
  <2>3. \A t \in Turns : Pc(t)' = Pc(t) /\ (InTurn(t) => InTurn(t)')
    BY <1>3 DEF Pc, InTurn, Unspent, Spending, Finished
  <2>4. QED  BY <2>1, <2>2, <2>3 DEF SerialInv
<1>4. ASSUME NEW t \in Turns, Rollback(t) PROVE SerialInv'
  <2>1. /\ turns' = [turns EXCEPT ![t] = IdleTurn] /\ turns[t].stale /\ Pc(t) # "idle"
        /\ UNCHANGED <<dialog, rows, calls>>
    BY <1>4 DEF Rollback, Serial
  <2>2. turns'[t] = IdleTurn /\ DOMAIN turns' = Turns /\ \A u \in Turns : u = t
    BY <1>1, <2>1 DEF Serial
  <2>3. dialog = EmptyDialog
    BY <2>1 DEF SerialInv, InTurn
  <2>4. SerialTypes'
    BY <2>1, <2>2, IdleIsSound DEF SerialInv, SerialTypes, Pc
  <2>5. AtRest'
    BY <2>1, <2>3, ResetIsSound, NoneArranged DEF AtRest
  <2>6. QED  BY <2>2, <2>4, <2>5, IdleIsSound DEF SerialInv, ConfirmExecutes, Pc
<1>5. CASE Reset
  <2>1. /\ dialog' = EmptyDialog /\ calls' = calls
        /\ rows' = [r \in Rows |-> IF rows[r] \in Open THEN "ABORTED" ELSE rows[r]]
        /\ turns' = [u \in Turns |-> [turns[u] EXCEPT !.stale = turns[u].pc # "idle"]]
    BY <1>5 DEF Reset
  <2>2. /\ DOMAIN turns' = Turns
        /\ \A u \in Turns : /\ DOMAIN turns'[u] = DOMAIN IdleTurn
                            /\ turns'[u].pc = turns[u].pc /\ turns'[u].result = turns[u].result
                            /\ turns'[u].out = turns[u].out /\ turns'[u].prev = turns[u].prev
                            /\ turns'[u].stale = (turns[u].pc # "idle")
    BY <1>1, <1>2, <2>1
  <2>3. \A r \in Rows : /\ rows'[r] \in RowStatuses
                        /\ rows'[r] = "NONE" <=> rows[r] = "NONE"
                        /\ rows'[r] \in Final <=> rows[r] \in Final
    BY <1>1, <2>1 DEF RowStatuses, Open, Final
  <2>4. Unspent' = Unspent
    BY <2>1, <2>3 DEF Unspent
  <2>5. SerialTypes'
    <3>1. rows' \in [Rows -> RowStatuses]
      BY <2>1, <2>3
    <3>2. QED  BY <2>1, <2>2, <2>3, <3>1, ResetIsSound DEF SerialInv, SerialTypes, Pc
  <2>6. AtRest'
    BY <2>1, ResetIsSound, NoneArranged DEF AtRest
  <2>7. ASSUME NEW t \in Turns, Pc(t)' # "idle" PROVE InTurn(t)'
    <3>1. InTurn(t) /\ Pc(t)' = Pc(t) /\ Finished(t)' = Finished(t) /\ Spending(t)' = Spending(t)
          /\ turns'[t].stale
      BY <2>2, <2>7 DEF SerialInv, Pc, Finished, Spending
    <3>2. QED  BY <2>1, <2>2, <2>3, <2>4, <3>1 DEF InTurn
  <2>8. ConfirmExecutes'
    <3>1. \A t \in Turns : Pc(t) = "idle" => turns[t].result \notin {"ALREADY", "INTERRUPTED"}
      BY DEF SerialInv, SerialTypes
    <3>2. QED  BY <2>2, <3>1 DEF SerialInv, ConfirmExecutes, Pc
  <2>9. QED  BY <2>5, <2>6, <2>7, <2>8 DEF SerialInv
<1>6. QED
  BY <1>3, <1>4, <1>5 DEF Age, vars

-----------------------------------------------------------------------------

LEMMA SavedTask ==
    ASSUME NEW task \in Tasks \cup {NoTask}, NEW saved \in Saved(task)
    PROVE  /\ saved \in Tasks \cup {NoTask}
           /\ saved = NoTask <=> task = NoTask
           /\ task # NoTask => /\ saved.intent = task.intent /\ saved.slots = task.slots
                               /\ saved.row \in Rows
                               /\ saved = task \/ rows[saved.row] = "NONE"
           /\ task # NoTask /\ task.row # NoRow => saved = task
<1>1. CASE task = NoTask
  BY <1>1 DEF Saved, NeedsRow
<1>2. CASE task # NoTask /\ task.row = NoRow
  <2>1. PICK r \in Rows : saved = [task EXCEPT !.row = r] /\ rows[r] = "NONE"
    BY <1>2 DEF Saved, NeedsRow
  <2>2. saved \in Tasks /\ saved.intent = task.intent /\ saved.slots = task.slots /\ saved.row = r
    BY <1>2, <2>1 DEF Tasks
  <2>3. QED  BY <1>2, <2>1, <2>2, TaskIsNotNone
<1>3. CASE task # NoTask /\ task.row # NoRow
  BY <1>3 DEF Saved, NeedsRow, Tasks
<1>4. QED  BY <1>1, <1>2, <1>3

\* What save_turn makes of the rows of the tasks it keeps.
LEMMA SyncedRows ==
    ASSUME NEW t \in Turns, NEW active, NEW r \in Rows,
           rows \in [Rows -> RowStatuses]
    PROVE  LET out == turns[t].out
               before == AfterExecutor(t)[r]
               Suspended == \E k \in DOMAIN out.stack : out.stack[k].row = r
           IN  /\ before \in Final => Synced(t, active)[r] = before
               /\ before \notin Final /\ Suspended => Synced(t, active)[r] = "SUSPENDED"
               /\ before \notin Final /\ ~Suspended /\ active # NoTask /\ active.row = r =>
                     Synced(t, active)[r] = IF out.state = "CONFIRMING" THEN "CONFIRMING"
                                                                        ELSE "COLLECTING"
               /\ Synced(t, active)[r] = "NONE" => before = "NONE"
<1> DEFINE out == turns[t].out
           first == AfterExecutor(t)
           second == SyncActive(first, RowOf(active), out.state)
           third == SyncStack(second, out.stack)
           Suspended == \E k \in DOMAIN out.stack : out.stack[k].row = r
<1>1. r # NoRow
  BY NotARow
<1>2. r \in LiveRows(NoTask, out.stack) <=> Suspended
  BY <1>1 DEF LiveRows, Elements
<1>3. r \in LiveRows(active, out.stack) <=> Suspended \/ (active # NoTask /\ active.row = r)
  BY <1>1 DEF LiveRows, Elements
<1>4. r = RowOf(active) <=> active # NoTask /\ active.row = r
  BY <1>1 DEF RowOf
<1>5. second[r] = IF r = RowOf(active) /\ first[r] \notin Final
                  THEN IF out.state = "CONFIRMING" THEN "CONFIRMING" ELSE "COLLECTING"
                  ELSE first[r]
  BY DEF SyncActive
<1>6. third[r] = IF r \in LiveRows(NoTask, out.stack) /\ second[r] \notin Final
                 THEN "SUSPENDED" ELSE second[r]
  BY DEF SyncStack
<1>7. Synced(t, active)[r] =
         IF /\ r = RowOf(turns[t].prev) /\ r \notin LiveRows(active, out.stack)
            /\ RowOf(out.finished) # r /\ third[r] \notin Final
         THEN IF out.status \in {"ABORTED", "HANDOFF"} THEN "ABORTED" ELSE "DONE"
         ELSE third[r]
  BY DEF Synced, SyncPrevious
<1> HIDE DEF first, second, third, Suspended
<1>8. QED
  BY <1>2, <1>3, <1>4, <1>5, <1>6, <1>7 DEF Final, first, Suspended

LEMMA Saves ==
    ASSUME Serial, SerialInv, NEW t \in Turns, Save(t)
    PROVE  SerialInv' /\ \A r \in Rows : rows[r] \in Final => rows'[r] = rows[r]
<1> DEFINE out == turns[t].out
<1>1. /\ SerialTypes /\ InTurn(t) /\ Pc(t) \in {"save", "executed"} /\ \A u \in Turns : u = t
      /\ Sound(out)
  BY DEF Save, SerialInv, SerialTypes, Serial
<1>2. PICK active \in Saved(out.active) :
         /\ \/ dialog' = [state |-> out.state, active |-> active, stack |-> out.stack]
            \/ turns[t].quiet /\ dialog' = dialog
         /\ rows' = Synced(t, active)
         /\ turns' = StaleBut(t) \/ turns' = [turns EXCEPT ![t] = IdleTurn]
  BY DEF Save
<1>3. calls' = calls
  BY DEF Save
<1>4. /\ out.state \in States /\ out.active \in Tasks \cup {NoTask} /\ out.stack \in Stacks
      /\ Armed(out.state, out.active)
      /\ \A k \in DOMAIN out.stack : out.stack[k].row \in Rows \cup {NoRow}
  <2>1. out.state \in States /\ out.active \in Tasks \cup {NoTask} /\ out.stack \in Stacks
        /\ Armed(out.state, out.active)
    BY <1>1 DEF Sound, Outcomes
  <2>2. \A k \in DOMAIN out.stack : out.stack[k] \in Tasks
    BY <2>1, StackIsSeq
  <2>3. QED  BY <2>1, <2>2 DEF Tasks
<1>5. /\ active \in Tasks \cup {NoTask} /\ (active = NoTask <=> out.active = NoTask)
      /\ out.active # NoTask => /\ active.intent = out.active.intent /\ active.slots = out.active.slots
                                /\ active.row \in Rows
                                /\ active = out.active \/ rows[active.row] = "NONE"
      /\ out.active # NoTask /\ out.active.row # NoRow => active = out.active
  BY <1>4, SavedTask
<1>6. Armed(out.state, active)
  BY <1>4, <1>5 DEF Armed, Missing
<1>7. DOMAIN turns' = Turns /\ turns'[t] = IdleTurn
  BY <1>1, <1>2 DEF StaleBut, SerialTypes
<1>8. rows \in [Rows -> RowStatuses] /\ rows' \in [Rows -> RowStatuses]
  BY <1>1, <1>2, SyncedKeepsOutcomes DEF SerialTypes
<1>9. \A r \in Rows : /\ r \notin Spending(t) => AfterExecutor(t)[r] = rows[r]
                      /\ rows[r] \in Final \cup {"NONE"} => AfterExecutor(t)[r] = rows[r]
                      /\ AfterExecutor(t)[r] = "NONE" => rows[r] = "NONE"
  BY <1>1, <1>8 DEF AfterExecutor, InTurn, Spending, Final
<1>10. \A r \in Rows : rows[r] \in Final => rows'[r] = rows[r]
  BY <1>2, <1>8, <1>9, SyncedRows
<1>11. \A r \in Rows : rows'[r] = "NONE" => calls'[r] = 0
  BY <1>1, <1>2, <1>3, <1>8, <1>9, SyncedRows DEF SerialTypes
<1>12. ASSUME NEW k \in DOMAIN out.stack, out.stack[k].row # NoRow
       PROVE  /\ out.stack[k].row \in Unspent' /\ out.stack[k].row \in Unspent
              /\ rows'[out.stack[k].row] = "SUSPENDED"
  <2>1. out.stack[k].row \in Unspent /\ out.stack[k].row \notin Spending(t)
    BY <1>1, <1>12 DEF InTurn, Arranged
  <2>2. out.stack[k].row \in Rows /\ AfterExecutor(t)[out.stack[k].row] \notin Final
    BY <1>9, <2>1 DEF Unspent
  <2>3. rows'[out.stack[k].row] = "SUSPENDED"
    BY <1>2, <1>8, <2>2, SyncedRows
  <2>4. QED  BY <1>3, <2>1, <2>2, <2>3 DEF Unspent, Final
<1>13. ASSUME active # NoTask
       PROVE  /\ active.row \in Rows /\ active.row \in Unspent'
              /\ \A k \in DOMAIN out.stack : out.stack[k].row # active.row
              /\ rows'[active.row] = out.state
  <2>1. /\ active.row \in Rows /\ active.row # NoRow /\ out.active # NoTask
        /\ calls[active.row] = 0 /\ rows[active.row] \notin Final
        /\ AfterExecutor(t)[active.row] = rows[active.row]
        /\ \A k \in DOMAIN out.stack : out.stack[k].row # active.row
    <3>1. active.row \in Rows /\ active.row # NoRow /\ out.active # NoTask
      BY <1>5, <1>13, NotARow
    <3>2. CASE rows[active.row] = "NONE"
      <4>1. \A k \in DOMAIN out.stack : out.stack[k].row # NoRow => rows[out.stack[k].row] # "NONE"
        BY <1>12 DEF Unspent
      <4>2. QED  BY <1>1, <1>9, <3>1, <3>2, <4>1 DEF SerialTypes, Final
    <3>3. CASE active = out.active
      <4>1. active.row \in (Unspent \cup {NoRow}) \ Spending(t)
            /\ \A k \in DOMAIN out.stack : <<out.stack[k].row, active.row>> \notin SameRow
        BY <1>1, <3>1, <3>3 DEF InTurn, Arranged
      <4>2. QED  BY <1>9, <3>1, <4>1 DEF Unspent, SameRow
    <3>4. QED  BY <1>5, <3>1, <3>2, <3>3
  <2>2. rows'[active.row] = IF out.state = "CONFIRMING" THEN "CONFIRMING" ELSE "COLLECTING"
    BY <1>2, <1>8, <1>13, <2>1, SyncedRows
  <2>3. out.state \in {"COLLECTING", "CONFIRMING"}
    BY <1>4, <2>1 DEF Armed, WaitingStates
  <2>4. QED  BY <1>3, <2>1, <2>2, <2>3 DEF Unspent, Final
<1>14. dialog' = EmptyDialog
       \/ dialog' = [state |-> out.state, active |-> active, stack |-> out.stack]
  <2>1. CASE turns[t].quiet /\ dialog' = dialog /\ turns[t].stale
    BY <1>1, <2>1 DEF InTurn
  <2>2. CASE turns[t].quiet /\ dialog' = dialog /\ ~turns[t].stale
    <3>1. dialog = [state |-> out.state, active |-> out.active, stack |-> out.stack]
      BY <1>1, <2>2 DEF InTurn
    <3>2. out.active # NoTask => out.active.row \in Rows
      BY <1>1, <3>1 DEF SerialTypes
    <3>3. active = out.active
      BY <1>5, <3>2, NotARow
    <3>4. QED  BY <2>2, <3>1, <3>3
  <2>3. QED  BY <1>2, <2>1, <2>2
<1>15. /\ dialog' \in [state : States, active : Tasks \cup {NoTask}, stack : Stacks]
       /\ Armed(dialog'.state, dialog'.active)
       /\ dialog'.active # NoTask => dialog'.active.row \in Rows
  <2>1. CASE dialog' = EmptyDialog
    BY <2>1, ResetIsSound
  <2>2. CASE dialog' = [state |-> out.state, active |-> active, stack |-> out.stack]
    BY <1>4, <1>5, <1>6, <2>2
  <2>3. QED  BY <1>14, <2>1, <2>2
<1>16. SerialTypes'
  BY <1>1, <1>3, <1>7, <1>8, <1>11, <1>15, IdleIsSound DEF SerialTypes, Pc
<1>17. AtRest'
  <2>1. CASE dialog' = EmptyDialog
    BY <2>1, ResetIsSound, NoneArranged DEF AtRest
  <2>2. CASE dialog' = [state |-> out.state, active |-> active, stack |-> out.stack]
    <3>1. dialog'.active = active /\ dialog'.stack = out.stack /\ dialog'.state = out.state
      BY <2>2
    <3>2. Arranged(active, out.stack, Unspent' \cup {NoRow}, SameRow)
      <4>1. \A k \in DOMAIN out.stack : out.stack[k].row \in Unspent' \cup {NoRow}
        BY <1>12
      <4>2. \A k, l \in DOMAIN out.stack :
               k < l => <<out.stack[k].row, out.stack[l].row>> \notin SameRow
        BY <1>1 DEF InTurn, Arranged
      <4>3. active # NoTask => active.row \in Unspent'
               /\ \A k \in DOMAIN out.stack : <<out.stack[k].row, active.row>> \notin SameRow
        BY <1>13 DEF SameRow
      <4>4. QED  BY <4>1, <4>2, <4>3 DEF Arranged
    <3>3. QED  BY <1>12, <1>13, <3>1, <3>2 DEF AtRest
  <2>3. QED  BY <1>14, <2>1, <2>2
<1>18. QED
  BY <1>1, <1>7, <1>10, <1>16, <1>17, IdleIsSound DEF SerialInv, ConfirmExecutes, Pc

\* A turn begins with the tasks that are left, and takes over what it is to execute.
LEMMA Begins ==
    ASSUME Serial, SerialInv, NEW t \in Turns, NEW msg \in Messages,
           NEW f \in Picks(Len(dialog.stack)), NEW retained \in BOOLEAN, Begin(t, msg, f, retained)
    PROVE  SerialInv'
<1> DEFINE gone == {r \in LiveRows(dialog.active, dialog.stack) : r \in old}
           active == IF Expired(dialog.active) THEN NoTask ELSE dialog.active
           state == IF Expired(dialog.active) /\ dialog.state \in WaitingStates
                    THEN "IDLE" ELSE dialog.state
           before == Surviving(dialog.stack, f)
           out == Resolve(state, active, before, msg)
           R == Unspent \cup {NoRow}
<1>1. SerialTypes /\ AtRest /\ \A u \in Turns : u = t /\ turns[u].result = "NONE"
  BY DEF Begin, SerialInv, SerialTypes, Serial
<1>2. /\ rows' = [r \in Rows |-> IF r \in gone /\ rows[r] \notin Final
                                 THEN "ABORTED" ELSE rows[r]]
      /\ dialog' = dialog /\ calls' = calls
      /\ turns' = [turns EXCEPT ![t] =
              [pc |-> IF out.status = "CONFIRMED" THEN "execute" ELSE "save",
               label |-> msg.label, prev |-> active, result |-> "NONE", out |-> out,
               retained |-> retained, stale |-> FALSE,
               quiet |-> retained /\ SameAsLoaded(out, msg.label)]]
      /\ Sayable(msg.label, state)
  BY DEF Begin
<1>3. /\ dialog.state \in States /\ dialog.active \in Tasks \cup {NoTask}
      /\ dialog.stack \in Stacks /\ Armed(dialog.state, dialog.active)
      /\ rows \in [Rows -> RowStatuses]
      /\ dialog.active # NoTask => dialog.active.row \in Rows /\ dialog.active.row # NoRow
  BY <1>1, NotARow DEF SerialTypes
<1>4. /\ state \in States /\ active \in Tasks \cup {NoTask} /\ Armed(state, active)
      /\ active # NoTask => active = dialog.active /\ active.row \notin old /\ state = dialog.state
  <2>1. CASE Expired(dialog.active)
    BY <1>3, <2>1 DEF Armed, States, WaitingStates
  <2>2. CASE ~Expired(dialog.active)
    BY <1>3, <2>2 DEF Expired, RowOf
  <2>3. QED  BY <2>1, <2>2
<1>5. before \in Stacks /\ Arranged(active, before, R, SameRow) /\ Arranged(NoTask, before, R, SameRow)
  <2>1. Arranged(dialog.active, before, R, SameRow) /\ before \in Stacks
    BY <1>1, <1>3, SurvivingArranged, SurvivingType DEF AtRest
  <2>2. Arranged(NoTask, before, R, SameRow)
    BY <2>1, ForgottenArranged
  <2> HIDE DEF before, R
  <2>3. QED  BY <1>4, <2>1, <2>2
<1>6. SameRow \in SUBSET (Rows \X Rows) /\ NoRow \in R
  BY DEF SameRow
<1>7. /\ Sound(out)
      /\ out.finished # NoTask => /\ state = "CONFIRMING" /\ active # NoTask
                                  /\ out.finished = active /\ msg.label = "CONFIRM"
      /\ out.status = "CONFIRMED" => out.finished # NoTask
  <2>1. Sayable(msg.label, state)
    BY <1>2
  <2>2. state \in States /\ active \in Tasks \cup {NoTask} /\ Armed(state, active)
        /\ before \in Stacks
    BY <1>4, <1>5
  <2>3. /\ Sound(out)
        /\ out.finished # NoTask => /\ state = "CONFIRMING" /\ active # NoTask
                                    /\ out.finished = active
        /\ out.status = "CONFIRMED" => out.finished # NoTask
        /\ out.finished # NoTask => msg.label = "CONFIRM"
    <3> HIDE DEF state, active, before
    <3>1. QED  BY <2>1, <2>2, ResolveDecides
  <2> HIDE DEF out, state, active, before
  <2>4. QED  BY <2>3
<1>8. ASSUME out.finished = NoTask
      PROVE  Arranged(out.active, out.stack, R, SameRow)
  <2> HIDE DEF state, active, before, R
  <2>1. QED  BY <1>4, <1>5, <1>6, ResolveArranged
<1>9. ASSUME out.finished # NoTask
      PROVE  Arranged(out.active, out.stack, R \ {active.row}, SameRow)
  <2> DEFINE stack == PushPending(before, msg.pending)
             S == R \ {active.row}
  <2>1. state = "CONFIRMING" /\ active # NoTask /\ msg.label = "CONFIRM"
        /\ active.row \in Rows /\ active.row # NoRow
    BY <1>3, <1>4, <1>7, <1>9
  <2>2. msg.pending \in Pendings(Requests)
    BY DEF Messages
  <2>3. NoRow \in S
    BY <1>6, <2>1
  <2>4. Arranged(NoTask, before, S, SameRow)
    <3> HIDE DEF active, before, R
    <3>1. QED  BY <1>5, <2>1, WithoutArranged
  <2>5. stack \in Stacks /\ Arranged(NoTask, stack, S, SameRow)
    <3> HIDE DEF before, S
    <3>1. QED  BY <1>5, <1>6, <2>2, <2>3, <2>4, PushPendingType, PendingArranged
  <2>6. out = FinishTurn("CONFIRMED", stack, active, "DONE", active.intent)
    <3>1. out = OnConfirm(state, active, stack)
      BY <2>1, LabelsAssumption DEF Resolve, ControlLabels, Intents
    <3> HIDE DEF out, stack, state, active
    <3>2. QED  BY <2>1, <3>1 DEF OnConfirm
  <2> HIDE DEF out, stack, state, active, S
  <2>7. Arranged(out.active, out.stack, S, SameRow)
    BY <2>5, <2>6, FinishTurnArranged
  <2>8. QED  BY <2>7 DEF S
<1>10. /\ turns'[t].pc = IF out.status = "CONFIRMED" THEN "execute" ELSE "save"
       /\ turns'[t].prev = active /\ turns'[t].result = "NONE" /\ turns'[t].out = out
       /\ turns'[t].stale = FALSE /\ turns'[t].quiet = (retained /\ SameAsLoaded(out, msg.label))
       /\ DOMAIN turns' = Turns /\ DOMAIN turns'[t] = DOMAIN IdleTurn
  <2> HIDE DEF out, active
  <2>1. QED  BY <1>1, <1>2 DEF SerialTypes, IdleTurn
<1> HIDE DEF out
<1>11. \A r \in Rows : /\ rows'[r] \in RowStatuses
                       /\ rows'[r] \in Final <=> rows[r] \in Final
                       /\ rows'[r] = "NONE" => rows[r] = "NONE"
                       /\ rows[r] # "NONE" => rows'[r] # "NONE"
                       /\ r \notin old => rows'[r] = rows[r]
  BY <1>2, <1>3 DEF RowStatuses, Final
<1>12. Unspent \subseteq Unspent'
  BY <1>2, <1>11 DEF Unspent
<1>13. SerialTypes'
  <2>1. rows' \in [Rows -> RowStatuses]
    BY <1>2, <1>11
  <2>2. turns'[t].pc # "idle"
    BY <1>10
  <2> HIDE DEF active, state, gone
  <2>3. QED  BY <1>1, <1>2, <1>4, <1>7, <1>10, <1>11, <2>1, <2>2 DEF SerialTypes, Pc
<1>14. InTurn(t)'
  <2>1. Finished(t)' = out.finished /\ Pc(t)' \in {"execute", "save"}
        /\ (Pc(t)' = "execute" => out.finished # NoTask)
    BY <1>7, <1>10 DEF Finished, Pc
  <2>2. ASSUME out.finished # NoTask
        PROVE  /\ out.finished.row \in Rows /\ calls'[out.finished.row] = 0
               /\ rows'[out.finished.row] = "CONFIRMING"
    <3>1. out.finished = dialog.active /\ dialog.active # NoTask /\ dialog.active.row \notin old
          /\ dialog.state = "CONFIRMING"
      BY <1>4, <1>7, <2>2
    <3>2. dialog.active.row \in Unspent /\ rows[dialog.active.row] = "CONFIRMING"
      BY <1>1, <1>3, <3>1 DEF AtRest, Arranged
    <3>3. QED  BY <1>2, <1>11, <3>1, <3>2 DEF Unspent
  <2>3. Arranged(out.active, out.stack, (Unspent' \cup {NoRow}) \ Spending(t)', SameRow)
    <3>1. CASE out.finished = NoTask
      <4>1. Spending(t)' = {}
        BY <2>1, <3>1 DEF Spending
      <4>2. R \subseteq (Unspent' \cup {NoRow}) \ Spending(t)'
        BY <1>12, <4>1
      <4>3. QED  BY <1>8, <3>1, <4>2, WiderArranged
    <3>2. CASE out.finished # NoTask
      <4>1. Spending(t)' = {active.row}
        BY <1>7, <2>1, <3>2 DEF Spending
      <4>2. R \ {active.row} \subseteq (Unspent' \cup {NoRow}) \ Spending(t)'
        BY <1>12, <4>1
      <4>3. QED  BY <1>9, <3>2, <4>2, WiderArranged
    <3>3. QED  BY <3>1, <3>2
  <2>4. turns'[t].quiet => dialog' = [state |-> out.state, active |-> out.active, stack |-> out.stack]
    BY <1>2, <1>10 DEF SameAsLoaded
  <2>5. QED
    BY <1>10, <2>1, <2>2, <2>3, <2>4 DEF InTurn, Final
<1>15. ConfirmExecutes' /\ Pc(t)' # "idle"
  BY <1>1, <1>10 DEF ConfirmExecutes, Pc
<1>16. QED
  BY <1>1, <1>13, <1>14, <1>15 DEF SerialInv

LEMMA NextSerialInv ==
    ASSUME Serial, SerialInv, [Next]_vars
    PROVE  SerialInv'
<1>1. CASE Reset \/ (\E t \in Turns : Rollback(t)) \/ (\E r \in Rows : Age(r)) \/ UNCHANGED vars
  BY <1>1, Restarts
<1>2. ASSUME NEW t \in Turns, Save(t) PROVE SerialInv'
  BY <1>2, Saves
<1>3. ASSUME NEW t \in Turns,
             NeedIdentity(t) \/ Claim(t) \/ ClaimError(t) \/ Refused(t) \/ Invoke(t)
      PROVE  SerialInv'
  BY <1>3, Executes
<1>4. ASSUME NEW t \in Turns, NEW msg \in Messages, NEW f \in Picks(Len(dialog.stack)),
             NEW retained \in Retention, Begin(t, msg, f, retained)
      PROVE  SerialInv'
  <2>1. retained \in BOOLEAN
    BY TurnAssumption
  <2>2. QED
    BY <1>4, <2>1, Begins
<1>5. QED
  BY <1>1, <1>2, <1>3, <1>4 DEF Next, Step

LEMMA SpecSerialInv == ASSUME Serial PROVE Spec => []SerialInv
<1>1. SerialInv /\ [Next]_vars => SerialInv'
  BY NextSerialInv
<1>2. QED
  BY <1>1, InitSerialInv, PTL DEF Spec

(***************************************************************************)
(* Where the session runs one turn at a time and none fails, a             *)
(* confirmed operation is executed at most once, as the executor promises  *)
(* (executor.py:9-10): whatever tasks are suspended, resumed, expired or   *)
(* reset in between, and in any number of turns.                           *)
(***************************************************************************)
THEOREM OnceTheorem == ASSUME Serial PROVE Spec => []AtMostOnce
<1>1. SerialInv => AtMostOnce
  BY DEF SerialInv, SerialTypes, AtMostOnce
<1>2. QED
  BY <1>1, SpecSerialInv, PTL

(***************************************************************************)
(* Where the session runs one turn at a time and none fails, a             *)
(* confirmation is refused its execution right only when the session was   *)
(* reset under the turn: the row of a task that waits at the confirmation  *)
(* gate is never in a status claim_for_execution does not take.            *)
(***************************************************************************)
THEOREM ConfirmTheorem == ASSUME Serial PROVE Spec => []ConfirmExecutes
<1>1. SerialInv => ConfirmExecutes
  BY DEF SerialInv
<1>2. QED
  BY <1>1, SpecSerialInv, PTL

(***************************************************************************)
(* Where the session runs one turn at a time and none fails, the task      *)
(* rows that save_turn writes agree with the dialog state it writes next   *)
(* to them: the current task has the status of the state machine, and the  *)
(* suspended ones are SUSPENDED.                                           *)
(***************************************************************************)
THEOREM RowsTheorem == ASSUME Serial PROVE Spec => []RowsFollowDialog
<1>1. ASSUME SerialInv PROVE RowsFollowDialog
  <2> SUFFICES ASSUME \A t \in Turns : Pc(t) = "idle"
               PROVE  /\ dialog.active # NoTask => rows[RowOf(dialog.active)] = dialog.state
                      /\ \A i \in DOMAIN dialog.stack :
                            RowOf(dialog.stack[i]) # NoRow =>
                                rows[RowOf(dialog.stack[i])] = "SUSPENDED"
    BY DEF RowsFollowDialog
  <2>1. AtRest
    BY <1>1 DEF SerialInv
  <2>2. ASSUME NEW i \in DOMAIN dialog.stack, RowOf(dialog.stack[i]) # NoRow
        PROVE  rows[RowOf(dialog.stack[i])] = "SUSPENDED"
    BY <2>1, <2>2 DEF AtRest, RowOf
  <2>3. QED
    BY <2>1, <2>2 DEF AtRest, RowOf
<1>2. QED
  BY <1>1, SpecSerialInv, PTL

(***************************************************************************)
(* Where the session runs one turn at a time and none fails, the           *)
(* recorded outcome of an operation is never rewritten: save_turn, the     *)
(* expiry, the claim and the reset all leave a DONE or FAILED row as it    *)
(* is, and the executor flushes its outcome to an open row only.           *)
(***************************************************************************)
THEOREM OutcomesTheorem == ASSUME Serial PROVE Spec => OutcomesStay
<1> DEFINE Stay == \A r \in Rows : rows[r] \in Final => rows'[r] = rows[r]
<1>1. ASSUME SerialInv, [Next]_vars PROVE Stay
  <2>1. ASSUME NEW t \in Turns, Save(t) PROVE Stay
    BY <1>1, <2>1, Saves
  <2>2. ASSUME NEW t \in Turns, NEW msg \in Messages, NEW f \in Picks(Len(dialog.stack)),
               NEW retained \in Retention, Begin(t, msg, f, retained)
        PROVE  Stay
    BY <2>2 DEF Begin
  <2>3. ASSUME NEW r \in Rows, TakeRight(r) PROVE Stay
    <3>1. rows \in [Rows -> RowStatuses]
      BY <1>1 DEF SerialInv, SerialTypes
    <3>2. QED
      BY <3>1, <2>3 DEF TakeRight, Final
  <2>4. ASSUME NEW t \in Turns, Claim(t) PROVE Stay
    <3>1. Finished(t).row \in Rows
      BY <1>1, <2>4 DEF Claim, SerialInv, InTurn
    <3>2. QED
      BY <2>3, <2>4, <3>1 DEF Claim
  <2>5. ASSUME NEW t \in Turns, ClaimError(t) PROVE Stay
    <3>1. Finished(t).row \in Rows
      BY <1>1, <2>5 DEF ClaimError, SerialInv, InTurn
    <3>2. QED
      BY <2>3, <2>5, <3>1 DEF ClaimError
  <2>6. CASE Reset
    BY <2>6 DEF Reset, Final, Open
  <2>7. CASE \/ \E t \in Turns : NeedIdentity(t) \/ Refused(t) \/ Invoke(t) \/ Rollback(t)
             \/ \E r \in Rows : Age(r)
             \/ UNCHANGED vars
    <3>1. rows' = rows
      BY <2>7 DEF NeedIdentity, Refused, Invoke, Rollback, Age, vars
    <3>2. QED
      BY <3>1
  <2>8. QED
    BY <1>1, <2>1, <2>2, <2>4, <2>5, <2>6, <2>7 DEF Next, Step
<1>2. SerialInv /\ [Next]_vars => [Stay]_vars
  BY <1>1
<1>3. QED
  BY <1>2, SpecSerialInv, PTL DEF Spec, OutcomesStay

-----------------------------------------------------------------------------
(***************************************************************************)
(* The refinement.  The abstract conversation of DialogTurns decides with  *)
(* the same operators, seen through the instance; SameResolve and          *)
(* SameMessages say so, bottom up, so that the steps of the two            *)
(* specifications can be compared.                                         *)
(***************************************************************************)
LEMMA SameTasks ==
    /\ Sequential!NoSlots = NoSlots /\ Sequential!Intents = Intents
    /\ Sequential!WaitingStates = WaitingStates
    /\ \A a, b : Sequential!Merge(a, b) = Merge(a, b)
    /\ \A intent, slots : Sequential!NewTask(intent, slots) = NewTask(intent, slots)
    /\ \A task : Sequential!Content(task) = Content(task)
    /\ \A task : Sequential!NeedsRow(task) = NeedsRow(task)
    /\ \A task, tasks : Sequential!LiveRows(task, tasks) = LiveRows(task, tasks)
<1>1. Sequential!NoSlots = NoSlots /\ Sequential!Intents = Intents
      /\ Sequential!WaitingStates = WaitingStates
  BY Zenon DEF NoSlots, Sequential!NoSlots, Intents, Sequential!Intents,
     WaitingStates, Sequential!WaitingStates
<1>2. \A a, b : Sequential!Merge(a, b) = Merge(a, b)
  BY Zenon DEF Merge, Sequential!Merge
<1>3. \A intent, slots : Sequential!NewTask(intent, slots) = NewTask(intent, slots)
  BY Zenon DEF NewTask, Sequential!NewTask
<1>4. \A task : /\ Sequential!Content(task) = Content(task)
                /\ Sequential!NeedsRow(task) = NeedsRow(task)
  BY Zenon DEF Content, Sequential!Content, NeedsRow, Sequential!NeedsRow
<1>5. \A task, tasks : Sequential!LiveRows(task, tasks) = LiveRows(task, tasks)
  BY Zenon DEF LiveRows, Sequential!LiveRows, Elements, Sequential!Elements
<1>6. QED  BY <1>1, <1>2, <1>3, <1>4, <1>5

LEMMA SamePush ==
    ASSUME NEW stack
    PROVE  /\ \A tasks : Sequential!Push(stack, tasks) = Push(stack, tasks)
           /\ \A pending : Sequential!PushPending(stack, pending) = PushPending(stack, pending)
<1>1. \A tasks : Sequential!Push(stack, tasks) = Push(stack, tasks)
  BY Zenon DEF Push, Sequential!Push
<1>2. ASSUME NEW pending
      PROVE  Sequential!PushPending(stack, pending) = PushPending(stack, pending)
  <2> DEFINE tasks == [i \in DOMAIN pending |-> NewTask(pending[i].intent, pending[i].slots)]
  <2>1. Sequential!Reverse(tasks) = Reverse(tasks)
    BY DEF Reverse, Sequential!Reverse
  <2>2. Sequential!PushPending(stack, pending)
           = Sequential!Push(stack, Sequential!Reverse(tasks))
    BY Zenon DEF Sequential!PushPending, NewTask, Sequential!NewTask
  <2>3. QED  BY <1>1, <2>1, <2>2, Zenon DEF PushPending
<1>3. QED  BY <1>1, <1>2

LEMMA SameOutcomes ==
    /\ \A a, b, c, d, e, g : Sequential!Outcome(a, b, c, d, e, g) = Outcome(a, b, c, d, e, g)
    /\ \A a, b : Sequential!Fallback(a, b) = Fallback(a, b)
    /\ \A status, stack, finished, end, intent :
          Sequential!FinishTurn(status, stack, finished, end, intent)
              = FinishTurn(status, stack, finished, end, intent)
<1>1. ASSUME NEW status, NEW stack, NEW finished, NEW end, NEW intent
      PROVE  Sequential!FinishTurn(status, stack, finished, end, intent)
                 = FinishTurn(status, stack, finished, end, intent)
  BY Zenon DEF FinishTurn, Sequential!FinishTurn, Topmost, Sequential!Topmost,
     GivesUp, Sequential!GivesUp, Missing, Sequential!Missing, Waits, Sequential!Waits,
     CompleteRead, Sequential!CompleteRead, Outcome, Sequential!Outcome,
     WaitState, Sequential!WaitState, Asked, Sequential!Asked
<1>2. \A a, b, c, d, e, g : Sequential!Outcome(a, b, c, d, e, g) = Outcome(a, b, c, d, e, g)
  BY Zenon DEF Outcome, Sequential!Outcome
<1>3. \A a, b : Sequential!Fallback(a, b) = Fallback(a, b)
  BY Zenon DEF Outcome, Sequential!Outcome, Fallback, Sequential!Fallback
<1>4. QED  BY <1>1, <1>2, <1>3

LEMMA SameEvaluate ==
    ASSUME NEW task, NEW stack
    PROVE  /\ Sequential!Evaluate(task, stack) = Evaluate(task, stack)
           /\ \A slots : Sequential!Advance(task, slots, stack) = Advance(task, slots, stack)
<1>1. ASSUME NEW merged
      PROVE  Sequential!Evaluate(merged, stack) = Evaluate(merged, stack)
  <2>1. /\ Sequential!GivesUp(merged) = GivesUp(merged)
        /\ Sequential!CompleteRead(merged) = CompleteRead(merged)
        /\ Sequential!Asked(merged) = Asked(merged)
        /\ Sequential!Missing(merged) = Missing(merged)
        /\ Sequential!WaitState(merged) = WaitState(merged)
    BY Zenon DEF GivesUp, Sequential!GivesUp, Missing, Sequential!Missing,
       CompleteRead, Sequential!CompleteRead, WaitState, Sequential!WaitState,
       Asked, Sequential!Asked
  <2>2. QED  BY <2>1, SameOutcomes, Zenon DEF Evaluate, Sequential!Evaluate
<1>2. \A slots : Sequential!Advance(task, slots, stack) = Advance(task, slots, stack)
  BY <1>1, SameTasks, Zenon DEF Advance, Sequential!Advance
<1>3. QED  BY <1>1, <1>2

LEMMA SameDecisions ==
    ASSUME NEW state, NEW active, NEW stack, NEW intent, NEW slots, NEW strong
    PROVE  /\ Sequential!OnConfirm(state, active, stack) = OnConfirm(state, active, stack)
           /\ Sequential!OnDeny(state, active, stack) = OnDeny(state, active, stack)
           /\ Sequential!OnSlots(state, active, stack, slots) = OnSlots(state, active, stack, slots)
           /\ Sequential!OnUnknown(state, active, stack, slots)
                  = OnUnknown(state, active, stack, slots)
           /\ Sequential!OnRequest(state, active, stack, intent, slots, strong)
                  = OnRequest(state, active, stack, intent, slots, strong)
<1>1. Sequential!OnConfirm(state, active, stack) = OnConfirm(state, active, stack)
  BY SameOutcomes, Zenon DEF OnConfirm, Sequential!OnConfirm
<1>2. Sequential!OnDeny(state, active, stack) = OnDeny(state, active, stack)
  BY SameTasks, SameOutcomes, Zenon DEF OnDeny, Sequential!OnDeny
<1>3. Sequential!OnSlots(state, active, stack, slots) = OnSlots(state, active, stack, slots)
  BY SameEvaluate, SameOutcomes, Zenon DEF OnSlots, Sequential!OnSlots
<1>4. Sequential!OnUnknown(state, active, stack, slots) = OnUnknown(state, active, stack, slots)
  <2>1. Sequential!Evidence(active, slots) = Evidence(active, slots)
    BY Zenon DEF Evidence, Sequential!Evidence, Missing, Sequential!Missing
  <2>2. QED  BY <2>1, SameEvaluate, SameOutcomes, Zenon DEF OnUnknown, Sequential!OnUnknown
<1>5. Sequential!OnRequest(state, active, stack, intent, slots, strong)
         = OnRequest(state, active, stack, intent, slots, strong)
  <2>1. Sequential!Inherited(active, intent) = Inherited(active, intent)
    BY Zenon DEF Inherited, Sequential!Inherited
  <2>2. QED
    BY <2>1, SameEvaluate, SamePush, SameTasks, Zenon DEF OnRequest, Sequential!OnRequest
<1>6. QED  BY <1>1, <1>2, <1>3, <1>4, <1>5

LEMMA SameResolve ==
    ASSUME NEW state, NEW active, NEW stack, NEW msg
    PROVE  Sequential!Resolve(state, active, stack, msg) = Resolve(state, active, stack, msg)
BY SameDecisions, SameOutcomes, SamePush, SameTasks, Zenon DEF Resolve, Sequential!Resolve

LEMMA SameMessages ==
    /\ Sequential!Messages = Messages
    /\ \A n : Sequential!Picks(n) = Picks(n)
    /\ \A stack, f : Sequential!Surviving(stack, f) = Surviving(stack, f)
    /\ \A label, state : Sequential!Sayable(label, state) = Sayable(label, state)
    /\ \A label, state, pending :
          Sequential!CarriesPending(label, state, pending) = CarriesPending(label, state, pending)
<1>1. Sequential!Messages = Messages
  BY Zenon DEF Messages, Sequential!Messages, Labels, Sequential!Labels,
     ControlLabels, Sequential!ControlLabels, Intents, Sequential!Intents,
     SlotFillings, Sequential!SlotFillings, NoSlots, Sequential!NoSlots,
     Pendings, Sequential!Pendings
<1>2. \A n : Sequential!Picks(n) = Picks(n)
  BY Zenon DEF Picks, Sequential!Picks
<1>3. \A stack, f : Sequential!Surviving(stack, f) = Surviving(stack, f)
  BY Zenon DEF Surviving, Sequential!Surviving
<1>4. \A label, state : Sequential!Sayable(label, state) = Sayable(label, state)
  BY Zenon DEF Sayable, Sequential!Sayable, WaitingStates, Sequential!WaitingStates
<1>5. \A label, state, pending :
         Sequential!CarriesPending(label, state, pending) = CarriesPending(label, state, pending)
  BY Zenon DEF CarriesPending, Sequential!CarriesPending, Intents, Sequential!Intents
<1>6. QED  BY <1>1, <1>2, <1>3, <1>4, <1>5

(***************************************************************************)
(* Overlapping turns, whatever the ORM retains and whatever is said.  A    *)
(* turn keeps what it has decided while others commit; as long as its      *)
(* snapshot is not stale, this is what it would decide on the dialog that  *)
(* is committed now.                                                       *)
(***************************************************************************)

\* The rows that have been written, and no row: what a task may refer to.
Named == {r \in Rows : rows[r] # "NONE"} \cup {NoRow}

DialogNamed ==
    /\ dialog \in [state : States, active : Tasks \cup {NoTask}, stack : Stacks]
    /\ Armed(dialog.state, dialog.active)
    /\ Arranged(dialog.active, dialog.stack, Named, {})
    /\ dialog.active # NoTask => dialog.active.row \in Rows

\* The turn has decided what it would have decided on the committed dialog.
Decided(t) ==
    \E msg \in Messages, f \in Picks(Len(dialog.stack)), alive \in {TRUE, dialog.active = NoTask} :
        LET active == IF alive THEN dialog.active ELSE NoTask
            state == IF dialog.active # NoTask /\ ~alive /\ dialog.state \in WaitingStates
                     THEN "IDLE" ELSE dialog.state
        IN  /\ turns[t].label = msg.label
            /\ turns[t].out = Resolve(state, active, Surviving(dialog.stack, f), msg)
            /\ Sayable(msg.label, state)
            /\ CarriesPending(msg.label, state, msg.pending)

\* What may be handed to the executor: a write operation with all its slots,
\* and with a row to take the execution right of.
Executable(task) ==
    task \in Tasks /\ task.intent \in WriteIntents /\ Missing(task) = {} /\ task.row \in Rows

Executing == {"execute", "invoke", "executed"}

\* A turn in flight: unless its snapshot is stale, its decision is current.
Deciding(t) ==
    LET out == turns[t].out
    IN  /\ Arranged(out.active, out.stack, Named, {})
        /\ out.finished # NoTask => Executable(out.finished)
        /\ Pc(t) \in Executing => out.finished # NoTask
        /\ ~turns[t].stale =>
              /\ Decided(t)
              /\ turns[t].quiet =>
                    dialog = [state |-> out.state, active |-> out.active, stack |-> out.stack]

OverlapInv ==
    /\ ClaimInv /\ DialogNamed
    /\ DOMAIN turns = Turns
    /\ \A t \in Turns : /\ DOMAIN turns[t] = DOMAIN IdleTurn
                        /\ Sound(turns[t].out)
                        /\ Pc(t) # "idle" => Deciding(t)

LEMMA InitOverlapInv == Init => OverlapInv
<1> SUFFICES ASSUME Init PROVE OverlapInv
  OBVIOUS
<1>1. /\ dialog = EmptyDialog
      /\ DOMAIN turns = Turns /\ \A t \in Turns : turns[t] = IdleTurn
  BY DEF Init
<1>2. DialogNamed
  BY <1>1, ResetIsSound, NoneArranged DEF DialogNamed, EmptyDialog
<1>3. QED
  BY <1>1, <1>2, InitClaimInv, IdleIsSound DEF OverlapInv, Pc

\* A row that has been written stays written.
LEMMA NamedGrows ==
    ASSUME ClaimInv, [Next]_vars
    PROVE  Named \subseteq Named'
<1> SUFFICES ASSUME NEW r \in Rows, rows[r] # "NONE" PROVE rows'[r] # "NONE"
  BY DEF Named
<1>1. rows \in [Rows -> RowStatuses]
  BY DEF ClaimInv, RowTypes
<1>2. ASSUME NEW t \in Turns, NEW msg, NEW f, NEW retained, Begin(t, msg, f, retained)
      PROVE  rows'[r] # "NONE"
  BY <1>2 DEF Begin
<1>3. ASSUME NEW q, TakeRight(q) PROVE rows'[r] # "NONE"
  BY <1>1, <1>3 DEF TakeRight
<1>4. ASSUME NEW t \in Turns, Claim(t) \/ ClaimError(t) PROVE rows'[r] # "NONE"
  BY <1>3, <1>4 DEF Claim, ClaimError
<1>5. ASSUME NEW t \in Turns, Save(t) PROVE rows'[r] # "NONE"
  <2>1. PICK active : rows' = Synced(t, active)
    BY <1>5 DEF Save
  <2>2. AfterExecutor(t)[r] # "NONE"
    BY <1>1 DEF AfterExecutor
  <2>3. QED  BY <1>1, <2>1, <2>2, SyncedRows
<1>6. CASE Reset
  BY <1>6 DEF Reset
<1>7. CASE UNCHANGED rows
  BY <1>7
<1>8. ASSUME NEW t \in Turns, NeedIdentity(t) \/ Refused(t) \/ Invoke(t) \/ Rollback(t)
      PROVE  UNCHANGED rows
  BY <1>8 DEF NeedIdentity, Refused, Invoke, Rollback
<1>9. QED
  BY <1>2, <1>4, <1>5, <1>6, <1>7, <1>8 DEF Next, Step, Age, vars

\* A turn goes on with its decision while the dialog stays, or becomes stale.
Carried(t) ==
    \/ turns'[t] = IdleTurn
    \/ /\ DOMAIN turns'[t] = DOMAIN IdleTurn
       /\ turns'[t].label = turns[t].label /\ turns'[t].out = turns[t].out
       /\ turns'[t].quiet = turns[t].quiet
       /\ turns'[t].pc # "idle" => turns[t].pc # "idle"
       /\ turns'[t].pc \in Executing => turns[t].pc \in Executing
       /\ \/ turns'[t].stale = turns[t].stale /\ dialog' = dialog
          \/ turns'[t].pc # "idle" => turns'[t].stale

LEMMA CarriedDecides ==
    ASSUME OverlapInv, Named \subseteq Named', NEW t \in Turns, Carried(t)
    PROVE  /\ DOMAIN turns'[t] = DOMAIN IdleTurn
           /\ Sound(turns'[t].out)
           /\ Pc(t)' # "idle" => Deciding(t)'
<1>1. CASE turns'[t] = IdleTurn
  BY <1>1, IdleIsSound DEF Pc
<1>2. CASE turns'[t] # IdleTurn
  <2>1. DOMAIN turns'[t] = DOMAIN IdleTurn /\ Sound(turns'[t].out)
    BY <1>2 DEF Carried, OverlapInv
  <2>2. ASSUME Pc(t)' # "idle" PROVE Deciding(t)'
    <3>1. Deciding(t)
      BY <1>2, <2>2 DEF Carried, OverlapInv, Pc
    <3>2. /\ turns'[t].out = turns[t].out /\ turns'[t].quiet = turns[t].quiet
          /\ turns'[t].label = turns[t].label
          /\ Pc(t)' \in Executing => Pc(t) \in Executing
      BY <1>2 DEF Carried, Pc
    <3>3. Arranged(turns'[t].out.active, turns'[t].out.stack, Named', {})
      BY <3>1, <3>2, WiderArranged DEF Deciding
    <3>4. ASSUME ~turns'[t].stale
          PROVE  /\ Decided(t)'
                 /\ turns'[t].quiet =>
                       dialog' = [state |-> turns'[t].out.state, active |-> turns'[t].out.active,
                                  stack |-> turns'[t].out.stack]
      <4>1. dialog' = dialog /\ ~turns[t].stale
        BY <1>2, <2>2, <3>4 DEF Carried, Pc
      <4>2. Decided(t)'
        BY <3>1, <3>2, <4>1, Zenon DEF Deciding, Decided
      <4>3. turns[t].quiet =>
               dialog = [state |-> turns[t].out.state, active |-> turns[t].out.active,
                         stack |-> turns[t].out.stack]
        BY <3>1, <4>1 DEF Deciding
      <4>4. QED  BY <3>2, <4>1, <4>2, <4>3, Zenon
    <3>5. /\ turns'[t].out.finished # NoTask => Executable(turns'[t].out.finished)
          /\ Pc(t)' \in Executing => turns'[t].out.finished # NoTask
      BY <3>1, <3>2 DEF Deciding
    <3>6. QED
      BY <3>3, <3>4, <3>5, Zenon DEF Deciding
  <2>3. QED  BY <2>1, <2>2
<1>3. QED  BY <1>1, <1>2

\* A turn begins: it decides on the committed dialog, or what is left of it.
LEMMA BeginsDecided ==
    ASSUME OverlapInv, NEW t \in Turns, NEW msg \in Messages,
           NEW f \in Picks(Len(dialog.stack)), NEW retained \in Retention,
           Begin(t, msg, f, retained)
    PROVE  /\ Sound(turns'[t].out) /\ Deciding(t)'
           /\ \A Bad \in SUBSET (Rows \X Rows) :
                 Arranged(dialog.active, dialog.stack, Named, Bad) =>
                     Arranged(turns'[t].out.active, turns'[t].out.stack, Named, Bad)
<1> DEFINE active == IF Expired(dialog.active) THEN NoTask ELSE dialog.active
           state == IF Expired(dialog.active) /\ dialog.state \in WaitingStates
                    THEN "IDLE" ELSE dialog.state
           before == Surviving(dialog.stack, f)
           out == Resolve(state, active, before, msg)
<1>1. /\ dialog' = dialog
      /\ Sayable(msg.label, state) /\ CarriesPending(msg.label, state, msg.pending)
      /\ turns' = [turns EXCEPT ![t] =
              [pc |-> IF out.status = "CONFIRMED" THEN "execute" ELSE "save",
               label |-> msg.label, prev |-> active, result |-> "NONE", out |-> out,
               retained |-> retained, stale |-> FALSE,
               quiet |-> retained /\ SameAsLoaded(out, msg.label)]]
  BY DEF Begin
<1>2. /\ dialog.state \in States /\ dialog.active \in Tasks \cup {NoTask}
      /\ dialog.stack \in Stacks /\ Armed(dialog.state, dialog.active)
      /\ dialog.active # NoTask => dialog.active.row \in Rows
      /\ Arranged(dialog.active, dialog.stack, Named, {})
      /\ DOMAIN turns = Turns
  BY DEF OverlapInv, DialogNamed
<1>3. /\ state \in States /\ active \in Tasks \cup {NoTask} /\ Armed(state, active)
      /\ active # NoTask => active = dialog.active
  BY <1>2 DEF Armed, States, WaitingStates
<1>4. ASSUME NEW Bad \in SUBSET (Rows \X Rows),
             Arranged(dialog.active, dialog.stack, Named, Bad)
      PROVE  Arranged(out.active, out.stack, Named, Bad)
  <2>1. Arranged(dialog.active, before, Named, Bad) /\ before \in Stacks
    BY <1>2, <1>4, SurvivingArranged, SurvivingType
  <2>2. Arranged(NoTask, before, Named, Bad)
    BY <2>1, ForgottenArranged
  <2> HIDE DEF before, state, active
  <2>3. NoRow \in Named /\ Arranged(active, before, Named, Bad)
    BY <1>3, <2>1, <2>2 DEF Named
  <2>4. QED  BY <1>3, <2>1, <2>3, ResolveArranged
<1>5. /\ Sound(out)
      /\ out.finished # NoTask => Executable(out.finished)
      /\ out.status = "CONFIRMED" => out.finished # NoTask
  <2>1. before \in Stacks
    BY <1>2, SurvivingType
  <2> HIDE DEF state, active, before
  <2>2. /\ Sound(out)
        /\ out.finished # NoTask =>
              state = "CONFIRMING" /\ active # NoTask /\ out.finished = active
        /\ out.status = "CONFIRMED" => out.finished # NoTask
    BY <1>1, <1>3, <2>1, ResolveDecides
  <2> HIDE DEF out
  <2>3. QED  BY <1>2, <1>3, <2>2 DEF Armed, Executable
<1>6. /\ turns'[t].out = out /\ turns'[t].label = msg.label
      /\ turns'[t].pc = IF out.status = "CONFIRMED" THEN "execute" ELSE "save"
      /\ turns'[t].stale = FALSE
      /\ turns'[t].quiet = (retained /\ SameAsLoaded(out, msg.label))
  <2> HIDE DEF out, active
  <2>1. QED  BY <1>1, <1>2
<1>7. Pc(t)' \in Executing => out.finished # NoTask
  BY <1>5, <1>6 DEF Pc, Executing
<1>8. turns'[t].quiet =>
         dialog' = [state |-> out.state, active |-> out.active, stack |-> out.stack]
  <2> HIDE DEF out
  <2>1. QED  BY <1>1, <1>6 DEF SameAsLoaded
<1>9. Decided(t)'
  <2>1. CASE dialog.active = NoTask
    <3>1. active = NoTask /\ state = dialog.state
      BY <1>2, <2>1 DEF Armed
    <3>2. /\ Sayable(msg.label, dialog.state)
          /\ CarriesPending(msg.label, dialog.state, msg.pending)
          /\ out = Resolve(dialog.state, dialog.active, before, msg)
      BY <1>1, <2>1, <3>1
    <3> HIDE DEF active, state, out
    <3>3. QED
      BY <1>1, <1>6, <3>2 DEF Decided
  <2>2. CASE dialog.active # NoTask
    <3>1. PICK alive \in BOOLEAN : alive = ~Expired(dialog.active)
      OBVIOUS
    <3>2. /\ alive \in {TRUE, dialog.active = NoTask}
          /\ active = IF alive THEN dialog.active ELSE NoTask
          /\ state = IF dialog.active # NoTask /\ ~alive /\ dialog.state \in WaitingStates
                     THEN "IDLE" ELSE dialog.state
      BY <2>2, <3>1
    <3> HIDE DEF active, state, before
    <3>3. QED
      BY <1>1, <1>6, <3>2 DEF Decided, before
  <2>3. QED  BY <2>1, <2>2
<1>10. Arranged(out.active, out.stack, Named', {})
  <2>1. Named \subseteq Named'
    BY NamedGrows DEF OverlapInv, Next, Step
  <2>2. {} \in SUBSET (Rows \X Rows)
    OBVIOUS
  <2> HIDE DEF out
  <2>3. QED  BY <1>2, <1>4, <2>1, <2>2, WiderArranged
<1> HIDE DEF out
<1>11. QED
  BY <1>4, <1>5, <1>6, <1>7, <1>8, <1>9, <1>10 DEF Deciding

LEMMA SavesOverlap ==
    ASSUME OverlapInv, NEW t \in Turns, Save(t)
    PROVE  /\ DialogNamed'
           /\ DOMAIN turns' = Turns /\ \A u \in Turns : Carried(u)
<1> DEFINE out == turns[t].out
<1>1. Deciding(t) /\ Sound(out) /\ DialogNamed /\ DOMAIN turns = Turns
      /\ DOMAIN IdleTurn = {"pc", "label", "prev", "result", "out", "retained", "quiet", "stale"}
      /\ \A u \in Turns : DOMAIN turns[u] = DOMAIN IdleTurn
  BY DEF Save, OverlapInv, Pc, IdleTurn
<1>2. Named \subseteq Named'
  BY NamedGrows DEF OverlapInv, Next
<1>3. PICK active \in Saved(out.active) :
         /\ \/ /\ dialog' = [state |-> out.state, active |-> active, stack |-> out.stack]
               /\ turns' = StaleBut(t)
            \/ turns[t].quiet /\ dialog' = dialog /\ turns' = [turns EXCEPT ![t] = IdleTurn]
         /\ rows' = Synced(t, active)
  BY DEF Save
<1>5. /\ out.state \in States /\ out.active \in Tasks \cup {NoTask} /\ out.stack \in Stacks
      /\ Armed(out.state, out.active)
  BY <1>1 DEF Sound, Outcomes
<1>6. CASE /\ dialog' = [state |-> out.state, active |-> active, stack |-> out.stack]
           /\ turns' = StaleBut(t)
  <2>1. /\ active \in Tasks \cup {NoTask} /\ (active = NoTask <=> out.active = NoTask)
        /\ out.active # NoTask => /\ active.intent = out.active.intent
                                  /\ active.slots = out.active.slots
                                  /\ active.row \in Rows
    BY <1>5, SavedTask
  <2>2. Armed(out.state, active)
    BY <1>5, <2>1 DEF Armed, Missing
  <2>3. ASSUME active # NoTask PROVE active.row \in Rows /\ active.row \in Named'
    <3>1. active.row \in Rows /\ rows \in [Rows -> RowStatuses]
      BY <2>1, <2>3 DEF OverlapInv, ClaimInv, RowTypes
    <3>2. rows'[active.row] # "NONE"
      BY <1>3, <2>3, <3>1, SyncedRows DEF Final
    <3>3. QED  BY <3>1, <3>2 DEF Named
  <2>4. Arranged(active, out.stack, Named', {})
    <3>1. \A k \in DOMAIN out.stack : out.stack[k].row \in Named'
      BY <1>1, <1>2 DEF Deciding, Arranged
    <3>2. QED  BY <2>3, <3>1 DEF Arranged
  <2>6. DialogNamed'
    <3>1. /\ dialog'.state = out.state /\ dialog'.active = active /\ dialog'.stack = out.stack
          /\ dialog' \in [state : States, active : Tasks \cup {NoTask}, stack : Stacks]
      BY <1>5, <1>6, <2>1
    <3> HIDE DEF out
    <3>2. QED  BY <2>2, <2>3, <2>4, <3>1 DEF DialogNamed
  <2>7. /\ DOMAIN turns' = Turns
        /\ \A u \in Turns : turns'[u] = IF u = t THEN IdleTurn
                                        ELSE [turns[u] EXCEPT !.stale = turns[u].pc # "idle"]
    BY <1>6 DEF StaleBut
  <2>8. ASSUME NEW u \in Turns PROVE Carried(u)
    <3>1. CASE u = t
      BY <2>7, <3>1 DEF Carried
    <3>2. CASE u # t
      <4>1. turns'[u] = [turns[u] EXCEPT !.stale = turns[u].pc # "idle"]
        BY <2>7, <3>2
      <4>2. DOMAIN turns[u] = {"pc", "label", "prev", "result", "out", "retained", "quiet", "stale"}
        BY <1>1
      <4>3. QED  BY <1>1, <4>1, <4>2 DEF Carried
    <3>3. QED  BY <3>1, <3>2
  <2>9. QED  BY <2>6, <2>7, <2>8
<1>7. CASE turns[t].quiet /\ dialog' = dialog /\ turns' = [turns EXCEPT ![t] = IdleTurn]
  <2>2. DialogNamed'
    BY <1>1, <1>2, <1>7, WiderArranged DEF DialogNamed
  <2>3. DOMAIN turns' = Turns
        /\ \A u \in Turns : turns'[u] = IF u = t THEN IdleTurn ELSE turns[u]
    BY <1>1, <1>7
  <2>4. QED  BY <1>1, <1>7, <2>2, <2>3 DEF Carried
<1>8. QED  BY <1>3, <1>6, <1>7

\* The executor goes on with the decision of its turn.
LEMMA ProceedsCarried ==
    ASSUME OverlapInv, NEW t \in Turns,
           NeedIdentity(t) \/ Claim(t) \/ ClaimError(t) \/ Refused(t) \/ Invoke(t)
    PROVE  DOMAIN turns' = Turns /\ \A u \in Turns : Carried(u)
<1>1. DOMAIN turns = Turns /\ \A u \in Turns : DOMAIN turns[u] = DOMAIN IdleTurn
  BY DEF OverlapInv
<1>2. DOMAIN IdleTurn = {"pc", "label", "prev", "result", "out", "retained", "quiet", "stale"}
  BY DEF IdleTurn
<1>3. turns[t].pc \in Executing /\ turns[t].pc # "idle" /\ dialog' = dialog
  BY DEF NeedIdentity, Claim, ClaimError, Refused, Invoke, Executing, Pc
<1>4. PICK pc, result : \/ turns' = [turns EXCEPT ![t].pc = pc, ![t].result = result]
                        \/ turns' = [turns EXCEPT ![t].pc = pc]
  BY DEF NeedIdentity, Claim, ClaimError, Refused, Invoke
<1>5. /\ DOMAIN turns' = Turns
      /\ \A u \in Turns \ {t} : turns'[u] = turns[u]
      /\ \/ turns'[t] = [turns[t] EXCEPT !.pc = pc, !.result = result]
         \/ turns'[t] = [turns[t] EXCEPT !.pc = pc]
  BY <1>1, <1>4
<1>6. Carried(t)
  BY <1>1, <1>2, <1>3, <1>5 DEF Carried
<1>7. QED  BY <1>1, <1>3, <1>5, <1>6 DEF Carried

\* The others go on with theirs when one is rolled back.
LEMMA RollbackCarried ==
    ASSUME OverlapInv, NEW t \in Turns, Rollback(t)
    PROVE  DOMAIN turns' = Turns /\ \A u \in Turns : Carried(u)
<1>1. /\ dialog' = dialog /\ DOMAIN turns' = Turns
      /\ \A u \in Turns : turns'[u] = IF u = t THEN IdleTurn ELSE turns[u]
  BY DEF Rollback, OverlapInv
<1>2. QED  BY <1>1 DEF Carried, OverlapInv

\* A reset makes every turn in flight stale.
LEMMA ResetCarried ==
    ASSUME OverlapInv, Reset
    PROVE  DOMAIN turns' = Turns /\ \A u \in Turns : Carried(u)
<1>1. /\ DOMAIN turns' = Turns
      /\ \A u \in Turns : turns'[u] = [turns[u] EXCEPT !.stale = turns[u].pc # "idle"]
  BY DEF Reset
<1>2. ASSUME NEW u \in Turns PROVE Carried(u)
  <2>1. DOMAIN turns[u] = {"pc", "label", "prev", "result", "out", "retained", "quiet", "stale"}
        /\ DOMAIN turns[u] = DOMAIN IdleTurn
    BY DEF OverlapInv, IdleTurn
  <2>2. turns'[u] = [turns[u] EXCEPT !.stale = turns[u].pc # "idle"]
    BY <1>1
  <2>3. QED  BY <2>1, <2>2 DEF Carried
<1>3. QED  BY <1>1, <1>2

LEMMA NextOverlapInv ==
    ASSUME OverlapInv, [Next]_vars
    PROVE  OverlapInv'
<1>1. /\ ClaimInv' /\ Named \subseteq Named'
      /\ DialogNamed /\ DOMAIN turns = Turns
      /\ \A u \in Turns : DOMAIN turns[u] = DOMAIN IdleTurn
  BY StepClaimInv, NamedGrows DEF OverlapInv
<1>2. DOMAIN IdleTurn = {"pc", "label", "prev", "result", "out", "retained", "quiet", "stale"}
  BY DEF IdleTurn
<1>3. ASSUME dialog' = dialog PROVE DialogNamed'
  BY <1>1, <1>3, WiderArranged DEF DialogNamed
<1>4. ASSUME DialogNamed', DOMAIN turns' = Turns, \A u \in Turns : Carried(u)
      PROVE  OverlapInv'
  BY <1>1, <1>4, CarriedDecides DEF OverlapInv
<1>5. ASSUME NEW t \in Turns, Save(t) PROVE OverlapInv'
  BY <1>4, <1>5, SavesOverlap
<1>6. ASSUME NEW t \in Turns, NEW msg \in Messages, NEW f \in Picks(Len(dialog.stack)),
             NEW retained \in Retention, Begin(t, msg, f, retained)
      PROVE  OverlapInv'
  <2>1. Sound(turns'[t].out) /\ Deciding(t)' /\ dialog' = dialog
    BY <1>6, BeginsDecided DEF Begin
  <2>2. PICK new : DOMAIN new = DOMAIN IdleTurn /\ turns' = [turns EXCEPT ![t] = new]
    BY <1>6, <1>2 DEF Begin
  <2>3. /\ DOMAIN turns' = Turns /\ turns'[t] = new
        /\ \A u \in Turns \ {t} : turns'[u] = turns[u]
    BY <1>1, <2>2
  <2>4. \A u \in Turns \ {t} : Carried(u)
    BY <1>1, <2>1, <2>3 DEF Carried
  <2>5. ASSUME NEW u \in Turns
        PROVE  /\ DOMAIN turns'[u] = DOMAIN IdleTurn /\ Sound(turns'[u].out)
               /\ Pc(u)' # "idle" => Deciding(u)'
    <3>1. CASE u = t
      BY <2>1, <2>2, <2>3, <3>1
    <3>2. CASE u # t
      BY <1>1, <2>4, <3>2, CarriedDecides
    <3>3. QED  BY <3>1, <3>2
  <2>6. DialogNamed'
    BY <1>3, <2>1
  <2>7. QED  BY <1>1, <2>3, <2>5, <2>6 DEF OverlapInv
<1>7. ASSUME NEW t \in Turns,
             NeedIdentity(t) \/ Claim(t) \/ ClaimError(t) \/ Refused(t) \/ Invoke(t)
      PROVE  OverlapInv'
  <2>1. dialog' = dialog
    BY <1>7 DEF NeedIdentity, Claim, ClaimError, Refused, Invoke
  <2>2. QED  BY <1>3, <1>4, <1>7, <2>1, ProceedsCarried
<1>8. ASSUME NEW t \in Turns, Rollback(t) PROVE OverlapInv'
  <2>1. dialog' = dialog
    BY <1>8 DEF Rollback
  <2>2. QED  BY <1>3, <1>4, <1>8, <2>1, RollbackCarried
<1>9. CASE Reset
  <2>1. dialog' = EmptyDialog
    BY <1>9 DEF Reset
  <2>2. Arranged(NoTask, <<>>, Named', {})
    BY NoneArranged
  <2>3. DialogNamed'
    BY <2>1, <2>2, ResetIsSound DEF DialogNamed, EmptyDialog
  <2>4. QED  BY <1>4, <1>9, <2>3, ResetCarried
<1>10. CASE (\E r \in Rows : Age(r)) \/ UNCHANGED vars
  <2>1. dialog' = dialog /\ turns' = turns
    BY <1>10 DEF Age, vars
  <2>2. \A u \in Turns : Carried(u)
    BY <1>1, <2>1 DEF Carried
  <2>3. QED  BY <1>1, <1>3, <1>4, <2>1, <2>2
<1>11. QED
  BY <1>5, <1>6, <1>7, <1>8, <1>9, <1>10 DEF Next, Step

\* Saving a turn whose snapshot is current is a turn of the conversation.
LEMMA SaveIsTurn ==
    ASSUME OverlapInv, NEW t \in Turns, Save(t), ~turns[t].stale, ~human,
           last' = Committed(t)
    PROVE  Sequential!SomeTurn
<1> DEFINE out == turns[t].out
<1>1. Deciding(t) /\ ~human /\ Decided(t) /\ DialogNamed
  BY DEF Save, OverlapInv, Deciding, Pc
<1>2. PICK msg \in Messages, f \in Picks(Len(dialog.stack)), alive \in {TRUE, dialog.active = NoTask} :
         LET active == IF alive THEN dialog.active ELSE NoTask
             state == IF dialog.active # NoTask /\ ~alive /\ dialog.state \in WaitingStates
                      THEN "IDLE" ELSE dialog.state
         IN  /\ turns[t].label = msg.label
             /\ out = Resolve(state, active, Surviving(dialog.stack, f), msg)
             /\ Sayable(msg.label, state)
             /\ CarriesPending(msg.label, state, msg.pending)
  BY <1>1 DEF Decided
<1>3. PICK active \in Saved(out.active) :
         \/ dialog' = [state |-> out.state, active |-> active, stack |-> out.stack]
         \/ turns[t].quiet /\ dialog' = dialog
  BY DEF Save
<1>4. human' = (out.state = "HANDOFF" \/ out.intent = "PAYMENT")
  BY <1>1 DEF Save
<1>5. dialog'.state = out.state /\ dialog'.stack = out.stack
  BY <1>1, <1>3 DEF Deciding
<1>6. dialog'.active \in Sequential!Saved(out.active)
  <2>1. CASE dialog' = [state |-> out.state, active |-> active, stack |-> out.stack]
    <3>1. dialog'.active = active
      BY <2>1
    <3>2. CASE ~NeedsRow(out.active)
      BY <3>1, <3>2, SameTasks, Zenon DEF Saved, Sequential!Saved
    <3>3. CASE NeedsRow(out.active)
      <4>1. PICK r \in Rows : active = [out.active EXCEPT !.row = r] /\ rows[r] = "NONE"
        BY <3>3 DEF Saved
      <4>2. r \notin Named
        BY <4>1, NotARow DEF Named
      <4>3. r \notin LiveRows(dialog.active, dialog.stack)
        <5>1. LiveRows(dialog.active, dialog.stack) \subseteq Named
          BY <1>1 DEF DialogNamed, Arranged, LiveRows, Elements
        <5>2. QED  BY <4>2, <5>1
      <4>4. Sequential!Saved(out.active)
               = {[out.active EXCEPT !.row = q] :
                     q \in Rows \ LiveRows(dialog.active, dialog.stack)}
        BY <3>3, SameTasks, Zenon DEF Sequential!Saved
      <4>5. QED  BY <3>1, <4>1, <4>3, <4>4
    <3>4. QED  BY <3>2, <3>3
  <2>2. CASE turns[t].quiet /\ dialog' = dialog
    <3>1. dialog'.active = out.active /\ dialog.active = out.active
      BY <1>1, <2>2 DEF Deciding
    <3>2. ~NeedsRow(out.active)
      BY <1>1, <3>1, NotARow DEF DialogNamed, NeedsRow
    <3>3. QED  BY <3>1, <3>2, SameTasks, Zenon DEF Sequential!Saved
  <2>3. QED  BY <1>3, <2>1, <2>2
<1>7. /\ last'.shown = Sequential!Shown(out, msg.label)
      /\ [label |-> last'.label, finished |-> last'.finished]
            = [label |-> msg.label, finished |-> out.finished]
  <2>1. last' = [label |-> msg.label, finished |-> out.finished, shown |-> Shown(out, msg.label)]
    BY <1>2 DEF Committed
  <2>2. Shown(out, msg.label) = Sequential!Shown(out, msg.label)
    BY SameTasks, Zenon DEF Shown, Sequential!Shown
  <2>3. QED  BY <2>1, <2>2
<1> HIDE DEF out
<1>8. Sequential!Turn(msg, alive, f)
  <2> DEFINE now == Sequential!Loaded(alive)
             active0 == IF alive THEN dialog.active ELSE NoTask
             state0 == IF dialog.active # NoTask /\ ~alive /\ dialog.state \in WaitingStates
                       THEN "IDLE" ELSE dialog.state
  <2>1. now.state = state0 /\ now.active = active0
    BY SameTasks DEF Sequential!Loaded
  <2> HIDE DEF now
  <2>2. /\ out = Sequential!Resolve(now.state, now.active,
                                    Sequential!Surviving(dialog.stack, f), msg)
        /\ Sequential!Sayable(msg.label, now.state)
        /\ Sequential!CarriesPending(msg.label, now.state, msg.pending)
    <3>1. /\ out = Resolve(state0, active0, Surviving(dialog.stack, f), msg)
          /\ Sayable(msg.label, state0) /\ CarriesPending(msg.label, state0, msg.pending)
      BY <1>2
    <3> HIDE DEF state0, active0
    <3>2. QED  BY <2>1, <3>1, SameResolve, SameMessages, Zenon
  <2>3. QED
    BY <1>1, <1>4, <1>5, <1>6, <1>7, <2>2, Zenon DEF Sequential!Turn, now
<1>9. QED
  BY <1>8, SameMessages DEF Sequential!SomeTurn

\* Every step of overlapping turns is a step of the conversation, or none, or
\* the save of a turn that has been overtaken.
LEMMA StepRefines ==
    ASSUME OverlapInv, [HNext]_hvars
    PROVE  [Sequential!Next \/ \E t \in Turns : Overtaken(t)]_(Sequential!vars)
<1>1. ASSUME dialog' = dialog, human' = human, last' = last
      PROVE  UNCHANGED Sequential!vars
  BY <1>1 DEF Sequential!vars
<1>2. ASSUME NEW t \in Turns, Save(t), last' = IF Superseded(t) THEN last ELSE Committed(t)
      PROVE  Sequential!Next \/ Overtaken(t)
  <2>1. CASE turns[t].stale \/ human
    BY <1>2, <2>1 DEF Overtaken
  <2>2. CASE ~turns[t].stale /\ ~human
    BY <1>2, <2>2, SaveIsTurn DEF Superseded, Sequential!Next
  <2>3. QED  BY <2>1, <2>2
<1>3. ASSUME Reset, last' = NoneYet PROVE Sequential!Reset
  BY <1>3 DEF Reset, Sequential!Reset, EmptyDialog, NoneYet
<1>4. ASSUME NEW t \in Turns, Step(t), last' = last PROVE UNCHANGED Sequential!vars
  BY <1>1, <1>4 DEF Step, Begin, NeedIdentity, Claim, ClaimError, Refused, Invoke, Rollback
<1>5. ASSUME NEW r \in Rows, Age(r), last' = last PROVE UNCHANGED Sequential!vars
  BY <1>1, <1>5 DEF Age
<1>6. ASSUME UNCHANGED hvars PROVE UNCHANGED Sequential!vars
  BY <1>1, <1>6 DEF hvars, vars
<1>7. QED
  BY <1>2, <1>3, <1>4, <1>5, <1>6 DEF HNext, Sequential!Next

LEMMA OverlapInvariant == HSpec => []OverlapInv
<1>1. HInit => OverlapInv
  BY InitOverlapInv DEF HInit
<1>2. OverlapInv /\ [HNext]_hvars => OverlapInv'
  <2>1. [HNext]_hvars => [Next]_vars
    BY DEF HNext, Next, hvars
  <2>2. QED  BY <2>1, NextOverlapInv
<1>3. QED  BY <1>1, <1>2, PTL DEF HSpec

(***************************************************************************)
(* Where a session leaves the sequential conversation: with any number of  *)
(* turns in flight, in any order, with rollbacks and crashes between their *)
(* transactions, resets under them and whatever the ORM retains, a commit  *)
(* is one turn of the conversation on the dialog the commit before it left *)
(* behind, unless it saves a turn that another commit has passed.  Nothing *)
(* but the save of such a turn (save_turn.py:263-271, whose version check  *)
(* may see the wrong version or none) can lose an update.                  *)
(***************************************************************************)
THEOREM SequentialTheorem == HSpec => SequentialUnlessOvertaken
<1>1. HInit => Sequential!Init
  BY DEF HInit, Init, EmptyDialog, NoneYet, Sequential!Init
<1>2. OverlapInv /\ [HNext]_hvars =>
         [Sequential!Next \/ \E t \in Turns : Overtaken(t)]_(Sequential!vars)
  BY StepRefines
<1>3. QED
  BY <1>1, <1>2, OverlapInvariant, PTL DEF HSpec, SequentialUnlessOvertaken

(***************************************************************************)
(* What survives a lost update.  Every operation the executor is given, by *)
(* a turn that is overtaken too, is a write with all its slots and a row   *)
(* whose execution right it has to take (executor.py).                     *)
(***************************************************************************)
OnlyCompleteWrites ==
    \A t \in Turns : Pc(t) \in Executing => Executable(Finished(t))

(***************************************************************************)
(* However turns overlap and whichever of them commits, no write tool runs *)
(* for a task with a missing slot or for one without a row of its own.     *)
(***************************************************************************)
THEOREM CompleteTheorem == HSpec => []OnlyCompleteWrites
<1>1. OverlapInv => OnlyCompleteWrites
  BY DEF OverlapInv, Deciding, OnlyCompleteWrites, Finished, Executing
<1>2. QED  BY <1>1, OverlapInvariant, PTL

-----------------------------------------------------------------------------
(***************************************************************************)
(* The order of the tasks.  The committed dialog and every turn in flight  *)
(* hold some of the tasks of the session in some order, the current task   *)
(* on top.  No two of them disagree on the order of two rows, although a   *)
(* turn that is overtaken brings back a dialog that has been left: a task  *)
(* gets its row when it is saved as the current one, above all the others. *)
(***************************************************************************)
Below(active, stack) ==
    {p \in Rows \X Rows :
        \/ \E k, l \in DOMAIN stack : k < l /\ p = <<stack[k].row, stack[l].row>>
        \/ active # NoTask /\ \E k \in DOMAIN stack : p = <<stack[k].row, active.row>>}

\* The committed dialog, and what the turns in flight want to make of it.
Views == {<<dialog.active, dialog.stack>>}
         \cup {<<turns[t].out.active, turns[t].out.stack>> : t \in {u \in Turns : Pc(u) # "idle"}}

Agree(one, other) ==
    \A r, s \in Rows : <<r, s>> \in Below(one[1], one[2]) =>
                             <<s, r>> \notin Below(other[1], other[2])

OrderInv == OverlapInv /\ \A one, other \in Views : Agree(one, other)

\* What is arranged by every order that arranges a view has no order of its own.
LEMMA ArrangedBelow ==
    ASSUME NEW one, NEW tasks, NEW other, NEW others, NEW R,
           Arranged(one, tasks, R, {}),
           \A Bad \in SUBSET (Rows \X Rows) :
               Arranged(one, tasks, R, Bad) => Arranged(other, others, R, Bad)
    PROVE  Below(other, others) \subseteq Below(one, tasks)
<1> DEFINE Bad == (Rows \X Rows) \ Below(one, tasks)
<1>1. Arranged(one, tasks, R, Bad)
  <2>1. ASSUME NEW k \in DOMAIN tasks, NEW l \in DOMAIN tasks, k < l
        PROVE  <<tasks[k].row, tasks[l].row>> \notin Bad
    BY <2>1 DEF Below
  <2>2. ASSUME one # NoTask, NEW k \in DOMAIN tasks
        PROVE  <<tasks[k].row, one.row>> \notin Bad
    BY <2>2 DEF Below
  <2> HIDE DEF Bad
  <2>3. QED  BY <2>1, <2>2 DEF Arranged
<1>2. Arranged(other, others, R, Bad)
  BY <1>1
<1>3. ASSUME NEW p \in Below(other, others) PROVE p \notin Bad
  <2> HIDE DEF Bad
  <2>1. QED  BY <1>2 DEF Arranged, Below
<1>4. QED  BY <1>3 DEF Below

\* The rows that are ordered have been written.
LEMMA BelowNamed ==
    ASSUME NEW active, NEW stack, Arranged(active, stack, Named, {})
    PROVE  Below(active, stack) \subseteq Named \X Named
BY DEF Arranged, Below

LEMMA ViewsNamed ==
    ASSUME OverlapInv, NEW view \in Views
    PROVE  Below(view[1], view[2]) \subseteq Named \X Named
<1>1. Arranged(view[1], view[2], Named, {})
  BY DEF Views, OverlapInv, DialogNamed, Deciding
<1>2. QED  BY <1>1, BelowNamed

\* A step adds nothing to the order but a row that no task has had, on top.
OrderGrows(New) ==
    \A view \in Views' : \E known \in Views :
        Below(view[1], view[2]) \subseteq Below(known[1], known[2]) \cup (Named \X New)

\* Every view of the next state is one of this state.
LEMMA SameViews ==
    ASSUME \A view \in Views' : \E known \in Views : Below(view[1], view[2]) \subseteq Below(known[1], known[2])
    PROVE  OrderGrows({})
BY DEF OrderGrows

LEMMA CarriedViews ==
    ASSUME NEW t \in Turns, Carried(t), Pc(t)' # "idle"
    PROVE  /\ <<turns'[t].out.active, turns'[t].out.stack>> \in Views
           /\ Pc(t) # "idle" /\ turns'[t].out = turns[t].out
<1>1. turns'[t] # IdleTurn
  BY DEF Pc, IdleTurn
<1>2. Pc(t) # "idle" /\ turns'[t].out = turns[t].out
  BY <1>1 DEF Carried, Pc
<1>3. QED  BY <1>2 DEF Views

LEMMA EmptyBelow == Below(NoTask, <<>>) = {}
BY DEF Below

\* A turn that is saved puts at most one row above the others, a new one.
LEMMA SaveOrders ==
    ASSUME OverlapInv, NEW t \in Turns, Save(t)
    PROVE  \E New : New \cap Named = {} /\ OrderGrows(New)
<1> DEFINE out == turns[t].out
<1>1. /\ Pc(t) # "idle" /\ Deciding(t) /\ out.active \in Tasks \cup {NoTask}
      /\ \A u \in Turns : Carried(u)
  BY SavesOverlap DEF Save, OverlapInv, Pc, Sound, Outcomes
<1>2. PICK active \in Saved(out.active) :
         \/ dialog' = [state |-> out.state, active |-> active, stack |-> out.stack]
         \/ dialog' = dialog
  BY DEF Save
<1>3. <<out.active, out.stack>> \in Views /\ <<dialog.active, dialog.stack>> \in Views
  BY <1>1 DEF Views
<1>4. \A k \in DOMAIN out.stack : out.stack[k].row \in Named
  BY <1>1 DEF Deciding, Arranged
<1> DEFINE New == IF NeedsRow(out.active) THEN {active.row} ELSE {}
<1>5. New \cap Named = {}
  <2>1. CASE NeedsRow(out.active)
    <3>1. out.active \in Tasks
      BY <1>1, <2>1 DEF NeedsRow
    <3>2. PICK r \in Rows : active = [out.active EXCEPT !.row = r] /\ rows[r] = "NONE"
      BY <2>1 DEF Saved
    <3>3. active.row = r /\ r \notin Named
      BY <3>1, <3>2, NotARow DEF Tasks, Named
    <3>4. QED  BY <2>1, <3>3
  <2>2. QED  BY <2>1
<1>6. Below(active, out.stack) \subseteq Below(out.active, out.stack) \cup (Named \X New)
  <2> HIDE DEF out
  <2>1. CASE ~NeedsRow(out.active)
    <3>1. active = out.active
      BY <2>1 DEF Saved
    <3>2. QED  BY <3>1
  <2>2. CASE NeedsRow(out.active)
    BY <1>4, <2>2 DEF Below
  <2>3. QED  BY <2>1, <2>2
<1>7. ASSUME NEW view \in Views'
      PROVE  \E known \in Views :
                Below(view[1], view[2]) \subseteq Below(known[1], known[2]) \cup (Named \X New)
  <2> HIDE DEF New, out
  <2>1. CASE view = <<dialog'.active, dialog'.stack>>
    <3>1. CASE dialog' = dialog
      BY <1>3, <2>1, <3>1
    <3>2. CASE dialog' = [state |-> out.state, active |-> active, stack |-> out.stack]
      BY <1>3, <1>6, <2>1, <3>2
    <3>3. QED  BY <1>2, <3>1, <3>2
  <2>2. CASE \E u \in Turns : Pc(u)' # "idle" /\ view = <<turns'[u].out.active, turns'[u].out.stack>>
    BY <1>1, <2>2, CarriedViews
  <2>3. QED  BY <2>1, <2>2 DEF Views
<1>8. OrderGrows(New)
  BY <1>7 DEF OrderGrows
<1>9. QED
  <2> HIDE DEF New
  <2>1. QED  BY <1>5, <1>8

\* A turn that begins orders what it keeps as the committed dialog does.
LEMMA BeginOrders ==
    ASSUME OverlapInv, NEW t \in Turns, NEW msg \in Messages,
           NEW f \in Picks(Len(dialog.stack)), NEW retained \in Retention,
           Begin(t, msg, f, retained)
    PROVE  OrderGrows({})
<1>1. dialog' = dialog /\ Arranged(dialog.active, dialog.stack, Named, {})
  BY DEF Begin, OverlapInv, DialogNamed
<1>2. Below(turns'[t].out.active, turns'[t].out.stack) \subseteq Below(dialog.active, dialog.stack)
  <2>1. \A Bad \in SUBSET (Rows \X Rows) :
           Arranged(dialog.active, dialog.stack, Named, Bad) =>
               Arranged(turns'[t].out.active, turns'[t].out.stack, Named, Bad)
    BY BeginsDecided
  <2>2. QED  BY <1>1, <2>1, ArrangedBelow
<1>3. \A u \in Turns \ {t} : turns'[u] = turns[u]
  <2>1. PICK new : turns' = [turns EXCEPT ![t] = new]
    BY DEF Begin
  <2>2. QED  BY <2>1 DEF OverlapInv
<1>4. ASSUME NEW view \in Views'
      PROVE  \E known \in Views : Below(view[1], view[2]) \subseteq Below(known[1], known[2])
  <2>1. CASE view = <<dialog.active, dialog.stack>>
    BY <2>1 DEF Views
  <2>2. CASE view = <<turns'[t].out.active, turns'[t].out.stack>>
    <3>1. <<dialog.active, dialog.stack>> \in Views
      BY DEF Views
    <3>2. Below(view[1], view[2]) \subseteq Below(dialog.active, dialog.stack)
      BY <1>2, <2>2
    <3>3. QED  BY <3>1, <3>2
  <2>3. ASSUME NEW u \in Turns \ {t}, Pc(u)' # "idle",
               view = <<turns'[u].out.active, turns'[u].out.stack>>
        PROVE  view \in Views
    BY <1>3, <2>3 DEF Views, Pc
  <2>4. QED  BY <1>1, <2>1, <2>2, <2>3 DEF Views
<1>5. QED  BY <1>4, SameViews

\* Every other step leaves the views as they are, or drops some.
LEMMA OtherOrders ==
    ASSUME OverlapInv, \A u \in Turns : Carried(u),
           dialog' = dialog \/ dialog' = EmptyDialog
    PROVE  OrderGrows({})
<1>1. ASSUME NEW view \in Views'
      PROVE  \E known \in Views : Below(view[1], view[2]) \subseteq Below(known[1], known[2])
  <2>1. CASE view = <<dialog'.active, dialog'.stack>>
    <3>1. CASE dialog' = dialog
      BY <2>1, <3>1 DEF Views
    <3>2. CASE dialog' = EmptyDialog
      <4>1. view[1] = NoTask /\ view[2] = <<>>
        BY <2>1, <3>2 DEF EmptyDialog
      <4>2. Below(view[1], view[2]) = {}
        BY <4>1, EmptyBelow
      <4>3. QED  BY <4>2 DEF Views
    <3>3. QED  BY <3>1, <3>2
  <2>2. CASE \E u \in Turns : Pc(u)' # "idle" /\ view = <<turns'[u].out.active, turns'[u].out.stack>>
    BY <2>2, CarriedViews
  <2>3. QED  BY <2>1, <2>2 DEF Views
<1>2. QED  BY <1>1, SameViews

LEMMA StepOrders ==
    ASSUME OverlapInv, [Next]_vars
    PROVE  \E New : New \cap Named = {} /\ OrderGrows(New)
<1>1. ASSUME OrderGrows({}) PROVE \E New : New \cap Named = {} /\ OrderGrows(New)
  BY <1>1
<1>2. ASSUME NEW t \in Turns, Save(t) PROVE \E New : New \cap Named = {} /\ OrderGrows(New)
  BY <1>2, SaveOrders
<1>3. ASSUME NEW t \in Turns, NEW msg \in Messages, NEW f \in Picks(Len(dialog.stack)),
             NEW retained \in Retention, Begin(t, msg, f, retained)
      PROVE  OrderGrows({})
  BY <1>3, BeginOrders
<1>4. ASSUME NEW t \in Turns,
             NeedIdentity(t) \/ Claim(t) \/ ClaimError(t) \/ Refused(t) \/ Invoke(t)
      PROVE  OrderGrows({})
  BY <1>4, ProceedsCarried, OtherOrders DEF NeedIdentity, Claim, ClaimError, Refused, Invoke
<1>5. ASSUME NEW t \in Turns, Rollback(t) PROVE OrderGrows({})
  BY <1>5, RollbackCarried, OtherOrders DEF Rollback
<1>6. CASE Reset
  BY <1>1, <1>6, ResetCarried, OtherOrders DEF Reset
<1>7. CASE (\E r \in Rows : Age(r)) \/ UNCHANGED vars
  <2>1. dialog' = dialog /\ turns' = turns
    BY <1>7 DEF Age, vars
  <2>2. \A u \in Turns : Carried(u)
    BY <2>1 DEF Carried, OverlapInv
  <2>3. QED  BY <1>1, <2>1, <2>2, OtherOrders
<1>8. QED
  BY <1>1, <1>2, <1>3, <1>4, <1>5, <1>6, <1>7 DEF Next, Step

LEMMA NextOrderInv ==
    ASSUME OrderInv, [Next]_vars
    PROVE  OrderInv'
<1>1. OverlapInv /\ OverlapInv'
  BY NextOverlapInv DEF OrderInv
<1>2. PICK New : New \cap Named = {} /\ OrderGrows(New)
  BY <1>1, StepOrders
<1>3. ASSUME NEW one \in Views', NEW other \in Views' PROVE Agree(one, other)
  <2>1. PICK left \in Views :
           Below(one[1], one[2]) \subseteq Below(left[1], left[2]) \cup (Named \X New)
    BY <1>2 DEF OrderGrows
  <2>2. PICK right \in Views :
           Below(other[1], other[2]) \subseteq Below(right[1], right[2]) \cup (Named \X New)
    BY <1>2 DEF OrderGrows
  <2>3. /\ Below(left[1], left[2]) \subseteq Named \X Named
        /\ Below(right[1], right[2]) \subseteq Named \X Named
    BY <1>1, ViewsNamed
  <2>4. Agree(left, right)
    BY DEF OrderInv
  <2>5. ASSUME NEW r \in Rows, NEW s \in Rows, <<r, s>> \in Below(one[1], one[2]),
               <<s, r>> \in Below(other[1], other[2])
        PROVE  FALSE
    <3>1. r \in Named /\ s \in Named
      BY <2>1, <2>2, <2>3, <2>5
    <3>2. <<r, s>> \in Below(left[1], left[2]) /\ <<s, r>> \in Below(right[1], right[2])
      BY <1>2, <2>1, <2>2, <2>5, <3>1
    <3>3. QED  BY <2>4, <3>2 DEF Agree
  <2>6. QED  BY <2>5 DEF Agree
<1>4. QED  BY <1>1, <1>3 DEF OrderInv, Agree

LEMMA OrderInvariant == HSpec => []OrderInv
<1>1. HInit => OrderInv
  <2> SUFFICES ASSUME HInit PROVE OrderInv
    OBVIOUS
  <2>1. /\ OverlapInv /\ dialog = EmptyDialog
        /\ \A t \in Turns : Pc(t) = "idle"
    BY InitOverlapInv, IdleIsSound DEF HInit, Init, Pc
  <2>2. \A view \in Views : view[1] = NoTask /\ view[2] = <<>>
    BY <2>1 DEF Views, EmptyDialog
  <2>3. QED  BY <2>1, <2>2, EmptyBelow DEF OrderInv, Agree
<1>2. OrderInv /\ [HNext]_hvars => OrderInv'
  <2>1. [HNext]_hvars => [Next]_vars
    BY DEF HNext, Next, hvars
  <2>2. QED  BY <2>1, NextOrderInv
<1>3. QED  BY <1>1, <1>2, PTL DEF HSpec

LEMMA DialogRows ==
    ASSUME OverlapInv
    PROVE  /\ \A i \in DOMAIN dialog.stack :
                 i \in Nat /\ dialog.stack[i].row \in Rows \cup {NoRow}
                           /\ dialog.stack[i].row \in Named
           /\ dialog.active # NoTask => dialog.active.row \in Rows
           /\ <<dialog.active, dialog.stack>> \in Views
<1>1. /\ dialog.stack \in Stacks
      /\ dialog.active # NoTask => dialog.active.row \in Rows
      /\ Arranged(dialog.active, dialog.stack, Named, {})
  BY DEF OverlapInv, DialogNamed
<1>2. \A i \in DOMAIN dialog.stack : i \in Nat /\ dialog.stack[i].row \in Rows \cup {NoRow}
  <2>1. \A i \in DOMAIN dialog.stack : i \in Nat /\ dialog.stack[i] \in Tasks
    BY <1>1, StackIsSeq
  <2>2. QED  BY <2>1 DEF Tasks
<1>3. QED  BY <1>1, <1>2 DEF Arranged, Views

(***************************************************************************)
(* However turns overlap, and although one may overwrite what another has  *)
(* committed: no chat_task row belongs to two tasks of the committed       *)
(* dialog, while turns create, resume, suspend and expire tasks.           *)
(***************************************************************************)
THEOREM OverlapRowTheorem == HSpec => []Sequential!OneTaskPerRow
<1>1. OrderInv => Sequential!OneTaskPerRow
  <2> SUFFICES ASSUME OrderInv PROVE Sequential!OneTaskPerRow
    OBVIOUS
  <2>1. OverlapInv /\ \A r \in Rows : <<r, r>> \notin Below(dialog.active, dialog.stack)
    <3>1. OverlapInv /\ <<dialog.active, dialog.stack>> \in Views
      BY DialogRows DEF OrderInv
    <3>2. QED  BY <3>1 DEF OrderInv, Agree
  <2>2. ASSUME NEW i \in DOMAIN dialog.stack, NEW j \in DOMAIN dialog.stack,
               i # j, dialog.stack[i].row # NoRow
        PROVE  dialog.stack[i].row # dialog.stack[j].row
    <3>1. (i < j \/ j < i) /\ dialog.stack[i].row \in Rows /\ dialog.stack[j].row \in Rows \cup {NoRow}
      BY <2>1, <2>2, DialogRows
    <3>2. QED  BY <2>1, <2>2, <3>1 DEF Below
  <2>3. ASSUME dialog.active # NoTask, NEW i \in DOMAIN dialog.stack
        PROVE  dialog.stack[i].row # dialog.active.row
    <3>1. dialog.active.row \in Rows
      BY <2>1, <2>3, DialogRows
    <3>2. QED  BY <2>1, <2>3, <3>1 DEF Below
  <2>4. QED  BY <2>2, <2>3 DEF Sequential!OneTaskPerRow
<1>2. QED  BY <1>1, OrderInvariant, PTL

(***************************************************************************)
(* Suspended tasks are resumed last in, first out, across overlapping      *)
(* turns and lost updates: when one becomes current again, no task that    *)
(* was suspended after it is left on the stack.                            *)
(***************************************************************************)
THEOREM OverlapNewestTheorem == HSpec => Sequential!NewestResumedFirst
<1> DEFINE stack == dialog.stack
           Resumed(i, j) ==
               /\ i < j
               /\ dialog'.active # NoTask /\ stack[i].row # NoRow
               /\ dialog'.active.row = stack[i].row
               /\ stack[j].row # NoRow
<1>1. ASSUME OrderInv, [HNext]_hvars,
             NEW i \in DOMAIN stack, NEW j \in DOMAIN stack, Resumed(i, j),
             NEW k \in DOMAIN dialog'.stack
      PROVE  dialog'.stack[k].row # stack[j].row
  <2>1. /\ OverlapInv /\ [Next]_vars
        /\ stack[i].row \in Rows /\ stack[j].row \in Rows /\ stack[i].row \in Named
        /\ <<dialog.active, stack>> \in Views
    BY <1>1, DialogRows DEF OrderInv, HNext, Next, hvars
  <2>2. <<stack[i].row, stack[j].row>> \in Below(dialog.active, stack)
    BY <1>1, <2>1 DEF Below
  <2>3. PICK New : New \cap Named = {} /\ OrderGrows(New)
    BY <2>1, StepOrders
  <2>4. <<dialog'.active, dialog'.stack>> \in Views'
    BY DEF Views
  <2>5. PICK known \in Views :
           Below(dialog'.active, dialog'.stack)
               \subseteq Below(known[1], known[2]) \cup (Named \X New)
    BY <2>3, <2>4 DEF OrderGrows
  <2>6. <<stack[j].row, stack[i].row>> \notin Below(known[1], known[2])
    BY <1>1, <2>1, <2>2 DEF OrderInv, Agree
  <2>7. <<stack[j].row, stack[i].row>> \notin Below(dialog'.active, dialog'.stack)
    BY <2>1, <2>3, <2>5, <2>6
  <2>8. QED  BY <1>1, <2>1, <2>7 DEF Below
<1>2. OrderInv /\ [HNext]_hvars =>
        [ \A i \in DOMAIN dialog.stack, j \in DOMAIN dialog.stack :
          /\ i < j
          /\ dialog.active' # NoTask /\ dialog.stack[i].row # NoRow
          /\ (dialog.active').row = dialog.stack[i].row
          => \A k \in DOMAIN dialog.stack' :
                (dialog.stack')[k].row # dialog.stack[j].row \/ dialog.stack[j].row = NoRow ]_(Sequential!vars)
  BY <1>1
<1>3. QED
  BY <1>2, OrderInvariant, PTL DEF HSpec, Sequential!NewestResumedFirst
=============================================================================
