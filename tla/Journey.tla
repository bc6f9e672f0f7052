------------------------------ MODULE Journey ------------------------------
(***************************************************************************)
(* The journey of a customer (services/journey_service.py): one row for    *)
(* the user, which every turn of every session of his reads and, in a      *)
(* savepoint of its own transaction, moves on.                             *)
(*                                                                         *)
(* PostgreSQL at READ COMMITTED: a write waits for the transaction that    *)
(* has written the row, and is applied to what that one left.  The log of  *)
(* the last twenty signals is left out.                                    *)
(***************************************************************************)
EXTENDS Naturals

CONSTANTS
    Turns,    \* turns at the same time
    Signals,  \* [goal, strong, risk]: what an intent says; goal is a rank of STAGE_RANK,
              \* NEW = 0 up to PURCHASED = 5
    NoRow

\* What is assumed of the constants.
JourneyAssumption ==
    /\ Signals \subseteq [goal : Nat, strong : BOOLEAN, risk : BOOLEAN]
    /\ NoRow \notin [stage : Nat, risk : BOOLEAN]

VARIABLES
    row,    \* [stage, risk] as committed, or NoRow
    turns   \* [pc, read, write]: the row it has read, the columns it writes

vars == <<row, turns>>

Idle == [pc |-> "idle", read |-> NoRow, write |-> NoRow]

Init ==
    /\ row = NoRow
    /\ turns = [t \in Turns |-> Idle]

Stage(r) == IF r = NoRow THEN 0 ELSE r.stage

\* Mutant: the evidence of a turn is the stage.
GoalAlways(current, signal) ==
    IF signal.goal = 0 THEN current
    ELSE IF signal.strong \/ signal.goal < current THEN signal.goal ELSE current + 1

\* derive_transition: strong evidence leads to its stage, weak evidence one rank on,
\* nothing leads back.
Derived(current, signal) ==
    IF signal.goal <= current THEN current
    ELSE IF signal.strong THEN signal.goal ELSE current + 1

\* get_by_user; a signal without any change writes nothing.  A risk is only ever
\* added: the ratings that would clear it are taken in turns that come not here.
Read(t, signal) ==
    LET stage == Derived(Stage(row), signal)
        stays == stage = Stage(row)
    IN  /\ turns[t].pc = "idle"
        /\ ~(stays /\ ~signal.risk)
        /\ ~(row # NoRow /\ stays /\ row.risk)
        /\ turns' = [turns EXCEPT ![t] =
                        [pc |-> "read", read |-> row,
                         write |-> [stage |-> stage, moves |-> ~stays,
                                    risk |-> signal.risk, strong |-> signal.strong]]]
        /\ UNCHANGED row

Locked(t) == \E u \in Turns \ {t} : turns[u].pc = "written"

\* The savepoint is released: the row is inserted, unless there is one meanwhile, or
\* locked and updated.  A failed savepoint costs the signal, not the turn.
Write(t) ==
    /\ turns[t].pc = "read"
    /\ ~Locked(t)
    /\ turns' = [turns EXCEPT ![t] = IF turns[t].read = NoRow /\ row # NoRow THEN Idle
                                     ELSE [@ EXCEPT !.pc = "written"]]
    /\ UNCHANGED row

\* Only the columns that change are written.
Commit(t) ==
    LET w == turns[t].write
    IN  /\ turns[t].pc = "written"
        /\ row' = [stage |-> IF w.moves THEN w.stage ELSE Stage(row),
                   risk |-> w.risk \/ (row # NoRow /\ row.risk)]
        /\ turns' = [turns EXCEPT ![t] = Idle]

Rollback(t) ==
    /\ turns[t].pc # "idle"
    /\ turns' = [turns EXCEPT ![t] = Idle]
    /\ UNCHANGED row

Next ==
    \E t \in Turns :
        \/ \E signal \in Signals : Read(t, signal)
        \/ Write(t) \/ Commit(t) \/ Rollback(t)

Spec == Init /\ [][Next]_vars

-----------------------------------------------------------------------------
(* Properties *)

\* The stage of a customer never goes back, and weak evidence never moves it by more
\* than one rank, except where a turn writes what it made of a row that another turn
\* has changed since.
StageMovesOn ==
    [][\/ Stage(row') \in {Stage(row), Stage(row) + 1}
       \/ \E t \in Turns :
             /\ turns[t].pc = "written" /\ turns'[t] = Idle
             /\ \/ turns[t].read # row
                \/ turns[t].write.strong /\ Stage(row') > Stage(row)]_vars

(* What the documents say and the code does not do; see the violation runs *)

\* "The stages are monotone and never go back" (journey_service.py:3): nor do they
\* when two sessions of the customer, two devices or two windows, derive a stage from
\* the same row, each seeing that its own step leads on.
StageNeverBack == [][Stage(row') >= Stage(row)]_vars
=============================================================================
