------------------------------ MODULE Customer ------------------------------
(***************************************************************************)
(* What the program keeps of a customer from one turn to the next: the     *)
(* memory of a session, the suggestions made and refused, and the stage of *)
(* the customer's journey.  The three components share no variable; each   *)
(* is an instance with a prefix, and what is proved or checked of them has *)
(* a name of its own here.                                                 *)
(***************************************************************************)
EXTENDS Naturals, FiniteSets, Sequences

CONSTANTS
    Absent,        \* stands for every absent value
    MemoryTasks,   \* bound: the turns of the session
    Concurrency,   \* MEMORY_TASK_CONCURRENCY
    Window,        \* MEMORY_SHORT_TERM_TURNS
    Threshold,     \* MEMORY_SUMMARY_THRESHOLD
    SummaryStep,   \* MEMORY_SUMMARY_STEP
    HistoryLimit,  \* the messages a task reads, the oldest ones first
    Languages,
    Loaders,       \* turns that are loading the session at the same time
    CustomerTurns, \* turns at the same time
    Sessions,
    Ladder,        \* the offers, the preferred ones first
    Cap,           \* how often each offer may be shown to a user, 0: no cap
    SessionMax,    \* PROACTIVE_SESSION_MAX
    Signals        \* what an intent says about the journey

VARIABLES
    total, meta, tasks, loads, facts,
    optout, cool, welcomed, shown, imp, last, offerRedis, offerTurns, said, lost,
    row, journeys

ME == INSTANCE Memory WITH Tasks <- MemoryTasks, Step <- SummaryStep

PR == INSTANCE Proactive WITH
    Turns <- CustomerTurns, None <- Absent, redis <- offerRedis, turns <- offerTurns

JO == INSTANCE Journey WITH
    Turns <- CustomerTurns, NoRow <- Absent, turns <- journeys

\* What the components assume of their constants.
ASSUME CustomerAssumption == ME!MemoryAssumption /\ JO!JourneyAssumption

(* Properties, stated and explained in the modules of the components *)

\* The summary of a session stands for its messages up to the cursor.
SummaryIsPrefix == ME!SummaryIsPrefix

\* No background task takes the cursor back.
CursorAdvances == ME!CursorAdvances

\* A user whose refusal was heard is shown no offer while it holds.
RefusalHeeded == PR!RefusalHeeded

\* The stage of a journey moves as the signals say.
StageMovesOn == JO!StageMovesOn
=============================================================================
