------------------------------- MODULE Memory -------------------------------
(***************************************************************************)
(* The memory of one session: every committed turn starts a background     *)
(* task (chat/memory/scheduler.py) that may fold the messages before the   *)
(* recent window into a summary and extract facts about the user           *)
(* (chat/memory/local_provider.py), while later turns load the session and *)
(* may write its metadata back (load_session_state).                       *)
(*                                                                         *)
(* Messages are numbered; the summary stands for the messages it was built *)
(* from.  The text of a summary, its bounds and its output check are the   *)
(* choice of Answer whether the task has anything to write.                *)
(***************************************************************************)
EXTENDS Naturals, FiniteSets

CONSTANTS
    Tasks,        \* bound: the turns of the session
    Concurrency,  \* MEMORY_TASK_CONCURRENCY
    Window,       \* MEMORY_SHORT_TERM_TURNS
    Threshold,    \* MEMORY_SUMMARY_THRESHOLD
    Step,         \* MEMORY_SUMMARY_STEP
    HistoryLimit, \* the messages a task reads, the oldest ones first
    Languages,
    Loaders       \* turns that are loading the session at the same time

\* What is assumed of the constants.
MemoryAssumption ==
    /\ {Window, Threshold, Step, HistoryLimit} \subseteq Nat
    /\ Window =< Threshold

VARIABLES
    total,   \* the messages of the session
    meta,    \* its metadata: [covered, summary, language]
    tasks,   \* the background tasks
    loads,   \* the metadata a loading turn will write back
    facts    \* the rows of user_memory with one content

vars == <<total, meta, tasks, loads, facts>>

NoCopy == [language |-> "none"]
Unborn == [pc |-> "unborn", covered |-> 0, cut |-> 0, base |-> {}]

Init ==
    /\ total = 0
    /\ meta = [covered |-> 0, summary |-> {}, language |-> "default"]
    /\ tasks = [t \in Tasks |-> Unborn]
    /\ loads = [l \in Loaders |-> NoCopy]
    /\ facts = 0

Range(first, last) == {m \in 1 .. total : first < m /\ m =< last}

-----------------------------------------------------------------------------
(* Turns *)

\* load_session_state reads the session; a turn that names another language
\* writes the whole metadata back when it commits.
Load(l) ==
    /\ loads[l] = NoCopy
    /\ \E language \in Languages \ {meta.language} :
          loads' = [loads EXCEPT ![l] = [meta EXCEPT !.language = language]]
    /\ UNCHANGED <<total, meta, tasks, facts>>

StoreLanguage(l) ==
    /\ loads[l] # NoCopy
    /\ meta' = loads[l]
    /\ loads' = [loads EXCEPT ![l] = NoCopy]
    /\ UNCHANGED <<total, tasks, facts>>

\* A turn commits the message and its answer; after the commit its task is
\* created.  A turn that is rolled back creates none.
CommitTurn(t) ==
    /\ tasks[t].pc = "unborn"
    /\ total' = total + 2
    /\ tasks' = [tasks EXCEPT ![t].pc = "queued"]
    /\ UNCHANGED <<meta, loads, facts>>

-----------------------------------------------------------------------------
(* Tasks *)

Running == {t \in Tasks : tasks[t].pc \in {"model", "write", "facts", "insert"}}

\* Mutant: the newest messages are not left to the window.
CutEverything(messages) == messages

\* The messages up to this one are old enough for the summary.
Cut(messages) == messages - Window

Lesser(a, b) == IF a =< b THEN a ELSE b

\* _maybe_summarize: the short transaction that reads, behind the semaphore.
Read(t) ==
    LET messages == Lesser(total, HistoryLimit)
        cut == Cut(messages)
        worthwhile == /\ messages > Threshold
                      /\ cut > meta.covered
                      /\ meta.covered = 0 \/ cut - meta.covered >= Step
    IN  /\ tasks[t].pc = "queued"
        /\ Cardinality(Running) < Concurrency
        /\ tasks' = [tasks EXCEPT ![t] =
              IF worthwhile
              THEN [pc |-> "model", covered |-> meta.covered, cut |-> cut,
                    base |-> meta.summary \cup Range(meta.covered, cut)]
              ELSE [Unborn EXCEPT !.pc = "facts"]]
        /\ UNCHANGED <<total, meta, loads, facts>>

\* The call of the model, without a transaction: no answer, a summary that is
\* too long and one the output guardrail refuses write nothing.
Answer(t, usable) ==
    /\ tasks[t].pc = "model"
    /\ tasks' = [tasks EXCEPT ![t].pc = IF usable THEN "write" ELSE "facts"]
    /\ UNCHANGED <<total, meta, loads, facts>>

\* Mutant: the cursor is not compared.
WriteUncompared(t) ==
    /\ tasks[t].pc = "write"
    /\ meta' = [meta EXCEPT !.covered = tasks[t].cut, !.summary = tasks[t].base]
    /\ tasks' = [tasks EXCEPT ![t].pc = "facts"]
    /\ UNCHANGED <<total, loads, facts>>

\* merge_metadata: one UPDATE of the two keys, if the cursor is still the one
\* that was read.
Write(t) ==
    /\ tasks[t].pc = "write"
    /\ meta' = IF meta.covered = tasks[t].covered
               THEN [meta EXCEPT !.covered = tasks[t].cut, !.summary = tasks[t].base]
               ELSE meta
    /\ tasks' = [tasks EXCEPT ![t].pc = "facts"]
    /\ UNCHANGED <<total, loads, facts>>

\* _extract_facts: small talk, a fact that was not found or not allowed and one
\* that is known end the task.
Extract(t, found) ==
    /\ tasks[t].pc = "facts"
    /\ tasks' = [tasks EXCEPT ![t] =
          [Unborn EXCEPT !.pc = IF found /\ facts = 0 THEN "insert" ELSE "ended"]]
    /\ UNCHANGED <<total, meta, loads, facts>>

\* Nothing but the look before keeps a content from being inserted twice.
Insert(t) ==
    /\ tasks[t].pc = "insert"
    /\ facts' = facts + 1
    /\ tasks' = [tasks EXCEPT ![t] = [Unborn EXCEPT !.pc = "ended"]]
    /\ UNCHANGED <<total, meta, loads>>

\* wait_pending_memory_tasks: a shutdown cancels what is left.
Cancel(t) ==
    /\ tasks[t].pc \in {"queued", "model", "write", "facts", "insert"}
    /\ tasks' = [tasks EXCEPT ![t] = [Unborn EXCEPT !.pc = "ended"]]
    /\ UNCHANGED <<total, meta, loads, facts>>

Next ==
    \/ \E l \in Loaders : Load(l) \/ StoreLanguage(l)
    \/ \E t \in Tasks :
          \/ CommitTurn(t) \/ Read(t) \/ Write(t) \/ Insert(t) \/ Cancel(t)
          \/ \E b \in BOOLEAN : Answer(t, b) \/ Extract(t, b)

Spec == Init /\ [][Next]_vars

-----------------------------------------------------------------------------
(* Properties *)

\* The single representation of a message: what the summary stands for are the
\* messages up to the cursor, each once, and none of the recent window, however
\* many tasks overlap and whatever a loading turn writes back.
SummaryIsPrefix ==
    /\ meta.summary = Range(0, meta.covered)
    /\ meta.covered > 0 => meta.covered + Window =< total

\* Of overlapping tasks only the first one counts, the others never take the
\* cursor back: it goes back only when a turn that changes the language writes
\* back the metadata it had loaded.
CursorAdvances ==
    [][\/ meta'.covered >= meta.covered
       \/ \E l \in Loaders : loads[l] # NoCopy /\ meta' = loads[l]]_vars
=============================================================================
