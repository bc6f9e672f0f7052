----------------------------- MODULE AnswerCache -----------------------------
(***************************************************************************)
(* The semantic cache of one tenant (chat/cache/semantic_cache.py) between *)
(* the turns that answer from the knowledge base (graph node rag_answer)   *)
(* and the publications that replace what the knowledge base says.         *)
(*                                                                         *)
(* The knowledge base is the number of its publications; an entry of the   *)
(* cache is the edition its answer was drawn from.  A question is a model  *)
(* value: near enough is the same, and only the newest entry of a question *)
(* is found.                                                               *)
(***************************************************************************)
EXTENDS Naturals, Sequences

CONSTANTS
    Turns,       \* concurrent turns
    Questions,
    Publications,\* bound
    MaxEntries   \* SEMANTIC_CACHE_MAX_PER_TENANT

VARIABLES
    edition,     \* publications committed
    publishing,  \* "no", "open", "invalidated": the transaction that publishes
    cache,       \* entries, the newest first
    idle,        \* no entry was stored for the time to live
    turns        \* [pc, question, drawn]

vars == <<edition, publishing, cache, idle, turns>>

NoTurn == [pc |-> "idle"]

Init ==
    /\ edition = 0
    /\ publishing = "no"
    /\ cache = <<>>
    /\ idle = TRUE
    /\ turns = [t \in Turns |-> NoTurn]

-----------------------------------------------------------------------------
(* Turns *)

Found(q) == \E i \in DOMAIN cache : cache[i].question = q

\* A turn of an experiment and one whose question was rewritten pass the cache
\* by; a failing Redis is a miss.  A hit is the answer, and stores nothing.
Ask(t, q, bypass) ==
    /\ turns[t] = NoTurn
    /\ bypass \/ ~Found(q)
    /\ turns' = [turns EXCEPT ![t] = [pc |-> "draw", question |-> q, bypass |-> bypass]]
    /\ UNCHANGED <<edition, publishing, cache, idle>>

\* The answer is drawn from what is committed.  One that was refused, degraded,
\* personalized or drawn past the cache ends the turn.
Draw(t, cacheable) ==
    /\ turns[t].pc = "draw"
    /\ turns' = [turns EXCEPT ![t] =
          IF cacheable /\ ~turns[t].bypass
          THEN [pc |-> "store", question |-> turns[t].question, drawn |-> edition]
          ELSE NoTurn]
    /\ UNCHANGED <<edition, publishing, cache, idle>>

\* Mutant: the wrong end of the list is trimmed.
KeepOldest(entries) ==
    IF Len(entries) =< MaxEntries THEN entries
    ELSE SubSeq(entries, Len(entries) - MaxEntries + 1, Len(entries))

\* LTRIM
Trimmed(entries) ==
    IF Len(entries) =< MaxEntries THEN entries ELSE SubSeq(entries, 1, MaxEntries)

\* store: LPUSH, LTRIM and EXPIRE in one pipeline, which a failing Redis skips.
Store(t, stored) ==
    /\ turns[t].pc = "store"
    /\ turns' = [turns EXCEPT ![t] = NoTurn]
    /\ IF stored
       THEN /\ cache' = Trimmed(<<[question |-> turns[t].question,
                                   drawn |-> turns[t].drawn]>> \o cache)
            /\ idle' = FALSE
       ELSE UNCHANGED <<cache, idle>>
    /\ UNCHANGED <<edition, publishing>>

-----------------------------------------------------------------------------
(* Publications: _publish of the knowledge base *)

Publish ==
    /\ publishing = "no"
    /\ edition < Publications
    /\ publishing' = "open"
    /\ UNCHANGED <<edition, cache, idle, turns>>

\* The cache is deleted inside of the transaction, if Redis answers.
Invalidate(deleted) ==
    /\ publishing = "open"
    /\ publishing' = "invalidated"
    /\ cache' = IF deleted THEN <<>> ELSE cache
    /\ UNCHANGED <<edition, idle, turns>>

\* The transaction ends; what an archived, disabled or uploaded document changes
\* is committed without an invalidation.
EndPublication(committed) ==
    /\ publishing = "invalidated"
    /\ publishing' = "no"
    /\ edition' = IF committed THEN edition + 1 ELSE edition
    /\ UNCHANGED <<cache, idle, turns>>

ChangeUnnoticed ==
    /\ edition < Publications
    /\ publishing = "no"
    /\ edition' = edition + 1
    /\ UNCHANGED <<publishing, cache, idle, turns>>

-----------------------------------------------------------------------------
(* Time *)

\* The time to live passes since the last store, then the list expires.
Tick ==
    /\ ~idle
    /\ idle' = TRUE
    /\ UNCHANGED <<edition, publishing, cache, turns>>

Expire ==
    /\ idle
    /\ cache # <<>>
    /\ cache' = <<>>
    /\ UNCHANGED <<edition, publishing, idle, turns>>

Next ==
    \/ \E t \in Turns :
          \/ \E q \in Questions, bypass \in BOOLEAN : Ask(t, q, bypass)
          \/ \E b \in BOOLEAN : Draw(t, b) \/ Store(t, b)
    \/ \E b \in BOOLEAN : Invalidate(b) \/ EndPublication(b)
    \/ Publish \/ ChangeUnnoticed \/ Tick \/ Expire

\* Time passes; nobody has to ask or to publish.
Fairness == WF_vars(Tick) /\ WF_vars(Expire)

Spec == Init /\ [][Next]_vars /\ Fairness

-----------------------------------------------------------------------------
(* Properties *)

Stale == \E i \in DOMAIN cache : cache[i].drawn < edition

\* Answers of an edition that was replaced leave the cache in the end, though
\* turns under way store them after the invalidation, an invalidation fails, and
\* every store prolongs the life of the whole list.
StaleLeaves == Stale ~> ~Stale
=============================================================================
