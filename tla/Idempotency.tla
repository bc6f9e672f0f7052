---------------------------- MODULE Idempotency ----------------------------
(***************************************************************************)
(* Requests of one session that carry the same Idempotency-Key: the        *)
(* response cache and the processing lock in Redis (core/idempotency.py),  *)
(* called around the transaction of a turn by the routes send_message and  *)
(* send_message_stream.                                                    *)
(*                                                                         *)
(* A body stands for its fingerprint.  Every call to Redis is a step; while*)
(* Redis is down it has no effect and the request goes on.  Both routes    *)
(* commit before they store the response and release the lock in a finally *)
(* that a refused request never reaches.                                   *)
(***************************************************************************)
EXTENDS Naturals, FiniteSets

CONSTANTS
    Requests,  \* bound: the requests ever sent with the key
    Bodies,
    None       \* no lock, no response

\* What is assumed of the constants.
IdempotencyAssumption == None \notin Bodies \cup [body : Bodies, by : Requests]

VARIABLES
    requests,   \* the requests, in flight or ended
    response,   \* the cached response, with the request it was computed for
    lock,       \* the body the processing lock was taken with
    redis,      \* Redis answers
    committed,  \* the requests whose turn has been committed
    trouble     \* history: an outage, an expiry or a response too large

vars == <<requests, response, lock, redis, committed, trouble>>

Pcs == {"new", "lookup", "acquire", "work", "store", "release", "ended"}

Init ==
    /\ requests = [r \in Requests |->
                      [pc |-> "new", body |-> None, after |-> {}]]
    /\ response = None
    /\ lock = None
    /\ redis = TRUE
    /\ committed = {}
    /\ trouble = FALSE

-----------------------------------------------------------------------------
(* The routes *)

Pc(r) == requests[r].pc
Body(r) == requests[r].body
Goto(r, pc) == requests' = [requests EXCEPT ![r].pc = pc]

\* History: the requests that were answered before this one was sent.
Answered == {r \in committed : Pc(r) = "ended"}

Send(r, b) ==
    /\ Pc(r) = "new"
    /\ requests' = [requests EXCEPT ![r] =
                       [pc |-> "lookup", body |-> b, after |-> Answered]]
    /\ UNCHANGED <<response, lock, redis, committed, trouble>>

\* get_cached_response: a hit is replayed, a hit of another body refused (422).
Lookup(r) ==
    /\ Pc(r) = "lookup"
    /\ Goto(r, IF redis /\ response # None THEN "ended" ELSE "acquire")
    /\ UNCHANGED <<response, lock, redis, committed, trouble>>

\* Mutant: the lock is taken inside the try, a refused request releases it.
AcquireInTry(r) ==
    /\ Pc(r) = "acquire"
    /\ lock' = IF redis /\ lock = None THEN Body(r) ELSE lock
    /\ Goto(r, IF redis /\ lock # None THEN "release" ELSE "work")
    /\ UNCHANGED <<response, redis, committed, trouble>>

\* acquire_processing_lock: SET NX; a lock that is held refuses (409).
Acquire(r) ==
    /\ Pc(r) = "acquire"
    /\ lock' = IF redis /\ lock = None THEN Body(r) ELSE lock
    /\ Goto(r, IF redis /\ lock # None THEN "ended" ELSE "work")
    /\ UNCHANGED <<response, redis, committed, trouble>>

\* process_message and the commit.
Work(r) ==
    /\ Pc(r) = "work"
    /\ committed' = committed \cup {r}
    /\ Goto(r, "store")
    /\ UNCHANGED <<response, lock, redis, trouble>>

\* Mutant: the response is stored before the commit that fails.
FailStored(r) ==
    /\ Pc(r) = "work"
    /\ Goto(r, "release")
    /\ response' = IF redis THEN [body |-> Body(r), by |-> r] ELSE response
    /\ UNCHANGED <<lock, redis, committed, trouble>>

\* The turn or its commit fails, or the client of a stream disconnects.
Fail(r) ==
    /\ Pc(r) = "work"
    /\ Goto(r, "release")
    /\ UNCHANGED <<response, lock, redis, committed, trouble>>

\* Mutant: the streaming route stores nothing.
StoreNothing(r, tooLarge) ==
    /\ Pc(r) = "store"
    /\ Goto(r, "release")
    /\ UNCHANGED <<response, lock, redis, committed, trouble>>

\* cache_response.
Store(r, tooLarge) ==
    /\ Pc(r) = "store"
    /\ Goto(r, "release")
    /\ response' = IF redis /\ ~tooLarge THEN [body |-> Body(r), by |-> r] ELSE response
    /\ trouble' = (trouble \/ tooLarge)
    /\ UNCHANGED <<lock, redis, committed>>

\* release_processing_lock: compared with the fingerprint, then deleted.
Release(r) ==
    /\ Pc(r) = "release"
    /\ lock' = IF redis /\ lock = Body(r) THEN None ELSE lock
    /\ Goto(r, "ended")
    /\ UNCHANGED <<response, redis, committed, trouble>>

\* The process is killed.
Crash(r) ==
    /\ Pc(r) \in Pcs \ {"new", "ended"}
    /\ Goto(r, "ended")
    /\ trouble' = TRUE
    /\ UNCHANGED <<response, lock, redis, committed>>

-----------------------------------------------------------------------------
(* Redis *)

\* The lock expires after _LOCK_TTL seconds, whoever still works.
LockExpires ==
    /\ lock # None
    /\ lock' = None
    /\ trouble' = TRUE
    /\ UNCHANGED <<requests, response, redis, committed>>

ResponseExpires ==
    /\ response # None
    /\ response' = None
    /\ trouble' = TRUE
    /\ UNCHANGED <<requests, lock, redis, committed>>

Outage ==
    /\ redis' = ~redis
    /\ trouble' = TRUE
    /\ UNCHANGED <<requests, response, lock, committed>>

Next ==
    \/ \E r \in Requests :
          \/ \E b \in Bodies : Send(r, b)
          \/ Lookup(r)
          \/ Acquire(r)
          \/ Work(r)
          \/ Fail(r)
          \/ \E tooLarge \in BOOLEAN : Store(r, tooLarge)
          \/ Release(r)
          \/ Crash(r)
    \/ LockExpires
    \/ ResponseExpires
    \/ Outage

Spec == Init /\ [][Next]_vars

-----------------------------------------------------------------------------
(* Properties *)

\* The processing lock keeps two requests with one key from being processed at
\* the same time, unless it expired or Redis was away: a request that was
\* refused never deletes the lock of the one that works.
OneAtATime ==
    trouble \/ Cardinality({r \in Requests : Pc(r) \in {"work", "store", "release"}}) =< 1

\* A request sent after another one with its key was answered is never
\* processed, whatever the body, unless Redis lost the response.
AnsweredOnce ==
    trouble \/ \A r \in committed : requests[r].after = {}

\* What the cache replays is the response of a turn that was committed, also
\* when commits fail and the process dies between the steps.
ReplaysCommitted ==
    response # None => response.by \in committed /\ response.body = Body(response.by)
=============================================================================
