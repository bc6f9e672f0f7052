-------------------------- MODULE AnsweringProofs ---------------------------
(***************************************************************************)
(* For any number of requests and of bodies: what is replayed was          *)
(* committed, and as long as Redis keeps what it is given, requests with   *)
(* one key are processed one at a time and never after an answer. For any  *)
(* documents and users: an answer rests on documents in force and on       *)
(* nobody else's context. For any tools: no data are invented. For any     *)
(* number of calls: deadline and budget are exceeded by the calls in       *)
(* flight at most.                                                         *)
(***************************************************************************)
EXTENDS Answering, FiniteSetTheorems, TLAPS

(* The idempotency key *)

Busy == {r \in Retries : RR!Pc(r) \in {"work", "store", "release"}}

IdempotencyTypes ==
    /\ requests \in [Retries -> [pc : RR!Pcs, body : Bodies \cup {None}, after : SUBSET Retries]]
    /\ response \in [body : Bodies, by : Retries] \cup {None}
    /\ lock \in Bodies \cup {None}
    /\ lockRedis \in BOOLEAN
    /\ committed \in SUBSET Retries
    /\ trouble \in BOOLEAN

\* The body of a request is fixed when it is sent, and a response is stored only
\* after the commit.
Committed ==
    /\ \A r \in Retries : RR!Pc(r) # "new" => RR!Body(r) \in Bodies
    /\ \A r \in Retries : RR!Pc(r) = "store" => r \in committed
    /\ \A r \in committed : RR!Pc(r) \in {"store", "release", "ended"}
    /\ RR!ReplaysCommitted

\* Whoever works holds the lock.
Locked ==
    /\ \A r \in Busy : lock = RR!Body(r)
    /\ \A r, s \in Busy : r = s

\* A request that was let through saw no response, and there is one for every
\* request that has been answered.
Unanswered ==
    /\ \A r \in committed : RR!Pc(r) \in {"release", "ended"} => response # None
    /\ \A r \in Retries :
          /\ \A s \in requests[r].after : s \in committed /\ RR!Pc(s) = "ended"
          /\ RR!Pc(r) \in {"acquire", "work", "store", "release"} => requests[r].after = {}
          /\ r \in committed => requests[r].after = {}

IdempotencyInv ==
    /\ IdempotencyTypes
    /\ Committed
    /\ ~trouble => lockRedis /\ Locked /\ Unanswered

-----------------------------------------------------------------------------

LEMMA InitIdempotencyInv == RR!Init => IdempotencyInv
<1> SUFFICES ASSUME RR!Init PROVE IdempotencyInv
  OBVIOUS
<1>1. \A r \in Retries : requests[r] = [pc |-> "new", body |-> None, after |-> {}]
  BY DEF RR!Init
<1>2. IdempotencyTypes
  BY DEF RR!Init, IdempotencyTypes, RR!Pcs
<1>3. Busy = {} /\ Committed /\ Unanswered
  BY <1>1 DEF RR!Init, Committed, Unanswered, RR!ReplaysCommitted, Busy, RR!Pc
<1>4. QED  BY <1>2, <1>3 DEF RR!Init, IdempotencyInv, Locked

\* A step that only moves a request on.
LEMMA GotoType ==
    ASSUME IdempotencyTypes, NEW r \in Retries, NEW pc \in RR!Pcs, RR!Goto(r, pc)
    PROVE  requests' \in [Retries -> [pc : RR!Pcs, body : Bodies \cup {None}, after : SUBSET Retries]]
BY DEF IdempotencyTypes, RR!Goto

LEMMA TypesStep == IdempotencyTypes /\ Committed /\ [RR!Next]_RR!vars => IdempotencyTypes'
<1> SUFFICES ASSUME IdempotencyTypes, Committed, [RR!Next]_RR!vars PROVE IdempotencyTypes'
  OBVIOUS
<1>1. ASSUME NEW r \in Retries, NEW b \in Bodies, RR!Send(r, b) PROVE IdempotencyTypes'
  <2> DEFINE sent == [pc |-> "lookup", body |-> b, after |-> RR!Answered]
  <2>1. sent \in [pc : RR!Pcs, body : Bodies \cup {None}, after : SUBSET Retries]
    BY DEF RR!Answered, IdempotencyTypes, RR!Pcs
  <2> HIDE DEF sent
  <2>2. requests' = [requests EXCEPT ![r] = sent]
    BY <1>1 DEF RR!Send, sent
  <2>3. UNCHANGED <<response, lock, lockRedis, committed, trouble>>
    BY <1>1 DEF RR!Send
  <2>4. QED  BY <2>1, <2>2, <2>3 DEF IdempotencyTypes
<1>2. ASSUME NEW r \in Retries, RR!Lookup(r) \/ RR!Work(r) \/ RR!Fail(r) \/ RR!Crash(r)
      PROVE  IdempotencyTypes'
  <2>1. \E pc \in RR!Pcs : RR!Goto(r, pc)
    BY <1>2 DEF RR!Lookup, RR!Work, RR!Fail, RR!Crash, RR!Pcs
  <2>2. UNCHANGED <<response, lock, lockRedis>> /\ committed' \subseteq committed \cup {r}
        /\ trouble' \in {trouble, TRUE}
    BY <1>2 DEF RR!Lookup, RR!Work, RR!Fail, RR!Crash
  <2>3. QED  BY <2>1, <2>2, GotoType DEF IdempotencyTypes
<1>3. ASSUME NEW r \in Retries, NEW tooLarge \in BOOLEAN, RR!Store(r, tooLarge)
      PROVE  IdempotencyTypes'
  <2>1. RR!Goto(r, "release") /\ RR!Body(r) \in Bodies
    BY <1>3 DEF RR!Store, Committed
  <2>2. response' \in {response, [body |-> RR!Body(r), by |-> r]} /\ trouble' = (trouble \/ tooLarge)
        /\ UNCHANGED <<lock, lockRedis, committed>>
    BY <1>3 DEF RR!Store
  <2>3. QED  BY <2>1, <2>2, GotoType DEF IdempotencyTypes, RR!Pcs
<1>4. ASSUME NEW r \in Retries, RR!Acquire(r) \/ RR!Release(r) PROVE IdempotencyTypes'
  <2>1. (\E pc \in RR!Pcs : RR!Goto(r, pc)) /\ lock' \in {lock, RR!Body(r), None}
        /\ UNCHANGED <<response, lockRedis, committed, trouble>>
    BY <1>4 DEF RR!Acquire, RR!Release, RR!Pcs
  <2>2. RR!Body(r) \in Bodies \cup {None}
    BY DEF RR!Body, IdempotencyTypes
  <2>3. QED  BY <2>1, <2>2, GotoType DEF IdempotencyTypes
<1>5. CASE RR!LockExpires \/ RR!ResponseExpires \/ RR!Outage
  BY <1>5 DEF RR!LockExpires, RR!ResponseExpires, RR!Outage, IdempotencyTypes
<1>6. CASE UNCHANGED RR!vars
  BY <1>6 DEF RR!vars, IdempotencyTypes
<1>7. QED  BY <1>1, <1>2, <1>3, <1>4, <1>5, <1>6 DEF RR!Next

\* A step that changes only the place of one request.
LEMMA Moves ==
    ASSUME IdempotencyTypes, NEW r \in Retries, NEW pc \in RR!Pcs, RR!Goto(r, pc)
    PROVE  /\ RR!Pc(r)' = pc
           /\ \A s \in Retries \ {r} : RR!Pc(s)' = RR!Pc(s)
           /\ \A s \in Retries : RR!Body(s)' = RR!Body(s) /\ requests'[s].after = requests[s].after
BY DEF IdempotencyTypes, RR!Goto, RR!Pc, RR!Body

LEMMA Sends ==
    ASSUME IdempotencyTypes, NEW r \in Retries, NEW b \in Bodies, RR!Send(r, b)
    PROVE  /\ RR!Pc(r) = "new" /\ RR!Pc(r)' = "lookup" /\ RR!Body(r)' = b
           /\ requests'[r].after = RR!Answered
           /\ \A s \in Retries \ {r} : requests'[s] = requests[s]
           /\ \A s \in Retries \ {r} : RR!Pc(s)' = RR!Pc(s) /\ RR!Body(s)' = RR!Body(s)
BY DEF IdempotencyTypes, RR!Send, RR!Pc, RR!Body

LEMMA CommittedStep ==
    ASSUME RR!IdempotencyAssumption, IdempotencyTypes, Committed, [RR!Next]_RR!vars
    PROVE  Committed'
<1>1. ASSUME NEW r \in Retries, NEW b \in Bodies, RR!Send(r, b) PROVE Committed'
  <2>1. UNCHANGED <<response, committed>> /\ r \notin committed
    BY <1>1, Sends DEF RR!Send, Committed
  <2>2. QED
    BY <1>1, <2>1, Sends DEF Committed, RR!ReplaysCommitted, IdempotencyTypes
<1>2. ASSUME NEW r \in Retries, RR!Lookup(r) \/ RR!Acquire(r) \/ RR!Fail(r) \/ RR!Release(r) \/ RR!Crash(r)
      PROVE  Committed'
  <2>1. UNCHANGED <<response, committed>>
        /\ RR!Pc(r) \in {"lookup", "acquire", "work", "store", "release"}
    BY <1>2 DEF RR!Lookup, RR!Acquire, RR!Fail, RR!Release, RR!Crash, RR!Pcs
  <2>2. \E pc \in {"acquire", "work", "release", "ended"} :
           RR!Goto(r, pc) /\ (pc \in {"acquire", "work"} => RR!Pc(r) \in {"lookup", "acquire"})
    BY <1>2 DEF RR!Lookup, RR!Acquire, RR!Fail, RR!Release, RR!Crash
  <2>3. QED
    BY <2>1, <2>2, Moves DEF Committed, RR!ReplaysCommitted, IdempotencyTypes, RR!Pcs
<1>3. ASSUME NEW r \in Retries, RR!Work(r) PROVE Committed'
  BY <1>3, Moves DEF RR!Work, Committed, RR!ReplaysCommitted, IdempotencyTypes, RR!Pcs
<1>4. ASSUME NEW r \in Retries, NEW tooLarge \in BOOLEAN, RR!Store(r, tooLarge) PROVE Committed'
  <2>1. r \in committed /\ committed' = committed /\ RR!Goto(r, "release") /\ RR!Pc(r) = "store"
    BY <1>4 DEF RR!Store, Committed
  <2>2. response' = response \/ response' = [body |-> RR!Body(r), by |-> r]
    BY <1>4 DEF RR!Store
  <2>3. QED
    BY <2>1, <2>2, Moves DEF Committed, RR!ReplaysCommitted, IdempotencyTypes, RR!Pcs
<1>5. CASE RR!LockExpires \/ RR!ResponseExpires \/ RR!Outage \/ UNCHANGED RR!vars
  BY <1>5 DEF RR!LockExpires, RR!ResponseExpires, RR!Outage, RR!vars, Committed, RR!ReplaysCommitted, RR!Pc, RR!Body
<1>6. QED  BY <1>1, <1>2, <1>3, <1>4, <1>5 DEF RR!Next

\* Without an outage, an expiry, a crash or a response too large.
LEMMA QuietStep ==
    ASSUME RR!IdempotencyAssumption, IdempotencyInv, [RR!Next]_RR!vars, ~trouble'
    PROVE  lockRedis' /\ Locked' /\ Unanswered'
<1>1. ASSUME NEW r \in Retries, NEW b \in Bodies, RR!Send(r, b)
      PROVE  lockRedis' /\ Locked' /\ Unanswered'
  <2>1. ~trouble /\ UNCHANGED <<response, committed, lock, lockRedis>> /\ r \notin committed
    BY <1>1, Sends DEF RR!Send, Committed, IdempotencyInv
  <2>2. Locked'
    BY <1>1, <2>1, Sends DEF Locked, Busy, IdempotencyInv
  <2>3. Unanswered'
    BY <1>1, <2>1, Sends DEF Unanswered, RR!Answered, IdempotencyInv, IdempotencyTypes
  <2>4. QED  BY <2>1, <2>2, <2>3 DEF IdempotencyInv
<1>2. ASSUME NEW r \in Retries, RR!Lookup(r) PROVE lockRedis' /\ Locked' /\ Unanswered'
  <2>1. ~trouble /\ lockRedis /\ UNCHANGED <<response, committed, lock, lockRedis>> /\ r \notin committed
    BY <1>2 DEF RR!Lookup, Committed, IdempotencyInv
  <2>2. RR!Goto(r, "ended") \/ (RR!Goto(r, "acquire") /\ requests[r].after = {})
    BY <1>2, <2>1 DEF RR!Lookup, Unanswered, IdempotencyInv
  <2>3. QED
    BY <1>2, <2>1, <2>2, Moves DEF RR!Lookup, Locked, Busy, Unanswered, IdempotencyInv, IdempotencyTypes, RR!Pcs
<1>3. ASSUME NEW r \in Retries, RR!Acquire(r) PROVE lockRedis' /\ Locked' /\ Unanswered'
  <2>1. ~trouble /\ lockRedis /\ UNCHANGED <<response, committed, lockRedis>> /\ r \notin committed
    BY <1>3 DEF RR!Acquire, Committed, IdempotencyInv
  <2>2. Unanswered'
    BY <1>3, <2>1, Moves DEF RR!Acquire, Unanswered, IdempotencyInv, IdempotencyTypes, RR!Pcs
  <2>3. CASE lock = None
    <3>1. Busy = {}
      BY <2>1, <2>3 DEF Locked, Committed, Busy, IdempotencyInv, RR!IdempotencyAssumption
    <3>2. RR!Goto(r, "work") /\ lock' = RR!Body(r)
      BY <1>3, <2>1, <2>3 DEF RR!Acquire
    <3>3. QED
      BY <2>1, <2>2, <3>1, <3>2, Moves DEF Locked, Busy, IdempotencyInv, RR!Pcs
  <2>4. CASE lock # None
    <3>1. RR!Goto(r, "ended") /\ lock' = lock
      BY <1>3, <2>1, <2>4 DEF RR!Acquire
    <3>2. QED
      BY <2>1, <2>2, <3>1, Moves DEF Locked, Busy, IdempotencyInv, RR!Pcs
  <2>5. QED  BY <2>3, <2>4
<1>4. ASSUME NEW r \in Retries, RR!Work(r) \/ RR!Fail(r) PROVE lockRedis' /\ Locked' /\ Unanswered'
  <2>1. ~trouble /\ lockRedis /\ UNCHANGED <<response, lockRedis, lock>> /\ RR!Pc(r) = "work"
    BY <1>4 DEF RR!Work, RR!Fail, IdempotencyInv
  <2>2. \/ committed' = committed \cup {r} /\ RR!Goto(r, "store")
        \/ committed' = committed /\ RR!Goto(r, "release") /\ r \notin committed
    BY <1>4, <2>1 DEF RR!Work, RR!Fail, Committed, IdempotencyInv
  <2>3. Locked'
    BY <2>1, <2>2, Moves DEF Locked, Busy, IdempotencyInv, RR!Pcs
  <2>4. Unanswered'
    BY <2>1, <2>2, Moves DEF Unanswered, IdempotencyInv, IdempotencyTypes, RR!Pcs
  <2>5. QED  BY <2>1, <2>3, <2>4
<1>5. ASSUME NEW r \in Retries, NEW tooLarge \in BOOLEAN, RR!Store(r, tooLarge)
      PROVE  lockRedis' /\ Locked' /\ Unanswered'
  <2>1. ~trouble /\ lockRedis /\ ~tooLarge /\ UNCHANGED <<committed, lockRedis, lock>> /\ RR!Pc(r) = "store"
        /\ RR!Goto(r, "release")
    BY <1>5 DEF RR!Store, IdempotencyInv, IdempotencyTypes
  <2>2. response' = [body |-> RR!Body(r), by |-> r] /\ RR!Body(r) \in Bodies
    BY <1>5, <2>1 DEF RR!Store, Committed, IdempotencyInv
  <2>3. response' # None
    BY <2>2 DEF RR!IdempotencyAssumption
  <2>4. Locked'
    BY <2>1, Moves DEF Locked, Busy, IdempotencyInv, RR!Pcs
  <2>5. Unanswered'
    BY <2>1, <2>3, Moves DEF Unanswered, IdempotencyInv, IdempotencyTypes, RR!Pcs
  <2>6. QED  BY <2>1, <2>4, <2>5
<1>6. ASSUME NEW r \in Retries, RR!Release(r) PROVE lockRedis' /\ Locked' /\ Unanswered'
  <2>1. ~trouble /\ lockRedis /\ UNCHANGED <<response, committed, lockRedis>> /\ RR!Pc(r) = "release"
        /\ RR!Goto(r, "ended")
    BY <1>6 DEF RR!Release, IdempotencyInv
  <2>2. Busy' = {}
    BY <2>1, Moves DEF Locked, Busy, IdempotencyInv, RR!Pcs
  <2>3. Unanswered'
    BY <2>1, Moves DEF Unanswered, IdempotencyInv, IdempotencyTypes, RR!Pcs
  <2>4. QED  BY <2>1, <2>2, <2>3 DEF Locked
<1>7. ASSUME NEW r \in Retries, RR!Crash(r) PROVE FALSE
  BY <1>7 DEF RR!Crash
<1>8. CASE RR!LockExpires \/ RR!ResponseExpires \/ RR!Outage
  BY <1>8 DEF RR!LockExpires, RR!ResponseExpires, RR!Outage
<1>9. CASE UNCHANGED RR!vars
  BY <1>9 DEF RR!vars, Locked, Unanswered, Busy, RR!Pc, RR!Body, IdempotencyInv
<1>10. QED  BY <1>1, <1>2, <1>3, <1>4, <1>5, <1>6, <1>7, <1>8, <1>9 DEF RR!Next

LEMMA IdempotencyInvInvariant ==
    ASSUME RR!IdempotencyAssumption PROVE RR!Spec => []IdempotencyInv
<1>1. RR!Init => IdempotencyInv
  BY InitIdempotencyInv
<1>2. IdempotencyInv /\ [RR!Next]_RR!vars => IdempotencyInv'
  BY TypesStep, CommittedStep, QuietStep DEF IdempotencyInv
<1>3. QED  BY <1>1, <1>2, PTL DEF RR!Spec

-----------------------------------------------------------------------------

\* What the cache replays is the response of a turn that was committed.
THEOREM ReplayTheorem == RR!Spec => []ReplaysCommitted
<1>1. IdempotencyInv => ReplaysCommitted
  BY DEF IdempotencyInv, Committed, ReplaysCommitted
<1>2. QED  BY <1>1, AnsweringAssumption, IdempotencyInvInvariant, PTL

\* The operator of the instances is the one of the library's theorems.
LEMMA SameCardinality == \A S : RR!Cardinality(S) = Cardinality(S)
BY DEF RR!Cardinality, Cardinality

\* Unless the lock expired or Redis was away, two requests with one key are
\* never processed at the same time.
THEOREM OneAtATimeTheorem == RR!Spec => []OneAtATime
<1>1. IdempotencyInv => OneAtATime
  <2> SUFFICES ASSUME IdempotencyInv, ~trouble PROVE Cardinality(Busy) =< 1
    BY SameCardinality DEF OneAtATime, RR!OneAtATime, Busy
  <2>1. CASE Busy = {}
    BY <2>1, FS_EmptySet
  <2>2. CASE Busy # {}
    <3>1. PICK r \in Busy : Busy = {r}
      BY <2>2 DEF IdempotencyInv, Locked
    <3>2. Cardinality({r}) = 1
      BY FS_Singleton
    <3>3. QED  BY <3>1, <3>2
  <2>3. QED  BY <2>1, <2>2
<1>2. QED  BY <1>1, AnsweringAssumption, IdempotencyInvInvariant, PTL

\* A request sent after another one with its key was answered is not processed
\* again, unless Redis lost the response.
THEOREM AnsweredOnceTheorem == RR!Spec => []AnsweredOnce
<1>1. IdempotencyInv => AnsweredOnce
  BY DEF IdempotencyInv, IdempotencyTypes, Unanswered, AnsweredOnce, RR!AnsweredOnce
<1>2. QED  BY <1>1, AnsweringAssumption, IdempotencyInvInvariant, PTL

-----------------------------------------------------------------------------
(* Answers *)

Texts == Documents \X Nat

\* How replies can come about, and those a model or a document had a part in.
ReplySources == {"none", "cache", "product_db", "template", "faq", "rag_llm",
                 "rag_extract", "refused"}
FromDocuments == {"rag_llm", "rag_extract"}
MadeReplies == [source : ReplySources, evidence : SUBSET Texts, personalized : BOOLEAN,
                about : SUBSET Users]
Replies == MadeReplies \cup [source : ReplySources, evidence : SUBSET Texts,
                             about : SUBSET Users]

AnsweredTurns ==
    [pc : {"cache", "catalogue", "retrieve", "recall", "chunks", "titles",
           "generate", "refused", "store", "done"},
     user : Users, kind : AN!Kinds, bypass : BOOLEAN, served : SUBSET Documents,
     recalled : SUBSET Texts, hits : Seq(Texts), reply : Replies]

\* The evidence of a reply, and the hits it can still come from, are passages of
\* documents that were in force during the turn; the branches that ask the
\* documents are those of a question for them.
GroundedTurn(t) ==
    /\ \A p \in t.reply.evidence : p[1] \in t.served
    /\ \A i \in DOMAIN t.hits : t.hits[i][1] \in t.served
    /\ t.pc = "generate" => t.hits # <<>>
    /\ t.kind \notin {"knowledge", "info"} =>
          t.pc \in {"catalogue", "done"} /\ t.reply.evidence = {}
    /\ t.reply.source \in FromDocuments => t.reply.evidence # {}

\* A reply that may be stored is about nobody.
DiscreetTurn(t) ==
    /\ t.reply.about \subseteq {t.user}
    /\ t.pc = "store" =>
          /\ t.reply \in MadeReplies
          /\ ~t.bypass /\ ~t.reply.personalized => t.reply.about = {}

TurnOK(t) == t \in AnsweredTurns /\ GroundedTurn(t) /\ DiscreetTurn(t)

AnswersInv ==
    /\ docs \in [Documents -> [status : {"draft", "live", "archived"}, text : Nat]]
    /\ index \subseteq Texts
    /\ shared \subseteq {{}}
    /\ answering # AN!Idle => TurnOK(answering) /\ AN!InForce \subseteq answering.served

LEMMA InitAnswersInv == AN!Init => AnswersInv
BY DEF AN!Init, AnswersInv, AN!Stored, Texts

\* A turn that only goes on keeps what holds of its hits and of its reply.
LEMMA GoesOn ==
    ASSUME AnswersInv, answering # AN!Idle,
           NEW pc \in {"retrieve", "recall", "chunks", "titles", "refused", "done"},
           answering.pc \in {"catalogue", "done"} => pc = "done",
           AN!Goto(pc), UNCHANGED <<docs, index, shared>>
    PROVE  AnswersInv'
<1>1. TurnOK(answering)
  BY DEF AnswersInv
<1>2. answering' = [answering EXCEPT !.pc = pc]
  BY DEF AN!Goto
<1>3. answering' \in AnsweredTurns
  BY <1>1, <1>2 DEF TurnOK, AnsweredTurns
<1>4. /\ answering'.pc = pc
      /\ answering'.reply = answering.reply /\ answering'.hits = answering.hits
      /\ answering'.kind = answering.kind /\ answering'.served = answering.served
      /\ answering'.user = answering.user /\ answering'.bypass = answering.bypass
  BY <1>1, <1>2 DEF TurnOK, AnsweredTurns
<1>5. GroundedTurn(answering')
  BY <1>1, <1>4 DEF TurnOK, GroundedTurn
<1>6. DiscreetTurn(answering')
  BY <1>1, <1>4 DEF TurnOK, DiscreetTurn
<1>7. QED  BY <1>3, <1>4, <1>5, <1>6 DEF AnswersInv, TurnOK, AN!InForce

\* A reply from grounded evidence, about nobody else.
LEMMA IsAnswered ==
    ASSUME AnswersInv, answering # AN!Idle,
           NEW pc \in {"retrieve", "store", "done"}, NEW reply \in Replies,
           answering.kind \notin {"knowledge", "info"} => pc = "done" /\ reply.evidence = {},
           \A p \in reply.evidence : p[1] \in answering.served,
           reply.source \in FromDocuments => reply.evidence # {},
           reply.about \subseteq {answering.user},
           pc = "store" => /\ reply \in MadeReplies
                           /\ ~answering.bypass /\ ~reply.personalized => reply.about = {},
           AN!Answered(reply, pc), UNCHANGED <<docs, index, shared>>
    PROVE  AnswersInv'
<1>1. TurnOK(answering)
  BY DEF AnswersInv
<1>2. answering' = [answering EXCEPT !.pc = pc, !.reply = reply, !.hits = <<>>]
  BY DEF AN!Answered
<1>3. answering' \in AnsweredTurns
  <2>1. <<>> \in Seq(Texts)
    OBVIOUS
  <2>2. answering \in AnsweredTurns
    BY <1>1 DEF TurnOK
  <2>3. QED  BY <1>2, <2>1, <2>2 DEF AnsweredTurns
<1>4. /\ answering'.pc = pc /\ answering'.reply = reply /\ answering'.hits = <<>>
      /\ answering'.kind = answering.kind /\ answering'.served = answering.served
      /\ answering'.user = answering.user /\ answering'.bypass = answering.bypass
  BY <1>1, <1>2 DEF TurnOK, AnsweredTurns
<1>5. GroundedTurn(answering')
  BY <1>4 DEF GroundedTurn
<1>6. DiscreetTurn(answering')
  BY <1>4 DEF DiscreetTurn
<1>7. QED  BY <1>3, <1>4, <1>5, <1>6 DEF AnswersInv, TurnOK, AN!InForce

LEMMA ReplyType ==
    ASSUME TurnOK(answering), NEW source \in ReplySources, NEW evidence \in SUBSET Texts,
           NEW facts \in BOOLEAN,
           NEW reply, reply = AN!Reply(source, evidence, facts)
    PROVE  /\ reply \in MadeReplies
           /\ reply.source = source /\ reply.evidence = evidence
           /\ reply.about \subseteq {answering.user}
           /\ ~answering.bypass /\ ~reply.personalized => reply.about = {}
BY DEF AN!Reply, MadeReplies, TurnOK, AnsweredTurns

\* What the catalogue answers has no evidence; the documents are asked for what a
\* product is like, never for its price.
LEMMA CatalogueStep ==
    ASSUME AnswersInv, \/ AN!ProductFound \/ AN!AskWhich \/ AN!ProductMissing
                       \/ AN!Recommend \/ AN!Compare
    PROVE  AnswersInv'
<1>1. answering # AN!Idle
  <2>1. answering.pc = "catalogue"
    BY DEF AN!ProductFound, AN!AskWhich, AN!ProductMissing, AN!Recommend, AN!Compare,
           AN!At
  <2>2. QED  BY <2>1 DEF AN!Idle
<1>2. TurnOK(answering)
  BY <1>1 DEF AnswersInv
<1>3. PICK source \in {"product_db", "template"}, pc \in {"retrieve", "done"} :
         /\ answering.kind # "info" => pc = "done"
         /\ AN!Answered(AN!Reply(source, {}, FALSE), pc)
         /\ UNCHANGED <<docs, index, shared>>
  BY DEF AN!ProductFound, AN!AskWhich, AN!ProductMissing, AN!Recommend, AN!Compare,
         AN!AsksDocuments, AN!kb
<1> DEFINE reply == AN!Reply(source, {}, FALSE)
<1>4. reply \in MadeReplies /\ reply.evidence = {} /\ reply.source = source
      /\ reply.about \subseteq {answering.user}
  BY <1>2 DEF AN!Reply, MadeReplies, ReplySources, TurnOK, AnsweredTurns
<1>5. AN!Answered(reply, pc)
  BY <1>3
<1> HIDE DEF reply
<1>6. QED
  BY <1>1, <1>3, <1>4, <1>5, IsAnswered DEF Replies, FromDocuments

LEMMA ConcludesStep ==
    ASSUME AnswersInv, answering # AN!Idle, answering.kind \in {"knowledge", "info"},
           NEW source \in ReplySources, NEW evidence \in SUBSET Texts, NEW facts \in BOOLEAN,
           \A p \in evidence : p[1] \in answering.served,
           source \in FromDocuments => evidence # {},
           AN!Concludes(AN!Reply(source, evidence, facts)), UNCHANGED <<docs, index, shared>>
    PROVE  AnswersInv'
<1>1. TurnOK(answering)
  BY DEF AnswersInv
<1> DEFINE made == AN!Reply(source, evidence, facts)
           from == IF answering.reply.source = "product_db" THEN "product_db" ELSE made.source
           reply == [made EXCEPT !.source = from]
           pc == IF answering.kind = "knowledge" THEN "store" ELSE "done"
<1>2. /\ made \in MadeReplies
      /\ made.source = source /\ made.evidence = evidence
      /\ made.about \subseteq {answering.user}
      /\ ~answering.bypass /\ ~made.personalized => made.about = {}
  BY <1>1, ReplyType
<1>3. AN!Answered(reply, pc)
  BY DEF AN!Concludes
<1>4. from \in {source, "product_db"} /\ pc \in {"store", "done"}
  BY <1>2
<1> HIDE DEF made, from, pc
<1>5. /\ reply \in MadeReplies /\ reply.source = from /\ reply.evidence = made.evidence
      /\ reply.about = made.about /\ reply.personalized = made.personalized
  BY <1>2, <1>4 DEF MadeReplies, ReplySources
<1> HIDE DEF reply
<1>6. reply.source \in FromDocuments => reply.evidence # {}
  BY <1>2, <1>4, <1>5 DEF FromDocuments
<1>7. QED
  BY <1>2, <1>3, <1>4, <1>5, <1>6, IsAnswered DEF Replies

\* The two steps of retrieval that only narrow down what was recalled.
LEMMA RecallLemma ==
    ASSUME AnswersInv, answering.pc \in {"recall", "chunks"},
           NEW pc \in {"chunks", "titles"}, NEW recalled \in SUBSET Texts,
           answering' = [answering EXCEPT !.pc = pc, !.recalled = recalled],
           UNCHANGED <<docs, index, shared>>
    PROVE  AnswersInv'
<1>1. answering # AN!Idle
  BY DEF AN!Idle
<1>2. TurnOK(answering)
  BY <1>1 DEF AnswersInv
<1>3. answering' \in AnsweredTurns
  BY <1>2 DEF TurnOK, AnsweredTurns
<1>4. /\ answering'.pc = pc
      /\ answering'.reply = answering.reply /\ answering'.hits = answering.hits
      /\ answering'.kind = answering.kind /\ answering'.served = answering.served
      /\ answering'.user = answering.user
  BY <1>2 DEF TurnOK, AnsweredTurns
<1>5. GroundedTurn(answering') /\ DiscreetTurn(answering')
  BY <1>2, <1>4 DEF TurnOK, GroundedTurn, DiscreetTurn
<1>6. QED  BY <1>1, <1>3, <1>4, <1>5 DEF AnswersInv, TurnOK, AN!InForce

LEMMA AnswersTurnStep ==
    ASSUME AN!AnswersAssumption, AnswersInv, AN!TurnStep PROVE AnswersInv'
<1> USE DEF AN!kb
<1>1. ASSUME NEW user \in Users, NEW kind \in AN!Kinds, NEW bypass \in BOOLEAN,
             AN!Begin(user, kind, bypass)
      PROVE  AnswersInv'
  <2> DEFINE reply == [source |-> "none", evidence |-> {}, about |-> {}]
             pc == IF kind = "knowledge" THEN "cache" ELSE "catalogue"
  <2>1. answering' = [pc |-> pc, user |-> user, kind |-> kind, bypass |-> bypass,
                      served |-> AN!InForce, recalled |-> {}, hits |-> <<>>, reply |-> reply]
    BY <1>1 DEF AN!Begin
  <2>2. reply \in Replies /\ reply.evidence = {} /\ reply.about = {} /\ reply.source = "none"
    BY DEF Replies, ReplySources
  <2>3. pc \in {"cache", "catalogue"} /\ (kind \notin {"knowledge", "info"} => pc = "catalogue")
        /\ <<>> \in Seq(Texts) /\ AN!InForce \subseteq Documents
    BY DEF AN!InForce
  <2> HIDE DEF reply, pc
  <2>4. TurnOK(answering')
    <3>1. answering' \in AnsweredTurns
      BY <1>1, <2>1, <2>2, <2>3 DEF AnsweredTurns
    <3>2. GroundedTurn(answering')
      BY <2>1, <2>2, <2>3 DEF GroundedTurn, FromDocuments
    <3>3. DiscreetTurn(answering')
      BY <2>1, <2>2, <2>3 DEF DiscreetTurn
    <3>4. QED  BY <3>1, <3>2, <3>3 DEF TurnOK
  <2>5. UNCHANGED <<docs, index, shared>> /\ answering'.served = AN!InForce
    BY <1>1, <2>1 DEF AN!Begin
  <2>6. QED  BY <2>4, <2>5 DEF AnswersInv, AN!InForce
<1>2. ASSUME NEW about \in shared, AN!Cached(about) PROVE AnswersInv'
  <2> DEFINE reply == [source |-> "cache", evidence |-> {}, about |-> about]
  <2>1. answering # AN!Idle /\ answering.kind \in {"knowledge", "info"}
    BY <1>2 DEF AN!Cached, AN!At, AN!Idle, AnswersInv, TurnOK, GroundedTurn
  <2>2. about = {}
    BY DEF AnswersInv
  <2>3. reply \in Replies /\ reply.evidence = {} /\ reply.about = {} /\ reply.source = "cache"
    BY <2>2 DEF Replies, ReplySources
  <2>4. AN!Answered(reply, "done") /\ UNCHANGED <<docs, index, shared>>
    BY <1>2 DEF AN!Cached
  <2> HIDE DEF reply
  <2>5. QED  BY <2>1, <2>3, <2>4, IsAnswered DEF FromDocuments
<1>3. CASE AN!CacheMissed
  <2>1. answering # AN!Idle /\ answering.pc = "cache"
    BY <1>3 DEF AN!CacheMissed, AN!At, AN!Idle
  <2>2. AN!Goto("retrieve") /\ UNCHANGED <<docs, index, shared>>
    BY <1>3 DEF AN!CacheMissed
  <2>3. QED  BY <2>1, <2>2, GoesOn
<1>4. CASE \/ AN!ProductFound \/ AN!AskWhich \/ AN!ProductMissing \/ AN!Recommend \/ AN!Compare
  BY <1>4, CatalogueStep
<1>5. ASSUME NEW hit \in BOOLEAN, AN!Faq(hit) PROVE AnswersInv'
  <2>1. answering # AN!Idle /\ answering.pc = "retrieve" /\ UNCHANGED <<docs, index, shared>>
    BY <1>5 DEF AN!Faq, AN!At, AN!Idle
  <2>2. answering.kind \in {"knowledge", "info"}
    BY <2>1 DEF AnswersInv, TurnOK, GroundedTurn
  <2>3. \/ AN!Goto("done") \/ AN!Goto("recall")
        \/ AN!Concludes(AN!Reply("faq", {}, FALSE))
    BY <1>5 DEF AN!Faq
  <2>4. "faq" \in ReplySources /\ "faq" \notin FromDocuments /\ {} \in SUBSET Texts
    BY DEF ReplySources, FromDocuments
  <2>5. CASE AN!Goto("done") \/ AN!Goto("recall")
    BY <2>1, <2>5, GoesOn
  <2>6. CASE AN!Concludes(AN!Reply("faq", {}, FALSE))
    BY <2>1, <2>2, <2>4, <2>6, ConcludesStep
  <2>7. QED  BY <2>3, <2>5, <2>6
<1>6. ASSUME NEW stored \in BOOLEAN, AN!Store(stored) PROVE AnswersInv'
  <2>1. answering # AN!Idle /\ answering.pc = "store" /\ TurnOK(answering)
    BY <1>6 DEF AN!Store, AN!At, AN!Idle, AnswersInv
  <2>2. shared' \subseteq {{}}
    BY <1>6, <2>1 DEF AN!Store, AN!Cacheable, AnswersInv, TurnOK, DiscreetTurn
  <2>3. answering' = [answering EXCEPT !.pc = "done"] /\ UNCHANGED <<docs, index>>
    BY <1>6 DEF AN!Store, AN!Goto
  <2>4. answering' \in AnsweredTurns
    BY <2>1, <2>3 DEF TurnOK, AnsweredTurns
  <2>5. /\ answering'.pc = "done"
        /\ answering'.reply = answering.reply /\ answering'.hits = answering.hits
        /\ answering'.kind = answering.kind /\ answering'.served = answering.served
        /\ answering'.user = answering.user
    BY <2>1, <2>3 DEF TurnOK, AnsweredTurns
  <2>6. GroundedTurn(answering') /\ DiscreetTurn(answering')
    BY <2>1, <2>5 DEF TurnOK, GroundedTurn, DiscreetTurn
  <2>7. QED  BY <2>1, <2>2, <2>3, <2>4, <2>5, <2>6 DEF AnswersInv, TurnOK, AN!InForce
<1>7. ASSUME NEW vector \in SUBSET index, NEW keyword \in SUBSET AN!Stored,
             AN!Recall(vector, keyword)
      PROVE  AnswersInv'
  <2>1. AN!Stored \subseteq Texts /\ index \subseteq Texts
    BY DEF AN!Stored, AnswersInv, Texts
  <2>2. /\ answering.pc = "recall" /\ UNCHANGED <<docs, index, shared>>
        /\ answering' = [answering EXCEPT !.pc = "chunks", !.recalled = vector \cup keyword]
    BY <1>7 DEF AN!Recall, AN!At
  <2>3. QED  BY <2>1, <2>2, RecallLemma
<1>8. CASE AN!ReadChunks
  <2>1. /\ answering.pc = "chunks" /\ UNCHANGED <<docs, index, shared>>
        /\ answering' = [answering EXCEPT !.pc = "titles",
                                          !.recalled = answering.recalled \cap AN!Stored]
    BY <1>8 DEF AN!ReadChunks, AN!At
  <2>2. answering.recalled \cap AN!Stored \subseteq Texts
    BY DEF AN!Stored, AnswersInv, Texts
  <2>3. QED  BY <2>1, <2>2, RecallLemma
<1>9. ASSUME AN!At("titles"), NEW hits \in AN!Orders(AN!Live(answering.recalled)),
             NEW near \in BOOLEAN, AN!Rank(hits, near)
      PROVE  AnswersInv'
  <2>1. answering # AN!Idle
    BY <1>9 DEF AN!At, AN!Idle
  <2>2. TurnOK(answering) /\ answering.pc = "titles" /\ AN!InForce \subseteq answering.served
    BY <1>9, <2>1 DEF AnswersInv, AN!At
  <2>3. hits \in Seq(Texts) /\ \A i \in DOMAIN hits : hits[i][1] \in AN!InForce
    <3>1. PICK n \in 0..TopK : hits \in [1..n -> AN!Live(answering.recalled)]
      BY DEF AN!Orders
    <3>2. AN!Live(answering.recalled) \subseteq Texts
          /\ \A p \in AN!Live(answering.recalled) : p[1] \in AN!InForce
      BY <2>2 DEF AN!Live, TurnOK, AnsweredTurns
    <3>3. n \in Nat
      BY DEF AN!AnswersAssumption
    <3>4. QED  BY <3>1, <3>2, <3>3
  <2> DEFINE pc == IF AN!Suffices(hits, near) THEN "generate" ELSE "refused"
  <2>4. pc \in {"generate", "refused"} /\ (pc = "generate" => hits # <<>>)
    BY DEF AN!Suffices
  <2>5. /\ answering' = [answering EXCEPT !.hits = hits, !.recalled = {}, !.pc = pc]
        /\ UNCHANGED <<docs, index, shared>>
    BY <1>9 DEF AN!Rank
  <2> HIDE DEF pc
  <2>6. answering' \in AnsweredTurns
    BY <2>2, <2>3, <2>4, <2>5 DEF TurnOK, AnsweredTurns
  <2>7. /\ answering'.pc = pc
        /\ answering'.reply = answering.reply /\ answering'.hits = hits
        /\ answering'.kind = answering.kind /\ answering'.served = answering.served
        /\ answering'.user = answering.user
    BY <2>2, <2>5 DEF TurnOK, AnsweredTurns
  <2>8. GroundedTurn(answering') /\ DiscreetTurn(answering')
    BY <2>2, <2>3, <2>4, <2>7 DEF TurnOK, GroundedTurn, DiscreetTurn
  <2>9. QED  BY <2>2, <2>5, <2>6, <2>7, <2>8 DEF AnswersInv, TurnOK, AN!InForce
<1>10. CASE AN!Degrade
  <2>1. /\ answering.pc \in {"retrieve", "recall", "chunks", "titles", "generate"}
        /\ AN!Goto("refused") /\ UNCHANGED <<docs, index, shared>>
    BY <1>10 DEF AN!Degrade
  <2>2. answering # AN!Idle
    BY <2>1 DEF AN!Idle
  <2>3. QED  BY <2>1, <2>2, GoesOn
<1>11. CASE AN!Extract
  <2>1. answering # AN!Idle /\ answering.pc = "generate"
    BY <1>11 DEF AN!Extract, AN!At, AN!Idle
  <2>2. TurnOK(answering)
    BY <2>1 DEF AnswersInv
  <2>3. /\ answering.kind \in {"knowledge", "info"}
        /\ answering.hits[1] \in Texts /\ answering.hits[1][1] \in answering.served
    <3>1. answering.hits \in Seq(Texts) /\ answering.hits # <<>>
      BY <2>1, <2>2 DEF TurnOK, AnsweredTurns, GroundedTurn
    <3>2. 1 \in DOMAIN answering.hits /\ answering.hits[1] \in Texts
      BY <3>1
    <3>3. QED  BY <2>1, <2>2, <3>2 DEF TurnOK, GroundedTurn
  <2>4. /\ AN!Concludes(AN!Reply("rag_extract", {answering.hits[1]}, FALSE))
        /\ UNCHANGED <<docs, index, shared>>
    BY <1>11 DEF AN!Extract
  <2>5. "rag_extract" \in ReplySources /\ {answering.hits[1]} \in SUBSET Texts
    BY <2>3 DEF ReplySources
  <2>6. QED  BY <2>1, <2>3, <2>4, <2>5, ConcludesStep
<1>12. CASE AN!Clarify \/ AN!Refuse
  <2>1. answering # AN!Idle /\ answering.pc = "refused" /\ UNCHANGED <<docs, index, shared>>
    <3>1. answering.pc = "refused" /\ UNCHANGED <<docs, index, shared>>
      BY <1>12 DEF AN!Clarify, AN!Refuse, AN!At
    <3>2. QED  BY <3>1 DEF AN!Idle
  <2>2. TurnOK(answering) /\ answering.kind \in {"knowledge", "info"}
    BY <2>1 DEF AnswersInv, TurnOK, GroundedTurn
  <2>3. CASE AN!Goto("done")
    BY <2>1, <2>3, GoesOn
  <2>4. CASE AN!Answered(AN!Reply("refused", {}, FALSE), "done")
    <3> DEFINE reply == AN!Reply("refused", {}, FALSE)
    <3>1. reply \in MadeReplies /\ reply.evidence = {} /\ reply.source = "refused"
          /\ reply.about \subseteq {answering.user}
      BY <2>2 DEF AN!Reply, MadeReplies, ReplySources, TurnOK, AnsweredTurns
    <3>2. AN!Answered(reply, "done")
      BY <2>4
    <3> HIDE DEF reply
    <3>3. QED  BY <2>1, <2>2, <3>1, <3>2, IsAnswered DEF Replies, FromDocuments
  <2>5. QED  BY <1>12, <2>3, <2>4 DEF AN!Clarify, AN!Refuse
<1>13. CASE AN!End
  BY <1>13 DEF AN!End, AnswersInv
<1>14. ASSUME AN!At("generate"), NEW cited \in SUBSET AN!Shown, NEW facts \in BOOLEAN,
              AN!Generate(cited, facts)
       PROVE  AnswersInv'
  <2>1. answering # AN!Idle /\ answering.pc = "generate"
    BY <1>14 DEF AN!At, AN!Idle
  <2>2. TurnOK(answering)
    BY <2>1 DEF AnswersInv
  <2>3. /\ answering.kind \in {"knowledge", "info"}
        /\ cited \subseteq Texts /\ \A p \in cited : p[1] \in answering.served
    <3>1. answering.hits \in Seq(Texts)
      BY <2>2 DEF TurnOK, AnsweredTurns
    <3>2. \A i \in DOMAIN answering.hits : answering.hits[i] \in Texts
      BY <3>1
    <3>3. QED  BY <2>1, <2>2, <3>2 DEF TurnOK, GroundedTurn, AN!Shown
  <2>4. /\ AN!Concludes(AN!Reply("rag_llm", cited, facts)) /\ cited # {}
        /\ UNCHANGED <<docs, index, shared>>
    BY <1>14 DEF AN!Generate
  <2>5. "rag_llm" \in ReplySources
    BY DEF ReplySources
  <2>6. QED  BY <2>1, <2>3, <2>4, <2>5, ConcludesStep
<1>15. QED
  BY <1>1, <1>2, <1>3, <1>4, <1>5, <1>6, <1>7, <1>8, <1>9, <1>10, <1>11, <1>12,
     <1>13, <1>14 DEF AN!TurnStep

\* Publishing, withdrawing and rewriting: what comes into force counts as served,
\* what was served stays so.
LEMMA KbStepInv == ASSUME AnswersInv, AN!KbStep PROVE AnswersInv'
<1>1. PICK d \in Documents :
         AN!Publish(d) \/ AN!Withdraw(d) \/ \E cleaned \in BOOLEAN : AN!Rewrite(d, cleaned)
  BY DEF AN!KbStep
<1>2. \E status \in {"draft", "live", "archived"}, text \in Nat : AN!Change(d, status, text)
  BY <1>1 DEF AN!Publish, AN!Withdraw, AN!Rewrite, AnswersInv
<1>3. PICK status \in {"draft", "live", "archived"}, text \in Nat : AN!Change(d, status, text)
  BY <1>2
<1>4. docs' \in [Documents -> [status : {"draft", "live", "archived"}, text : Nat]]
      /\ shared' = shared /\ (AN!InForce)' \subseteq AN!InForce \cup (IF status = "live" THEN {d} ELSE {})
  BY <1>3 DEF AN!Change, AnswersInv, AN!InForce
<1>5. index' \subseteq Texts
  BY <1>1 DEF AN!Publish, AN!Withdraw, AN!Rewrite, AnswersInv, Texts
<1>6. CASE answering = AN!Idle
  BY <1>3, <1>4, <1>5, <1>6 DEF AN!Change, AnswersInv
<1>7. CASE answering # AN!Idle /\ status # "live"
  BY <1>3, <1>4, <1>5, <1>7 DEF AN!Change, AnswersInv
<1>8. CASE answering # AN!Idle /\ status = "live"
  <2>1. answering' = [answering EXCEPT !.served = answering.served \cup {d}]
    BY <1>3, <1>8 DEF AN!Change
  <2>2. TurnOK(answering) /\ AN!InForce \subseteq answering.served
    BY <1>8 DEF AnswersInv
  <2>3. answering' \in AnsweredTurns
    BY <2>1, <2>2 DEF TurnOK, AnsweredTurns
  <2>4. /\ answering'.pc = answering.pc /\ answering'.bypass = answering.bypass
        /\ answering'.reply = answering.reply /\ answering'.hits = answering.hits
        /\ answering'.kind = answering.kind /\ answering'.served = answering.served \cup {d}
        /\ answering'.user = answering.user
    BY <2>1, <2>2 DEF TurnOK, AnsweredTurns
  <2>5. GroundedTurn(answering') /\ DiscreetTurn(answering')
    BY <2>2, <2>4 DEF TurnOK, GroundedTurn, DiscreetTurn
  <2>6. QED  BY <1>4, <1>5, <1>8, <2>2, <2>3, <2>4, <2>5 DEF AnswersInv, TurnOK
<1>9. QED  BY <1>6, <1>7, <1>8

LEMMA AnswersInvariant ==
    ASSUME AN!AnswersAssumption PROVE AN!Spec => []AnswersInv
<1>1. AN!Init => AnswersInv
  BY InitAnswersInv
<1>2. AnswersInv /\ [AN!Next]_AN!vars => AnswersInv'
  <2> SUFFICES ASSUME AnswersInv, [AN!Next]_AN!vars PROVE AnswersInv'
    OBVIOUS
  <2>1. CASE UNCHANGED AN!vars
    BY <2>1 DEF AN!vars, AnswersInv, AN!InForce
  <2>2. QED  BY <2>1, AnswersTurnStep, KbStepInv DEF AN!Next
<1>3. QED  BY <1>1, <1>2, PTL DEF AN!Spec

\* What documents say reaches a user only from one that was in force during the
\* turn, though the index keeps passages of drafts and of withdrawn texts.
THEOREM GroundedTheorem == AN!Spec => []Grounded
<1>1. AnswersInv => Grounded
  BY DEF AnswersInv, TurnOK, GroundedTurn, FromDocuments, Grounded, AN!Grounded
<1>2. QED  BY <1>1, AnsweringAssumption, AnswersInvariant, PTL

\* The semantic cache gives no user what is known of another one: only answers
\* about nobody are ever stored in it.
THEOREM OwnContextTheorem == AN!Spec => []OwnContext
<1>1. AnswersInv => OwnContext
  BY DEF AnswersInv, TurnOK, DiscreetTurn, OwnContext, AN!OwnContext
<1>2. QED  BY <1>1, AnsweringAssumption, AnswersInvariant, PTL

-----------------------------------------------------------------------------
(* Tools *)

\* The tools that may be called to answer a question.
Asking == Reads \cup (Hinted \ Writes)

ToolPcs == {"idle", "invoke", "service", "mock", "failed", "chain", "observe", "answered",
            "nothing", "toolset", "decide", "explain"}
ToolFacts == [tool : Asking, known : BOOLEAN, source : {"service", "mock"}]

ToolRecords ==
    [pc : ToolPcs, left : Seq(Asking), tool : [tool : Asking, known : BOOLEAN] \cup {None},
     facts : SUBSET ToolFacts, allowed : SUBSET Asking, steps : Nat, failures : Nat]

\* While a call is under way its tool is known; the mock is only asked for a tool
\* the service has not declared, or when the fallback says so.
CallOK(turn) ==
    /\ turn.pc = "invoke" => turn.left # <<>>
    /\ turn.pc \in {"service", "mock", "failed"} => turn.tool \in [tool : Asking, known : BOOLEAN]
    /\ turn.pc = "mock" /\ turn.tool.known => McpFallback # "fail"
    /\ \A f \in turn.facts : f.known /\ McpFallback = "fail" => f.source = "service"

ToolTurnOK(turn) == turn \in ToolRecords /\ CallOK(turn)

\* Until a listing fails, what is known of the service is what was listed.
ToolsInv ==
    /\ toolTurns \in [Turns -> ToolRecords]
    /\ \A t \in Turns : CallOK(toolTurns[t])
    /\ provider.known # {} => provider.failed \/ provider.known \subseteq provider.tools
    /\ provider \in [tools : {None, {}, Served}, failed : BOOLEAN, known : SUBSET Served,
                     stale : BOOLEAN]

LEMMA ToolsSafe ==
    ASSUME TO!ToolsAssumption
    PROVE  /\ Chain \in Seq(Asking) /\ Chain # <<>>
           /\ \A tool \in Asking : tool \notin Writes
<1>1. \A i \in DOMAIN Chain : Chain[i] \in Asking
  BY DEF TO!ToolsAssumption, Asking
<1>2. Chain \in Seq(Asking)
  <2>1. Chain \in [1..Len(Chain) -> Asking] /\ Len(Chain) \in Nat
    BY <1>1 DEF TO!ToolsAssumption
  <2>2. QED  BY <2>1
<1>3. QED  BY <1>2 DEF TO!ToolsAssumption, Asking

LEMMA IdleOK == ToolTurnOK(TO!Idle)
<1>1. <<>> \in Seq(Asking)
  OBVIOUS
<1>2. QED  BY <1>1 DEF TO!Idle, ToolTurnOK, ToolRecords, CallOK, ToolPcs

LEMMA InitToolsInv == TO!Init => ToolsInv
<1> SUFFICES ASSUME TO!Init PROVE ToolsInv
  OBVIOUS
<1>1. \A t \in Turns : toolTurns[t] = TO!Idle
  BY DEF TO!Init
<1>2. toolTurns \in [Turns -> ToolRecords] /\ \A t \in Turns : CallOK(toolTurns[t])
  BY <1>1, IdleOK DEF TO!Init, ToolTurnOK
<1>3. QED  BY <1>2 DEF TO!Init, ToolsInv

\* A step of one turn that leaves the provider alone.
LEMMA ToolTurnMoves ==
    ASSUME ToolsInv, NEW t \in Turns, NEW turn, ToolTurnOK(turn),
           toolTurns' = [toolTurns EXCEPT ![t] = turn], provider' = provider
    PROVE  ToolsInv'
BY DEF ToolsInv, ToolTurnOK

\* The turn goes on with the call it makes, with what it knows and may call.
LEMMA ToolTurnGoesOn ==
    ASSUME ToolsInv, NEW t \in Turns, NEW pc \in ToolPcs \ {"invoke", "service", "mock", "failed"},
           TO!Goto(t, pc), provider' = provider
    PROVE  ToolsInv'
<1> DEFINE turn == [toolTurns[t] EXCEPT !.pc = pc]
<1>1. toolTurns[t] \in ToolRecords /\ CallOK(toolTurns[t])
  BY DEF ToolsInv
<1>2. turn \in ToolRecords
  BY <1>1 DEF ToolRecords
<1>3. CallOK(turn)
  BY <1>1 DEF CallOK, ToolRecords
<1>4. toolTurns' = [toolTurns EXCEPT ![t] = turn]
  BY DEF TO!Goto, TO!Set
<1> HIDE DEF turn
<1>5. QED  BY <1>2, <1>3, <1>4, ToolTurnMoves DEF ToolTurnOK

LEMMA ToolDone ==
    ASSUME ToolsInv, NEW t \in Turns, NEW facts \in SUBSET ToolFacts, NEW ok \in BOOLEAN,
           \A f \in facts : f.known /\ McpFallback = "fail" => f.source = "service",
           TO!Done(t, facts, ok), provider' = provider
    PROVE  ToolsInv'
<1>1. toolTurns[t] \in ToolRecords /\ CallOK(toolTurns[t])
  BY DEF ToolsInv
<1> DEFINE agent == toolTurns[t].steps > 0
           pc == IF agent THEN "observe" ELSE "chain"
           failures == IF agent /\ ~ok THEN toolTurns[t].failures + 1 ELSE 0
<1>2. /\ pc \in {"observe", "chain"} /\ failures \in Nat
      /\ toolTurns' = [toolTurns EXCEPT ![t] =
                          [toolTurns[t] EXCEPT !.pc = pc, !.facts = toolTurns[t].facts \cup facts,
                                               !.tool = None, !.failures = failures]]
  <2>1. pc \in {"observe", "chain"} /\ failures \in Nat
    BY <1>1 DEF ToolRecords
  <2>2. QED  BY <2>1 DEF TO!Done, TO!Set
<1> HIDE DEF pc, failures
<1> DEFINE turn == [toolTurns[t] EXCEPT !.pc = pc, !.facts = toolTurns[t].facts \cup facts,
                                        !.tool = None, !.failures = failures]
<1>3. turn \in ToolRecords
  BY <1>1, <1>2 DEF ToolRecords, ToolPcs
<1>4. turn.pc = pc /\ turn.facts = toolTurns[t].facts \cup facts
  BY <1>1 DEF ToolRecords
<1>5. toolTurns' = [toolTurns EXCEPT ![t] = turn]
  BY <1>2
<1> HIDE DEF turn
<1>6. CallOK(turn)
  BY <1>1, <1>2, <1>4 DEF CallOK
<1>7. QED  BY <1>3, <1>5, <1>6, ToolTurnMoves DEF ToolTurnOK

\* Where a call goes: to the service; to the mock when the tool is unknown to this
\* process or the fallback is the mock; or nowhere.
LEMMA InvokeStep ==
    ASSUME ToolsInv, NEW t \in Turns, TO!Invoke(t) PROVE ToolsInv'
<1> DEFINE before == toolTurns[t]
           tool == Head(before.left)
           known == tool \in provider.known
           route == IF tool \in provider.tools THEN "service"
                    ELSE IF provider.failed THEN TO!Degraded(known) ELSE "mock"
           turn == [before EXCEPT !.pc = route, !.left = Tail(before.left),
                                  !.tool = [tool |-> tool, known |-> known]]
<1>1. before \in ToolRecords /\ before.left \in Seq(Asking) /\ before.left # <<>> /\ CallOK(before)
  BY DEF ToolsInv, TO!Invoke, TO!At, CallOK, ToolRecords
<1>2. tool \in Asking /\ Tail(before.left) \in Seq(Asking)
  <2>1. \A s \in Seq(Asking) : s # <<>> => Head(s) \in Asking /\ Tail(s) \in Seq(Asking)
    OBVIOUS
  <2> HIDE DEF before
  <2>2. QED  BY <1>1, <2>1
<1>3. route \in {"service", "mock", "failed"} /\ (route = "mock" /\ known => McpFallback # "fail")
  BY DEF ToolsInv, TO!Degraded
<1>4. toolTurns' = [toolTurns EXCEPT ![t] = turn] /\ provider' = provider
  BY DEF TO!Invoke, TO!Set
<1> HIDE DEF tool, known, route
<1>5. known \in BOOLEAN
  BY DEF known
<1> HIDE DEF before
<1>6. turn \in ToolRecords
  BY <1>1, <1>2, <1>3, <1>5 DEF ToolRecords, ToolPcs
<1>7. turn.pc = route /\ turn.tool = [tool |-> tool, known |-> known] /\ turn.facts = before.facts
  BY <1>1 DEF ToolRecords
<1> HIDE DEF turn
<1>8. CallOK(turn)
  BY <1>1, <1>2, <1>3, <1>5, <1>7 DEF CallOK
<1>9. QED  BY <1>4, <1>6, <1>8, ToolTurnMoves DEF ToolTurnOK

LEMMA ToolStep ==
    ASSUME TO!ToolsAssumption, ToolsInv, NEW t \in Turns, TO!Step(t) PROVE ToolsInv'
<1>1. toolTurns[t] \in ToolRecords /\ CallOK(toolTurns[t])
  BY DEF ToolsInv
<1>2. CASE TO!List(t)
  BY <1>2 DEF TO!List, ToolsInv
<1>3. CASE TO!Listed(t)
  <2>1. toolTurns' = toolTurns
        /\ provider' = [tools |-> Served, failed |-> FALSE, known |-> Served, stale |-> FALSE]
    BY <1>3 DEF TO!Listed
  <2>2. QED  BY <2>1 DEF ToolsInv
<1>4. CASE TO!ListFailed(t)
  <2>1. toolTurns' = toolTurns
        /\ provider' = [provider EXCEPT !.tools = {}, !.failed = TRUE, !.stale = FALSE]
    BY <1>4 DEF TO!ListFailed
  <2>2. QED  BY <2>1 DEF ToolsInv
<1>5. CASE TO!Invoke(t)
  BY <1>5, InvokeStep
<1>6. CASE TO!ServiceFails(t)
  <2> DEFINE route == TO!Degraded(toolTurns[t].tool.known)
             turn == [toolTurns[t] EXCEPT !.pc = route]
  <2>1. /\ route \in {"failed", "mock"}
        /\ route = "mock" /\ toolTurns[t].tool.known => McpFallback # "fail"
    BY DEF TO!Degraded
  <2>2. /\ toolTurns[t].pc = "service"
        /\ toolTurns' = [toolTurns EXCEPT ![t] = turn] /\ provider' = provider
    BY <1>6 DEF TO!ServiceFails, TO!At, TO!Goto, TO!Set
  <2> HIDE DEF route
  <2>3. turn \in ToolRecords
    BY <1>1, <2>1 DEF ToolRecords, ToolPcs
  <2>4. turn.pc = route /\ turn.tool = toolTurns[t].tool /\ turn.facts = toolTurns[t].facts
    BY <1>1 DEF ToolRecords
  <2> HIDE DEF turn
  <2>5. CallOK(turn)
    BY <1>1, <2>1, <2>2, <2>4 DEF CallOK
  <2>6. QED  BY <2>2, <2>3, <2>5, ToolTurnMoves DEF ToolTurnOK
<1>7. CASE TO!CallFailed(t)
  <2>1. /\ TO!Done(t, {}, FALSE) /\ provider' = provider
        /\ {} \in SUBSET ToolFacts /\ FALSE \in BOOLEAN
        /\ \A f \in {} : f.known /\ McpFallback = "fail" => f.source = "service"
    BY <1>7 DEF TO!CallFailed
  <2>2. QED  BY <2>1, ToolDone
<1>8. ASSUME NEW b \in BOOLEAN, TO!Begin(t, b) PROVE ToolsInv'
  <2>1. PICK turn \in {[TO!Idle EXCEPT !.pc = "invoke", !.left = Chain],
                       [TO!Idle EXCEPT !.pc = "answered"]} :
           toolTurns' = [toolTurns EXCEPT ![t] = turn] /\ provider' = provider
    BY <1>8 DEF TO!Begin, TO!Set
  <2>2. turn \in ToolRecords /\ turn.facts = {} /\ turn.pc \in {"invoke", "answered"}
        /\ (turn.pc = "invoke" => turn.left # <<>>)
    BY ToolsSafe, IdleOK DEF ToolTurnOK, TO!Idle, ToolRecords, ToolPcs
  <2>3. CallOK(turn)
    BY <2>2 DEF CallOK
  <2>4. QED  BY <2>1, <2>2, <2>3, ToolTurnMoves DEF ToolTurnOK
<1>9. ASSUME NEW b \in BOOLEAN, TO!ServiceAnswers(t, b) PROVE ToolsInv'
  <2> DEFINE fact == TO!Fact(t, "service")
  <2>1. toolTurns[t].tool \in [tool : Asking, known : BOOLEAN]
    BY <1>1, <1>9 DEF TO!ServiceAnswers, TO!At, CallOK
  <2>2. fact \in ToolFacts /\ fact.source = "service"
    BY <2>1 DEF TO!Fact, ToolFacts
  <2>3. PICK facts \in {{}, {fact}} : TO!Done(t, facts, TRUE) /\ provider' = provider
    BY <1>9 DEF TO!ServiceAnswers
  <2> HIDE DEF fact
  <2>4. QED  BY <2>2, <2>3, ToolDone
<1>10. ASSUME NEW b \in BOOLEAN, TO!MockAnswers(t, b) PROVE ToolsInv'
  <2> DEFINE fact == TO!Fact(t, "mock")
  <2>1. /\ toolTurns[t].tool \in [tool : Asking, known : BOOLEAN]
        /\ toolTurns[t].tool.known => McpFallback # "fail"
    BY <1>1, <1>10 DEF TO!MockAnswers, TO!At, CallOK
  <2>2. fact \in ToolFacts /\ (fact.known => McpFallback # "fail")
    BY <2>1 DEF TO!Fact, ToolFacts
  <2>3. PICK facts \in {{}, {fact}} : TO!Done(t, facts, b) /\ provider' = provider
    BY <1>10 DEF TO!MockAnswers
  <2> HIDE DEF fact
  <2>4. QED  BY <2>2, <2>3, ToolDone
<1>11. ASSUME NEW b \in BOOLEAN, TO!Proceed(t, b) PROVE ToolsInv'
  <2>1. provider' = provider
    BY <1>11 DEF TO!Proceed
  <2>2. CASE toolTurns[t].left # <<>> /\ TO!Goto(t, "invoke")
    <3> DEFINE turn == [toolTurns[t] EXCEPT !.pc = "invoke"]
    <3>1. turn \in ToolRecords /\ turn.pc = "invoke" /\ turn.left = toolTurns[t].left
          /\ turn.facts = toolTurns[t].facts
      BY <1>1 DEF ToolRecords, ToolPcs
    <3>2. toolTurns' = [toolTurns EXCEPT ![t] = turn]
      BY <2>2 DEF TO!Goto, TO!Set
    <3> HIDE DEF turn
    <3>3. CallOK(turn)
      BY <1>1, <2>2, <3>1 DEF CallOK
    <3>4. QED  BY <2>1, <3>1, <3>2, <3>3, ToolTurnMoves DEF ToolTurnOK
  <2>3. CASE \E pc \in {"toolset", "answered", "nothing"} : TO!Goto(t, pc)
    BY <2>1, <2>3, ToolTurnGoesOn DEF ToolPcs
  <2>4. QED  BY <1>11, <2>2, <2>3 DEF TO!Proceed
<1>12. CASE TO!Nothing(t) \/ TO!Explain(t)
  <2>1. TO!Goto(t, "answered") /\ provider' = provider
    BY <1>12 DEF TO!Nothing, TO!Explain
  <2>2. QED  BY <2>1, ToolTurnGoesOn DEF ToolPcs
<1>13. CASE TO!Toolset(t)
  <2>1. PICK allowed \in SUBSET Asking :
           toolTurns' = [toolTurns EXCEPT ![t] =
                            [toolTurns[t] EXCEPT !.pc = "decide", !.failures = 0, !.steps = 1,
                                                 !.allowed = allowed]]
    BY <1>13 DEF TO!Toolset, TO!Set, Asking
  <2> DEFINE turn == [toolTurns[t] EXCEPT !.pc = "decide", !.failures = 0, !.steps = 1,
                                          !.allowed = allowed]
  <2>2. turn \in ToolRecords
    BY <1>1 DEF ToolRecords, ToolPcs
  <2>3. turn.pc = "decide" /\ turn.facts = toolTurns[t].facts
    BY <1>1 DEF ToolRecords
  <2>4. toolTurns' = [toolTurns EXCEPT ![t] = turn] /\ provider' = provider
    BY <1>13, <2>1 DEF TO!Toolset
  <2> HIDE DEF turn
  <2>5. CallOK(turn)
    BY <1>1, <2>3 DEF CallOK
  <2>6. QED  BY <2>2, <2>4, <2>5, ToolTurnMoves DEF ToolTurnOK
<1>14. ASSUME NEW tool, TO!Decide(t, tool) PROVE ToolsInv'
  <2>1. provider' = provider
    BY <1>14 DEF TO!Decide
  <2>2. CASE tool \in toolTurns[t].allowed
    <3> DEFINE turn == [toolTurns[t] EXCEPT !.pc = "invoke", !.left = <<tool>>]
    <3>1. <<tool>> \in Seq(Asking) /\ <<tool>> # <<>>
      BY <1>1, <2>2 DEF ToolRecords
    <3>2. turn \in ToolRecords
      BY <1>1, <3>1 DEF ToolRecords, ToolPcs
    <3>3. turn.pc = "invoke" /\ turn.left = <<tool>> /\ turn.facts = toolTurns[t].facts
      BY <1>1 DEF ToolRecords
    <3>4. toolTurns' = [toolTurns EXCEPT ![t] = turn]
      BY <1>14, <2>2 DEF TO!Decide, TO!Set
    <3> HIDE DEF turn
    <3>5. CallOK(turn)
      BY <1>1, <3>1, <3>3 DEF CallOK
    <3>6. QED  BY <2>1, <3>2, <3>4, <3>5, ToolTurnMoves DEF ToolTurnOK
  <2>3. CASE tool \notin toolTurns[t].allowed
    <3>1. TO!Goto(t, "explain")
      BY <1>14, <2>3 DEF TO!Decide, TO!Set, TO!Goto
    <3>2. QED  BY <2>1, <3>1, ToolTurnGoesOn DEF ToolPcs
  <2>4. QED  BY <2>2, <2>3
<1>15. CASE TO!Observe(t)
  <2>1. PICK pc \in {"explain", "decide"}, steps \in Nat :
           toolTurns' = [toolTurns EXCEPT ![t] = [toolTurns[t] EXCEPT !.pc = pc, !.steps = steps]]
    <3>1. toolTurns[t].steps \in Nat /\ toolTurns[t].steps + 1 \in Nat
          /\ toolTurns[t] = [toolTurns[t] EXCEPT !.steps = toolTurns[t].steps]
      BY <1>1 DEF ToolRecords
    <3>2. [toolTurns[t] EXCEPT !.pc = "explain"]
            = [toolTurns[t] EXCEPT !.pc = "explain", !.steps = toolTurns[t].steps]
      BY <1>1 DEF ToolRecords
    <3>3. QED  BY <1>15, <3>1, <3>2 DEF TO!Observe, TO!Set
  <2> DEFINE turn == [toolTurns[t] EXCEPT !.pc = pc, !.steps = steps]
  <2>2. turn \in ToolRecords
    BY <1>1 DEF ToolRecords, ToolPcs
  <2>3. turn.pc = pc /\ turn.facts = toolTurns[t].facts
    BY <1>1 DEF ToolRecords
  <2>4. toolTurns' = [toolTurns EXCEPT ![t] = turn] /\ provider' = provider
    BY <1>15, <2>1 DEF TO!Observe
  <2> HIDE DEF turn
  <2>5. CallOK(turn)
    BY <1>1, <2>3 DEF CallOK
  <2>6. QED  BY <2>2, <2>4, <2>5, ToolTurnMoves DEF ToolTurnOK
<1>16. CASE TO!End(t)
  BY <1>16, IdleOK, ToolTurnMoves DEF TO!End, TO!Set
<1>17. QED
  BY <1>2, <1>3, <1>4, <1>5, <1>6, <1>7, <1>8, <1>9, <1>10, <1>11, <1>12, <1>13,
     <1>14, <1>15, <1>16 DEF TO!Step

LEMMA ToolsInvariant ==
    ASSUME TO!ToolsAssumption PROVE TO!Spec => []ToolsInv
<1>1. TO!Init => ToolsInv
  BY InitToolsInv
<1>2. ToolsInv /\ [TO!Next]_TO!vars => ToolsInv'
  <2> SUFFICES ASSUME ToolsInv, [TO!Next]_TO!vars PROVE ToolsInv'
    OBVIOUS
  <2>1. CASE TO!MinutePasses
    <3>1. toolTurns' = toolTurns /\ provider' = [provider EXCEPT !.stale = TRUE]
      BY <2>1 DEF TO!MinutePasses
    <3>2. QED  BY <3>1 DEF ToolsInv
  <2>2. CASE TO!Restart
    <3>1. \A t \in Turns : toolTurns'[t] = TO!Idle
      BY <2>2 DEF TO!Restart
    <3>2. toolTurns' \in [Turns -> ToolRecords] /\ \A t \in Turns : CallOK(toolTurns'[t])
      BY <2>2, <3>1, IdleOK DEF TO!Restart, ToolTurnOK
    <3>3. QED  BY <2>2, <3>2 DEF TO!Restart, ToolsInv
  <2>3. CASE TO!Outage
    BY <2>3 DEF TO!Outage, ToolsInv
  <2>4. CASE UNCHANGED TO!vars
    BY <2>4 DEF TO!vars, ToolsInv
  <2>5. QED  BY <2>1, <2>2, <2>3, <2>4, ToolStep DEF TO!Next
<1>3. QED  BY <1>1, <1>2, PTL DEF TO!Spec

\* Once the service has declared a tool, the mock's data for it reach a user only
\* if the fallback asks for that; and no question is answered with a writing tool.
THEOREM NoInventedFactsTheorem == TO!Spec => []NoInventedFacts
<1>1. ToolsInv => NoInventedFacts
  <2> SUFFICES ASSUME ToolsInv, NEW t \in Turns
               PROVE  /\ \A f \in toolTurns[t].facts :
                            f.known /\ McpFallback = "fail" => f.source = "service"
                      /\ toolTurns[t].tool # None => toolTurns[t].tool.tool \notin Writes
    BY DEF NoInventedFacts, TO!NoInventedFacts
  <2>1. \A tool \in Asking : tool \notin Writes
    BY AnsweringAssumption, ToolsSafe
  <2>2. QED  BY <2>1 DEF ToolsInv, CallOK, ToolRecords
<1>2. QED  BY <1>1, AnsweringAssumption, ToolsInvariant, PTL

-----------------------------------------------------------------------------
(* Calls of language models *)

LlmPcs == {"none", "ready", "queued", "done", "checked", "calling", "account"}

\* A call that has passed the check of the budget and is not accounted for yet.
UnderWay == {k \in LL!Tasks : calls[k].pc \in {"checked", "calling", "account"}}

LlmTypes ==
    /\ clock \in Nat
    /\ spent \in Nat
    /\ missed \in BOOLEAN
    /\ calls \in [LL!Tasks -> [pc : LlmPcs, deadline : Nat \cup {None},
                               until : Nat \cup {None}, hurried : BOOLEAN]]

\* A turn keeps the deadline it started with and gives its call up by then; a
\* task of the memory has dropped the one it inherited before it asks anything.
Punctual(t) ==
    LET call == calls[<<t, "turn">>] IN
    /\ call.pc # "none" => call.deadline \in Nat
    /\ call.pc = "calling" =>
          call.until \in Nat /\ clock <= call.until /\ call.until <= call.deadline

Unhurried(t) ==
    LET call == calls[<<t, "memory">>] IN
    /\ ~call.hurried
    /\ call.pc \notin {"none", "queued"} => call.deadline = None

\* What is spent, with what is under way, stays within the limit: WithinLimits
\* alone forgets the calls that have been let through and not yet counted.
Frugal ==
    ~missed => spent + Tokens * Cardinality(UnderWay)
                  < DailyTokens + Tokens * Cardinality(LL!Tasks)

LlmInv ==
    /\ LlmTypes
    /\ \A t \in Turns : Punctual(t) /\ Unhurried(t)
    /\ Frugal

LEMMA LlmFinite ==
    ASSUME LL!LlmAssumption
    PROVE  /\ IsFiniteSet(LL!Tasks) /\ Cardinality(LL!Tasks) \in Nat
           /\ \A S \in SUBSET LL!Tasks :
                 /\ IsFiniteSet(S) /\ Cardinality(S) \in Nat
                 /\ Cardinality(S) <= Cardinality(LL!Tasks)
                 /\ Tokens * Cardinality(S) \in Nat
                 /\ Tokens * Cardinality(S) <= Tokens * Cardinality(LL!Tasks)
<1>1. IsFiniteSet(Turns)
  BY DEF LL!LlmAssumption, LL!IsFiniteSet, IsFiniteSet
<1>2. IsFiniteSet({"turn", "memory"})
  <2>1. {"turn", "memory"} = {"turn"} \cup {"memory"}
    OBVIOUS
  <2>2. IsFiniteSet({"turn"}) /\ IsFiniteSet({"memory"})
    BY FS_Singleton
  <2>3. QED  BY <2>1, <2>2, FS_Union
<1>3. IsFiniteSet(LL!Tasks)
  BY <1>1, <1>2, FS_Product DEF LL!Tasks
<1>4. Cardinality(LL!Tasks) \in Nat
  BY <1>3, FS_CardinalityType
<1>5. ASSUME NEW S \in SUBSET LL!Tasks
      PROVE  /\ IsFiniteSet(S) /\ Cardinality(S) \in Nat
             /\ Cardinality(S) <= Cardinality(LL!Tasks)
  BY <1>3, FS_Subset, FS_CardinalityType
<1>6. \A m, n \in Nat : m <= n => Tokens * m \in Nat /\ Tokens * m <= Tokens * n
  BY DEF LL!LlmAssumption
<1>7. QED  BY <1>3, <1>4, <1>5, <1>6

LEMMA InitLlmInv == ASSUME LL!LlmAssumption, LL!Init PROVE LlmInv
<1>1. \A k \in LL!Tasks : calls[k] = LL!Unstarted
  BY DEF LL!Init
<1>2. LlmTypes
  BY DEF LL!Init, LlmTypes, LL!Unstarted, LlmPcs
<1>3. \A t \in Turns : Punctual(t) /\ Unhurried(t)
  BY <1>1 DEF Punctual, Unhurried, LL!Unstarted, LL!Tasks
<1>4. Frugal
  <2>1. UnderWay = {}
    BY <1>1 DEF UnderWay, LL!Unstarted
  <2>2. Cardinality(UnderWay) = 0
    BY <2>1, FS_EmptySet
  <2>3. Tokens * Cardinality(UnderWay) = 0 /\ Tokens * Cardinality(LL!Tasks) \in Nat
    BY <2>2, LlmFinite DEF LL!LlmAssumption
  <2>4. spent = 0 /\ DailyTokens \in Nat /\ DailyTokens > 0
    BY DEF LL!Init, LL!LlmAssumption
  <2> HIDE DEF UnderWay
  <2>5. QED  BY <2>3, <2>4 DEF Frugal
<1>5. QED  BY <1>2, <1>3, <1>4 DEF LlmInv

\* A step of one task that asks nothing more: the punctuality of the others is
\* theirs.
LEMMA OneCallMoves ==
    ASSUME LlmInv, NEW k \in LL!Tasks,
           NEW call \in [pc : LlmPcs, deadline : Nat \cup {None},
                         until : Nat \cup {None}, hurried : BOOLEAN],
           calls' = [calls EXCEPT ![k] = call], clock' = clock,
           k[2] = "turn" =>
              /\ call.pc # "none" => call.deadline \in Nat
              /\ call.pc = "calling" =>
                    call.until \in Nat /\ clock <= call.until /\ call.until <= call.deadline,
           k[2] = "memory" =>
              /\ ~call.hurried
              /\ call.pc \notin {"none", "queued"} => call.deadline = None
    PROVE  \A t \in Turns : Punctual(t)' /\ Unhurried(t)'
<1> SUFFICES ASSUME NEW t \in Turns PROVE Punctual(t)' /\ Unhurried(t)'
  OBVIOUS
<1>1. Punctual(t) /\ Unhurried(t)
  BY DEF LlmInv
<1>2. <<t, "turn">> \in LL!Tasks /\ <<t, "memory">> \in LL!Tasks
  BY DEF LL!Tasks
<1>3. \A j \in LL!Tasks : calls'[j] = IF j = k THEN call ELSE calls[j]
  BY DEF LlmInv, LlmTypes
<1>4. Punctual(t)'
  <2>1. CASE k = <<t, "turn">>
    BY <1>2, <1>3, <2>1 DEF Punctual
  <2>2. CASE k # <<t, "turn">>
    BY <1>1, <1>2, <1>3, <2>2 DEF Punctual
  <2>3. QED  BY <2>1, <2>2
<1>5. Unhurried(t)'
  <2>1. CASE k = <<t, "memory">>
    BY <1>2, <1>3, <2>1 DEF Unhurried
  <2>2. CASE k # <<t, "memory">>
    BY <1>1, <1>2, <1>3, <2>2 DEF Unhurried
  <2>3. QED  BY <2>1, <2>2
<1>6. QED  BY <1>4, <1>5

\* No call is let through, or the budget is not used up.
LEMMA FrugalStep ==
    ASSUME LL!LlmAssumption, LlmInv, UnderWay' \subseteq LL!Tasks,
           spent' = spent, missed' = missed,
           UnderWay' \subseteq UnderWay \/ spent < DailyTokens
    PROVE  Frugal'
<1>1. SUFFICES ASSUME ~missed
               PROVE  spent + Tokens * Cardinality(UnderWay')
                         < DailyTokens + Tokens * Cardinality(LL!Tasks)
  BY DEF Frugal
<1>2. UnderWay \subseteq LL!Tasks
  BY DEF UnderWay
<1>3. /\ spent \in Nat /\ DailyTokens \in Nat
      /\ Tokens * Cardinality(LL!Tasks) \in Nat
      /\ Tokens * Cardinality(UnderWay) \in Nat
      /\ Tokens * Cardinality(UnderWay') \in Nat
      /\ Tokens * Cardinality(UnderWay') <= Tokens * Cardinality(LL!Tasks)
  <2>1. LL!Tasks \subseteq LL!Tasks
    OBVIOUS
  <2>2. QED  BY <1>2, <2>1, LlmFinite DEF LlmInv, LlmTypes, LL!LlmAssumption
<1>4. CASE spent < DailyTokens
  BY <1>3, <1>4
<1>5. CASE UnderWay' \subseteq UnderWay
  <2>1. Cardinality(UnderWay') <= Cardinality(UnderWay)
        /\ Cardinality(UnderWay) \in Nat /\ Cardinality(UnderWay') \in Nat
    BY <1>2, <1>5, LlmFinite, FS_Subset
  <2>2. Tokens * Cardinality(UnderWay') <= Tokens * Cardinality(UnderWay)
    <3>1. \A m, n \in Nat : m <= n => Tokens * m <= Tokens * n
      BY DEF LL!LlmAssumption
    <3>2. QED  BY <2>1, <3>1
  <2>3. spent + Tokens * Cardinality(UnderWay)
           < DailyTokens + Tokens * Cardinality(LL!Tasks)
    BY <1>1 DEF LlmInv, Frugal
  <2>4. QED  BY <1>3, <2>2, <2>3
<1>6. QED  BY <1>4, <1>5

\* A step of one task from pc to next, apart from the tokens.
LEMMA CallStep ==
    ASSUME LL!LlmAssumption, LlmInv, NEW k \in LL!Tasks,
           \/ LL!Check(k) \/ LL!CheckFailed(k) \/ LL!Call(k) \/ LL!Answered(k) \/ LL!Failed(k)
           \/ \E counted \in BOOLEAN : LL!Account(k, counted)
    PROVE  /\ LlmTypes' /\ \A t \in Turns : Punctual(t)' /\ Unhurried(t)'
           /\ \A j \in LL!Tasks \ {k} : calls'[j] = calls[j]
<1> DEFINE call == calls[k]
           Calls == [pc : LlmPcs, deadline : Nat \cup {None},
                     until : Nat \cup {None}, hurried : BOOLEAN]
           OK(c) == /\ c \in Calls
                    /\ k[2] = "turn" =>
                          /\ c.pc # "none" => c.deadline \in Nat
                          /\ c.pc = "calling" =>
                                c.until \in Nat /\ clock <= c.until /\ c.until <= c.deadline
                    /\ k[2] = "memory" =>
                          /\ ~c.hurried
                          /\ c.pc \notin {"none", "queued"} => c.deadline = None
<1>1. call \in Calls /\ clock \in Nat
  BY DEF LlmInv, LlmTypes
<1>2. PICK t \in Turns : k = <<t, "turn">> \/ k = <<t, "memory">>
  BY DEF LL!Tasks
<1>3. OK(call)
  <2>1. Punctual(t) /\ Unhurried(t)
    BY DEF LlmInv
  <2>2. CASE k = <<t, "turn">>
    BY <1>1, <2>1, <2>2 DEF Punctual
  <2>3. CASE k = <<t, "memory">>
    BY <1>1, <2>1, <2>3 DEF Unhurried
  <2>4. QED  BY <1>2, <2>2, <2>3
<1>4. ASSUME NEW pc \in {"ready", "checked", "account"},
             call.pc \notin {"none", "queued"},
             LL!Set(k, [call EXCEPT !.pc = pc]) \/ LL!Set(k, [call EXCEPT !.pc = pc, !.until = None])
      PROVE  \E c : OK(c) /\ LL!Set(k, c)
  <2>1. /\ [call EXCEPT !.pc = pc] \in Calls
        /\ [call EXCEPT !.pc = pc, !.until = None] \in Calls
    BY <1>1, <1>4 DEF LlmPcs
  <2>2. OK([call EXCEPT !.pc = pc]) /\ OK([call EXCEPT !.pc = pc, !.until = None])
    <3> DEFINE c == [call EXCEPT !.pc = pc]
               d == [call EXCEPT !.pc = pc, !.until = None]
    <3>1. /\ c.pc = pc /\ c.deadline = call.deadline /\ c.hurried = call.hurried
          /\ d.pc = pc /\ d.deadline = call.deadline /\ d.hurried = call.hurried
      BY <1>1
    <3> HIDE DEF c, d, call, Calls
    <3>2. OK(c) /\ OK(d)
      BY <1>3, <1>4, <2>1, <3>1 DEF c, d
    <3>3. QED  BY <3>2 DEF c, d
  <2> HIDE DEF call, OK
  <2>3. QED  BY <1>4, <2>2
<1>5. \E c : OK(c) /\ LL!Set(k, c)
  <2>1. CASE LL!Check(k) \/ LL!CheckFailed(k)
    <3>1. call.pc = "ready"
      BY <2>1 DEF LL!Check, LL!CheckFailed, LL!At
    <3>2. \E pc \in {"ready", "checked"} : LL!Set(k, [call EXCEPT !.pc = pc])
      BY <2>1 DEF LL!Check, LL!CheckFailed
    <3> HIDE DEF call, OK
    <3>3. QED  BY <1>4, <3>1, <3>2
  <2>2. CASE LL!Answered(k) \/ LL!Failed(k)
    <3>1. call.pc = "calling"
      BY <2>2 DEF LL!Answered, LL!Failed, LL!At
    <3>2. \E pc \in {"ready", "account"} : LL!Set(k, [call EXCEPT !.pc = pc, !.until = None])
      BY <2>2 DEF LL!Answered, LL!Failed
    <3> HIDE DEF call, OK
    <3>3. QED  BY <1>4, <3>1, <3>2
  <2>3. CASE \E counted \in BOOLEAN : LL!Account(k, counted)
    <3>1. call.pc = "account" /\ LL!Set(k, [call EXCEPT !.pc = "ready"])
      BY <2>3 DEF LL!Account, LL!At
    <3> HIDE DEF call, OK
    <3>2. QED  BY <1>4, <3>1
  <2>4. CASE LL!Call(k) /\ (call.deadline # None /\ clock + 1 > call.deadline)
    <3> DEFINE c == [call EXCEPT !.pc = "ready", !.hurried = TRUE]
    <3>1. call.pc = "checked" /\ LL!Set(k, c)
      BY <2>4 DEF LL!Call, LL!At, LL!MinUseful
    <3>2. c \in Calls /\ c.pc = "ready" /\ c.deadline = call.deadline
      BY <1>1 DEF LlmPcs
    <3> HIDE DEF c, call, Calls
    <3>3. k[2] # "memory"
      BY <1>3, <2>4, <3>1
    <3>4. OK(c)
      BY <1>3, <3>1, <3>2, <3>3
    <3> HIDE DEF OK
    <3>5. QED  BY <3>1, <3>4
  <2>5. CASE LL!Call(k) /\ ~(call.deadline # None /\ clock + 1 > call.deadline)
    <3> DEFINE c == [call EXCEPT !.pc = "calling", !.until = LL!Until(call)]
    <3>1. call.pc = "checked" /\ LL!Set(k, c)
      BY <2>5 DEF LL!Call, LL!At, LL!MinUseful
    <3>2. LL!Until(call) \in Nat
      BY <1>1 DEF LL!Until, LL!LlmAssumption
    <3>3. c \in Calls
      BY <1>1, <3>2 DEF LlmPcs
    <3>4. c.pc = "calling" /\ c.deadline = call.deadline /\ c.until = LL!Until(call)
          /\ c.hurried = call.hurried
      BY <1>1
    <3> HIDE DEF c, call, Calls
    <3>5. ASSUME k[2] = "turn"
          PROVE  clock <= LL!Until(call) /\ LL!Until(call) <= call.deadline
      <4>1. call.deadline \in Nat /\ call.deadline # None
        BY <1>3, <3>1, <3>5 DEF LL!LlmAssumption
      <4>2. clock + 1 <= call.deadline
        BY <1>1, <2>5, <4>1
      <4>3. QED  BY <1>1, <4>1, <4>2 DEF LL!Until, LL!LlmAssumption
    <3>6. OK(c)
      BY <1>3, <3>1, <3>2, <3>3, <3>4, <3>5
    <3> HIDE DEF OK
    <3>7. QED  BY <3>1, <3>6
  <2>6. QED  BY <2>1, <2>2, <2>3, <2>4, <2>5
<1>6. PICK c : OK(c) /\ LL!Set(k, c)
  BY <1>5
<1>7. calls' = [calls EXCEPT ![k] = c] /\ clock' = clock
  BY <1>6 DEF LL!Set, LL!Check, LL!CheckFailed, LL!Call, LL!Answered, LL!Failed, LL!Account
<1>8. spent' \in Nat /\ missed' \in BOOLEAN
  <2>1. spent \in Nat /\ missed \in BOOLEAN /\ Tokens \in Nat /\ spent + Tokens \in Nat
    BY DEF LlmInv, LlmTypes, LL!LlmAssumption
  <2>2. ASSUME NEW counted \in BOOLEAN, LL!Account(k, counted)
        PROVE  spent' \in Nat /\ missed' \in BOOLEAN
    BY <2>1, <2>2 DEF LL!Account
  <2>3. CASE \/ LL!Check(k) \/ LL!CheckFailed(k) \/ LL!Call(k) \/ LL!Answered(k)
             \/ LL!Failed(k)
    BY <2>1, <2>3 DEF LL!Check, LL!CheckFailed, LL!Call, LL!Answered, LL!Failed
  <2>4. QED  BY <2>2, <2>3
<1>9. LlmTypes'
  BY <1>6, <1>7, <1>8 DEF LlmInv, LlmTypes
<1>10. \A t1 \in Turns : Punctual(t1)' /\ Unhurried(t1)'
  BY <1>6, <1>7, OneCallMoves
<1>11. \A j \in LL!Tasks \ {k} : calls'[j] = calls[j]
  BY <1>7 DEF LlmInv, LlmTypes
<1>12. QED  BY <1>9, <1>10, <1>11

\* The tokens of a step of one task.
LEMMA CallFrugal ==
    ASSUME LL!LlmAssumption, LlmInv, NEW k \in LL!Tasks,
           \/ LL!Check(k) \/ LL!CheckFailed(k) \/ LL!Call(k) \/ LL!Answered(k) \/ LL!Failed(k)
           \/ \E counted \in BOOLEAN : LL!Account(k, counted)
    PROVE  Frugal'
<1>1. \A j \in LL!Tasks \ {k} : calls'[j] = calls[j]
  BY CallStep
<1>2. calls \in [LL!Tasks -> [pc : LlmPcs, deadline : Nat \cup {None},
                              until : Nat \cup {None}, hurried : BOOLEAN]]
  BY DEF LlmInv, LlmTypes
<1>3. UnderWay' \subseteq LL!Tasks
  BY DEF UnderWay
<1>4. CASE LL!Check(k)
  <2>1. spent' = spent /\ missed' = missed
    BY <1>4 DEF LL!Check
  <2>2. spent >= DailyTokens => calls'[k].pc = "ready"
    BY <1>2, <1>4 DEF LL!Check, LL!Set
  <2>3. spent >= DailyTokens => UnderWay' \subseteq UnderWay
    BY <1>1, <2>2 DEF UnderWay
  <2>4. spent >= DailyTokens \/ spent < DailyTokens
    BY DEF LlmInv, LlmTypes, LL!LlmAssumption
  <2>5. QED  BY <1>3, <2>1, <2>3, <2>4, FrugalStep
<1>5. CASE LL!CheckFailed(k)
  BY <1>5 DEF LL!CheckFailed, Frugal
<1>6. CASE LL!Call(k) \/ LL!Answered(k) \/ LL!Failed(k)
  <2>1. spent' = spent /\ missed' = missed
    BY <1>6 DEF LL!Call, LL!Answered, LL!Failed
  <2>2. k \in UnderWay
    BY <1>6 DEF LL!Call, LL!Answered, LL!Failed, LL!At, UnderWay
  <2>3. UnderWay' \subseteq UnderWay
    BY <1>1, <2>2 DEF UnderWay
  <2>4. QED  BY <1>3, <2>1, <2>3, FrugalStep
<1>7. ASSUME NEW counted \in BOOLEAN, LL!Account(k, counted) PROVE Frugal'
  <2>1. CASE ~counted
    BY <1>7, <2>1 DEF LL!Account, Frugal
  <2>2. CASE counted
    <3>1. spent' = spent + Tokens /\ missed' = missed
      BY <1>7, <2>2 DEF LL!Account, LlmInv, LlmTypes
    <3>2. calls'[k].pc = "ready" /\ k \in UnderWay
      BY <1>2, <1>7 DEF LL!Account, LL!Set, LL!At, UnderWay
    <3>3. UnderWay' = UnderWay \ {k}
      BY <1>1, <3>2 DEF UnderWay
    <3>4. UnderWay \subseteq LL!Tasks
      BY DEF UnderWay
    <3>5. /\ Cardinality(UnderWay') = Cardinality(UnderWay) - 1
          /\ Cardinality(UnderWay) \in Nat /\ Cardinality(UnderWay') \in Nat
      BY <1>3, <3>2, <3>3, <3>4, LlmFinite, FS_RemoveElement
    <3>6. Tokens * Cardinality(UnderWay') = Tokens * Cardinality(UnderWay) - Tokens
      <4>1. \A m, n \in Nat : m = n - 1 => Tokens * m = Tokens * n - Tokens
        BY DEF LL!LlmAssumption
      <4>2. QED  BY <3>5, <4>1
    <3>7. /\ spent \in Nat /\ Tokens \in Nat
          /\ Tokens * Cardinality(UnderWay) \in Nat
      BY <3>4, LlmFinite DEF LlmInv, LlmTypes, LL!LlmAssumption
    <3>8. QED  BY <3>1, <3>6, <3>7 DEF LlmInv, Frugal
  <2>3. QED  BY <2>1, <2>2
<1>8. QED  BY <1>4, <1>5, <1>6, <1>7

\* Beginning and ending a turn, or what it leaves for the memory.
LEMMA LlmTurnStep ==
    ASSUME LL!LlmAssumption, LlmInv, NEW t \in Turns,
           LL!StartTurn(t) \/ LL!EndTurn(t) \/ LL!StartMemory(t) \/ LL!EndMemory(t)
    PROVE  LlmInv'
<1> DEFINE k == <<t, "turn">>
           m == <<t, "memory">>
           Calls == [pc : LlmPcs, deadline : Nat \cup {None},
                     until : Nat \cup {None}, hurried : BOOLEAN]
<1>1. /\ k \in LL!Tasks /\ m \in LL!Tasks /\ k # m
      /\ k[2] = "turn" /\ m[2] = "memory"
      /\ calls \in [LL!Tasks -> Calls] /\ clock \in Nat
  BY DEF LL!Tasks, LlmInv, LlmTypes
<1>2. Punctual(t) /\ Unhurried(t)
  BY DEF LlmInv
<1>3. clock' = clock /\ spent' = spent /\ missed' = missed
  BY DEF LL!StartTurn, LL!EndTurn, LL!StartMemory, LL!EndMemory
<1>4. /\ calls' \in [LL!Tasks -> Calls]
      /\ \A t1 \in Turns : Punctual(t1)' /\ Unhurried(t1)'
      /\ UnderWay' \subseteq UnderWay
  <2>1. CASE LL!StartTurn(t)
    <3> DEFINE call == [LL!Unstarted EXCEPT !.pc = "ready", !.deadline = clock + TurnBudget]
    <3>1. call \in Calls /\ call.pc = "ready" /\ call.deadline \in Nat
      <4>1. clock + TurnBudget \in Nat
        BY <1>1 DEF LL!LlmAssumption
      <4>2. QED  BY <4>1 DEF LL!Unstarted, LlmPcs
    <3>2. calls' = [calls EXCEPT ![k] = call]
      BY <2>1 DEF LL!StartTurn, LL!Set
    <3> HIDE DEF call, k
    <3>3. \A t1 \in Turns : Punctual(t1)' /\ Unhurried(t1)'
      BY <1>1, <1>3, <3>1, <3>2, OneCallMoves
    <3>4. QED  BY <1>1, <3>1, <3>2, <3>3 DEF UnderWay
  <2>2. CASE LL!StartMemory(t)
    <3> DEFINE call == [calls[m] EXCEPT !.pc = "ready", !.deadline = None]
    <3>1. call \in Calls /\ call.pc = "ready" /\ call.deadline = None
          /\ call.hurried = calls[m].hurried
      BY <1>1 DEF LlmPcs
    <3>2. calls' = [calls EXCEPT ![m] = call] /\ ~calls[m].hurried
      BY <1>2, <2>2 DEF LL!StartMemory, LL!Set, LL!OwnDeadline, Unhurried
    <3> HIDE DEF call, m
    <3>3. \A t1 \in Turns : Punctual(t1)' /\ Unhurried(t1)'
      BY <1>1, <1>3, <3>1, <3>2, OneCallMoves
    <3>4. QED  BY <1>1, <3>1, <3>2, <3>3 DEF UnderWay
  <2>3. CASE LL!EndMemory(t)
    <3> DEFINE call == [calls[m] EXCEPT !.pc = "done"]
    <3>1. call \in Calls /\ call.pc = "done" /\ call.deadline = calls[m].deadline
          /\ call.hurried = calls[m].hurried
      BY <1>1 DEF LlmPcs
    <3>2. calls' = [calls EXCEPT ![m] = call] /\ ~calls[m].hurried /\ calls[m].deadline = None
      BY <1>2, <2>3 DEF LL!EndMemory, LL!Set, LL!At, Unhurried
    <3> HIDE DEF call, m
    <3>3. \A t1 \in Turns : Punctual(t1)' /\ Unhurried(t1)'
      BY <1>1, <1>3, <3>1, <3>2, OneCallMoves
    <3>4. QED  BY <1>1, <3>1, <3>2, <3>3 DEF UnderWay
  <2>4. CASE LL!EndTurn(t)
    <3> DEFINE ended == [calls[k] EXCEPT !.pc = "done"]
               left == [LL!Unstarted EXCEPT !.pc = "queued", !.deadline = calls[k].deadline]
    <3>1. calls[k].pc = "ready" /\ calls[k].deadline \in Nat
      BY <1>2, <2>4 DEF LL!EndTurn, LL!At, Punctual
    <3>2. /\ ended \in Calls /\ ended.pc = "done" /\ ended.deadline \in Nat
          /\ left \in Calls /\ left.pc = "queued" /\ ~left.hurried
      BY <1>1, <3>1 DEF LL!Unstarted, LlmPcs
    <3>3. calls' = [calls EXCEPT ![k] = ended, ![m] = left]
      <4>1. calls' = [calls EXCEPT ![k].pc = "done", ![m] = left]
        BY <2>4 DEF LL!EndTurn
      <4> HIDE DEF left
      <4>2. QED  BY <1>1, <4>1
    <3> HIDE DEF ended, left, k, m
    <3>4. /\ calls' \in [LL!Tasks -> Calls] /\ calls'[k] = ended /\ calls'[m] = left
          /\ \A j \in LL!Tasks \ {k, m} : calls'[j] = calls[j]
      BY <1>1, <3>2, <3>3
    <3>5. ASSUME NEW t1 \in Turns PROVE Punctual(t1)' /\ Unhurried(t1)'
      <4>1. CASE t1 = t
        BY <1>3, <3>2, <3>4, <4>1 DEF Punctual, Unhurried, k, m
      <4>2. CASE t1 # t
        <5>1. /\ <<t1, "turn">> \in LL!Tasks \ {k, m} /\ <<t1, "memory">> \in LL!Tasks \ {k, m}
          BY <4>2 DEF LL!Tasks, k, m
        <5>2. Punctual(t1) /\ Unhurried(t1)
          BY DEF LlmInv
        <5>3. QED  BY <1>3, <3>4, <5>1, <5>2 DEF Punctual, Unhurried
      <4>3. QED  BY <4>1, <4>2
    <3>6. UnderWay' \subseteq UnderWay
      BY <3>2, <3>4 DEF UnderWay
    <3>7. QED  BY <3>4, <3>5, <3>6
  <2>5. QED  BY <2>1, <2>2, <2>3, <2>4
<1>5. Frugal'
  <2>1. UnderWay' \subseteq LL!Tasks
    BY DEF UnderWay
  <2>2. QED  BY <1>3, <1>4, <2>1, FrugalStep
<1>6. LlmTypes'
  BY <1>3, <1>4 DEF LlmInv, LlmTypes
<1>7. QED  BY <1>4, <1>5, <1>6 DEF LlmInv

\* The clock does not pass the end of a call, and a new day spends nothing yet.
LEMMA LlmClockStep ==
    ASSUME LL!LlmAssumption, LlmInv, LL!Midnight \/ LL!Tick PROVE LlmInv'
<1>1. calls' = calls /\ missed' = missed /\ spent' \in {spent, 0} /\ clock' \in {clock, clock + 1}
  BY DEF LL!Midnight, LL!Tick
<1>2. LlmTypes'
  BY <1>1 DEF LlmInv, LlmTypes
<1>3. ASSUME NEW t \in Turns PROVE Punctual(t)' /\ Unhurried(t)'
  <2>1. Punctual(t) /\ Unhurried(t) /\ <<t, "turn">> \in LL!Tasks /\ clock \in Nat
    BY DEF LlmInv, LlmTypes, LL!Tasks
  <2>2. clock' # clock => (LL!At(<<t, "turn">>, "calling") => calls[<<t, "turn">>].until > clock)
    BY <2>1 DEF LL!Midnight, LL!Tick
  <2>3. QED  BY <1>1, <2>1, <2>2 DEF Punctual, Unhurried, LL!At
<1>4. Frugal'
  <2>1. UnderWay' = UnderWay /\ UnderWay \subseteq LL!Tasks
    BY <1>1 DEF UnderWay
  <2>2. /\ spent \in Nat /\ DailyTokens \in Nat
        /\ Tokens * Cardinality(UnderWay) \in Nat
        /\ Tokens * Cardinality(LL!Tasks) \in Nat
    <3>1. LL!Tasks \subseteq LL!Tasks
      OBVIOUS
    <3>2. QED  BY <2>1, <3>1, LlmFinite DEF LlmInv, LlmTypes, LL!LlmAssumption
  <2> HIDE DEF UnderWay
  <2>3. QED  BY <1>1, <2>1, <2>2 DEF LlmInv, Frugal
<1>5. QED  BY <1>2, <1>3, <1>4 DEF LlmInv

LEMMA LlmInvariant == ASSUME LL!LlmAssumption PROVE LL!Spec => []LlmInv
<1>1. LL!Init => LlmInv
  BY InitLlmInv
<1>2. LlmInv /\ [LL!Next]_LL!vars => LlmInv'
  <2> SUFFICES ASSUME LlmInv, [LL!Next]_LL!vars PROVE LlmInv'
    OBVIOUS
  <2>1. ASSUME NEW k \in LL!Tasks,
               \/ LL!Check(k) \/ LL!CheckFailed(k) \/ LL!Call(k) \/ LL!Answered(k) \/ LL!Failed(k)
               \/ \E counted \in BOOLEAN : LL!Account(k, counted)
        PROVE  LlmInv'
    BY <2>1, CallStep, CallFrugal DEF LlmInv
  <2>2. CASE UNCHANGED LL!vars
    BY <2>2 DEF LL!vars, LlmInv, LlmTypes, Punctual, Unhurried, Frugal, UnderWay
  <2>3. QED  BY <2>1, <2>2, LlmTurnStep, LlmClockStep DEF LL!Next
<1>3. QED  BY <1>1, <1>2, PTL DEF LL!Spec

\* However calls overlap: no turn waits for a model past its deadline, no memory is
\* refused for that deadline, and the tokens of a day are exceeded by the calls
\* under way at most.
THEOREM WithinLimitsTheorem == LL!Spec => []WithinLimits
<1>1. LL!Cardinality(LL!Tasks) = Cardinality(LL!Tasks)
  BY DEF LL!Cardinality, Cardinality
<1>2. LlmInv => WithinLimits
  <2> SUFFICES ASSUME LlmInv PROVE WithinLimits
    OBVIOUS
  <2>1. \A t \in Turns : LL!At(<<t, "turn">>, "calling")
                            => clock <= calls[<<t, "turn">>].deadline
    <3> SUFFICES ASSUME NEW t \in Turns, calls[<<t, "turn">>].pc = "calling"
                 PROVE  clock <= calls[<<t, "turn">>].deadline
      BY DEF LL!At
    <3>1. Punctual(t) /\ clock \in Nat
      BY DEF LlmInv, LlmTypes
    <3>2. QED  BY <3>1 DEF Punctual
  <2>2. \A t \in Turns : ~calls[<<t, "memory">>].hurried
    BY DEF LlmInv, Unhurried
  <2>3. ~missed => spent < DailyTokens + Tokens * Cardinality(LL!Tasks)
    <3>1. UnderWay \subseteq LL!Tasks /\ LL!Tasks \subseteq LL!Tasks
      BY DEF UnderWay
    <3>2. /\ spent \in Nat /\ DailyTokens \in Nat
          /\ Tokens * Cardinality(UnderWay) \in Nat
          /\ Tokens * Cardinality(LL!Tasks) \in Nat
      BY <3>1, AnsweringAssumption, LlmFinite DEF LlmInv, LlmTypes, LL!LlmAssumption
    <3> HIDE DEF UnderWay
    <3>3. QED  BY <3>2 DEF LlmInv, Frugal
  <2>4. QED  BY <1>1, <2>1, <2>2, <2>3 DEF WithinLimits, LL!WithinLimits
<1>3. QED  BY <1>2, AnsweringAssumption, LlmInvariant, PTL
=============================================================================
