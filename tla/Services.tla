------------------------------ MODULE Services ------------------------------
(***************************************************************************)
(* The services beside the conversation and the knowledge base.  Notices   *)
(* keeps its names; the other components share no variable with it or with *)
(* each other, each is an instance with a prefix, and what is proved or    *)
(* checked of them has a name of its own here.                             *)
(***************************************************************************)
EXTENDS Notices, Naturals, Sequences

CONSTANTS
    Senders,       \* clients of one session that send at the same time
    Messages,      \* bound: the messages each of them has to send
    TenantLimit, SessionLimit,
    Cases,         \* bound: the cases ever opened for the customer
    Types, HighTypes,
    Sources,       \* sessions, tickets and orders a case refers to
    CaseWorkers,   \* concurrent requests
    Requests,      \* bound: the requests of agents and turns
    Contents,      \* of the versions of a document
    KbWorkers,     \* requests at the same time, the cron jobs among them
    Operations,    \* bound: the operations on the document
    Turns,         \* concurrent turns that answer with the cache
    Questions,
    Publications,  \* bound
    MaxEntries,    \* SEMANTIC_CACHE_MAX_PER_TENANT
    Blocks,        \* the blocks a parser produces
    DocMax,        \* bound: the blocks of a document
    Size, Overlap, Tiny,  \* KB_CHUNK_SIZE, KB_CHUNK_OVERLAP, KB_MIN_CHUNK_CHARS
    IntroMax, RowsMin

VARIABLES
    window, clients,
    cases, caseTxs, caseLeft,
    doc, versions, chunks, index, docTxs, docLeft, repair, unlocked, halved, strayed,
    edition, publishing, cache, idle, turns,
    source, next, stack, paras, pieces, buf, last, cut, merged

RL == INSTANCE RateLimit WITH Clients <- Senders

SC == INSTANCE ServiceCases WITH Workers <- CaseWorkers, txs <- caseTxs, left <- caseLeft

KB == INSTANCE KbPublication WITH Workers <- KbWorkers, txs <- docTxs, left <- docLeft

AC == INSTANCE AnswerCache

CH == INSTANCE Chunker WITH doc <- source, chunks <- cut

\* What the components assume of their constants.
ASSUME ServicesAssumption ==
    RL!LimitsAssumption /\ KB!PublicationAssumption /\ CH!ChunkerAssumption

(* Properties, stated and explained in the modules of the components *)

\* A rate limit is exceeded by the requests in flight at most.
BoundedOvershoot == RL!BoundedOvershoot

\* A client that is refused and keeps trying gets through.
RefusedRecovers == RL!RefusedRecovers

\* A case whose time limit has passed does not stay unnoticed.
OverdueIsNoticed == SC!OverdueIsNoticed

\* What is served of a document is of one content.
OneContent == KB!OneContent

\* A served document that the vector search cannot find is flagged.
Findable == KB!Findable

\* Answers of an edition that was replaced leave the cache.
StaleLeaves == AC!StaleLeaves

\* Every character of a document is in one of its passages.
NothingLost == CH!NothingLost
=============================================================================
