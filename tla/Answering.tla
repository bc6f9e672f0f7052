----------------------------- MODULE Answering -----------------------------
(***************************************************************************)
(* What a request meets between its arrival and its reply beside the       *)
(* dialog: the idempotency key it carries, the documents, the business     *)
(* systems and the language models that are asked for it.  The four        *)
(* components share no variable; each is an instance with a prefix, and    *)
(* what is proved or checked of them has a name of its own here.           *)
(***************************************************************************)
EXTENDS Naturals, FiniteSets, Sequences

CONSTANTS
    None,        \* stands for every absent value
    Retries,     \* bound: the requests ever sent with one idempotency key
    Bodies,
    Documents,
    Users,
    Rewritings,  \* bound: how often each document is rewritten
    TopK,        \* RAG_TOP_K
    AnswersMax,  \* bound: how many turns are answered from documents
    Turns,       \* concurrent turns that ask tools and models
    Chain,       \* the required tools of the query, in order
    Reads, Writes,    \* the tools of the catalogue
    Served, Hinted,   \* the tools of the service, and those it calls read-only
    McpFallback, \* TOOL_MCP_FALLBACK
    StepsMax,    \* DIAGNOSE_MAX_STEPS
    TurnBudget,  \* TURN_LLM_BUDGET_SECONDS
    ClientTime,  \* LLM_TIMEOUT with the retry of the client
    DailyTokens, \* LLM_BUDGET_DAILY_TOKENS
    Tokens,      \* what a call uses
    ClockMax,    \* bound: the seconds of a behaviour
    SpentMax     \* bound: the tokens up to which an unchecked call is made

VARIABLES
    requests, response, lock, lockRedis, committed, trouble,
    docs, index, shared, answering, answersLeft,
    provider, listing, up, toolTurns,
    clock, spent, missed, calls

RR == INSTANCE Idempotency WITH Requests <- Retries, redis <- lockRedis

AN == INSTANCE Answers WITH Turns <- AnswersMax, turn <- answering, left <- answersLeft

TO == INSTANCE Tools WITH Fallback <- McpFallback, turns <- toolTurns

LL == INSTANCE LlmCalls WITH tasks <- calls

\* What the components assume of their constants.
ASSUME AnsweringAssumption ==
    /\ RR!IdempotencyAssumption
    /\ AN!AnswersAssumption
    /\ TO!ToolsAssumption
    /\ LL!LlmAssumption

(* Properties, stated and explained in the modules of the components *)

\* At most one request of an idempotency key is being answered.
OneAtATime == RR!OneAtATime

\* A key is answered once while Redis keeps what is stored of it.
AnsweredOnce == RR!AnsweredOnce

\* What a retry is given back is what was committed.
ReplaysCommitted == RR!ReplaysCommitted

\* What documents say reaches a user only from one that was in force.
Grounded == AN!Grounded

\* No user is answered from what is known of another one.
OwnContext == AN!OwnContext

\* No data of the mock for a tool the service has declared, and no writing tool
\* called to answer a question.
NoInventedFacts == TO!NoInventedFacts

\* The deadline of a turn and the tokens of a day are exceeded by the calls in
\* flight at most.
WithinLimits == LL!WithinLimits
=============================================================================
