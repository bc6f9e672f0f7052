------------------------------- MODULE Tools -------------------------------
(***************************************************************************)
(* What a user is told from business systems: the node tool_invoke with    *)
(* the diagnosing agent, over the provider for the MCP service             *)
(* (chat/tools/mcp_provider.py), for concurrent turns of one process.      *)
(*                                                                         *)
(* A step ends where the code awaits.  The parameters of the calls, their  *)
(* audit rows and the wording are left out, and the tickets are Handoff's; *)
(* a fact is a tool with where its data came from.                         *)
(***************************************************************************)
EXTENDS Naturals, Sequences, FiniteSets

CONSTANTS
    Turns,
    Chain,       \* the required tools of the query, in order
    Reads,       \* the tools the catalogue declares read-only
    Writes,      \* the tools the catalogue declares as writing
    Served,      \* the tools the service declares
    Hinted,      \* those of them it declares read-only
    Fallback,    \* TOOL_MCP_FALLBACK
    StepsMax,    \* DIAGNOSE_MAX_STEPS
    None

\* A query has tools, and the catalogue declares each tool in one way.
ToolsAssumption ==
    /\ Chain \in Seq(Reads) \ {<<>>}
    /\ Reads \cap Writes = {}

FailuresMax == 2  \* _MAX_TOOL_FAILURES

VARIABLES
    provider,  \* [tools, failed, known, stale]: the singleton of the process
    listing,   \* the turn that holds the lock and lists the tools, or None
    up,        \* the service is reachable
    turns

vars == <<provider, listing, up, turns>>

Idle == [pc |-> "idle", left |-> <<>>, tool |-> None, facts |-> {}, allowed |-> {},
         steps |-> 0, failures |-> 0]

Init ==
    /\ provider = [tools |-> None, failed |-> FALSE, known |-> {}, stale |-> FALSE]
    /\ listing = None
    /\ up \in BOOLEAN
    /\ turns = [t \in Turns |-> Idle]

At(t, pc) == turns[t].pc = pc
Set(t, turn) == turns' = [turns EXCEPT ![t] = turn]
Goto(t, pc) == Set(t, [turns[t] EXCEPT !.pc = pc])

-----------------------------------------------------------------------------
(* The provider *)

\* What was discovered stays; that nothing was is forgotten after a minute.
Fresh == provider.tools # None /\ ~(provider.failed /\ provider.stale)

NeedsTools(t) == turns[t].pc \in {"invoke", "toolset"} /\ ~Fresh

\* _discover_tools: one turn lists, the others wait for the lock and look again.
List(t) ==
    /\ NeedsTools(t)
    /\ listing = None
    /\ listing' = t
    /\ UNCHANGED <<provider, up, turns>>

Listed(t) ==
    /\ listing = t
    /\ up
    /\ provider' = [tools |-> Served, failed |-> FALSE, known |-> Served, stale |-> FALSE]
    /\ listing' = None
    /\ UNCHANGED <<up, turns>>

ListFailed(t) ==
    /\ listing = t
    /\ provider' = [provider EXCEPT !.tools = {}, !.failed = TRUE, !.stale = FALSE]
    /\ listing' = None
    /\ UNCHANGED <<up, turns>>

\* Mutant: the service is down, so the data of the mock will do.
DegradedMock(known) == "mock"

\* _degraded_result: a tool the service answers is not answered by the mock.
Degraded(known) == IF known /\ Fallback = "fail" THEN "failed" ELSE "mock"

\* Where the call goes, decided when the tools are known: to the service, to the
\* mock, or nowhere.  known: this process has seen the service declare the tool.
Invoke(t) ==
    LET tool == Head(turns[t].left)
        known == tool \in provider.known
        route == IF tool \in provider.tools THEN "service"
                 ELSE IF provider.failed THEN Degraded(known) ELSE "mock"
    IN  /\ At(t, "invoke")
        /\ Fresh
        /\ Set(t, [turns[t] EXCEPT !.pc = route, !.left = Tail(@),
                                   !.tool = [tool |-> tool, known |-> known]])
        /\ UNCHANGED <<provider, listing, up>>

\* Back to the chain or to the agent, which counts failures in a row.
Done(t, facts, ok) ==
    LET agent == turns[t].steps > 0
    IN  Set(t, [turns[t] EXCEPT !.pc = IF agent THEN "observe" ELSE "chain",
                    !.facts = @ \cup facts, !.tool = None,
                    !.failures = IF agent /\ ~ok THEN @ + 1 ELSE 0])

Fact(t, source) ==
    [tool |-> turns[t].tool.tool, known |-> turns[t].tool.known, source |-> source]

\* The service answers; an answer without data is a success that says nothing.
ServiceAnswers(t, data) ==
    /\ At(t, "service")
    /\ up
    /\ Done(t, IF data THEN {Fact(t, "service")} ELSE {}, TRUE)
    /\ UNCHANGED <<provider, listing, up>>

ServiceFails(t) ==
    /\ At(t, "service")
    /\ Goto(t, Degraded(turns[t].tool.known))
    /\ UNCHANGED <<provider, listing, up>>

\* The mock knows the tools of the catalogue, and may run out of time.
MockAnswers(t, ok) ==
    /\ At(t, "mock")
    /\ ok => turns[t].tool.tool \in Reads \cup Writes
    /\ Done(t, IF ok THEN {Fact(t, "mock")} ELSE {}, ok)
    /\ UNCHANGED <<provider, listing, up>>

CallFailed(t) ==
    /\ At(t, "failed")
    /\ Done(t, {}, FALSE)
    /\ UNCHANGED <<provider, listing, up>>

-----------------------------------------------------------------------------
(* The turn *)

\* Without the identity nothing is asked: an agent has to verify the user.
Begin(t, identified) ==
    /\ At(t, "idle")
    /\ Set(t, IF identified THEN [Idle EXCEPT !.pc = "invoke", !.left = Chain]
              ELSE [Idle EXCEPT !.pc = "answered"])
    /\ UNCHANGED <<provider, listing, up>>

\* The next tool of the chain; then the static answer, which the agent may
\* explain, or no data at all.
Proceed(t, diagnose) ==
    /\ At(t, "chain")
    /\ diagnose => turns[t].left = <<>> /\ turns[t].facts # {}
    /\ Goto(t, IF turns[t].left # <<>> THEN "invoke"
               ELSE IF diagnose THEN "toolset"
               ELSE IF turns[t].facts # {} THEN "answered" ELSE "nothing")
    /\ UNCHANGED <<provider, listing, up>>

\* All tools failed: the documents or a template are the answer.
Nothing(t) ==
    /\ At(t, "nothing")
    /\ Goto(t, "answered")
    /\ UNCHANGED <<provider, listing, up>>

\* _readonly_toolset: the catalogue, and what the service calls read-only unless
\* the catalogue knows better.
Toolset(t) ==
    /\ At(t, "toolset")
    /\ Fresh
    /\ Set(t, [turns[t] EXCEPT !.pc = "decide", !.failures = 0, !.steps = 1,
                   !.allowed = Reads \cup (IF provider.known = {} THEN {} ELSE Hinted \ Writes)])
    /\ UNCHANGED <<provider, listing, up>>

\* The model names a tool it may name; anything else, and a call it has made
\* before, ends the search.
Decide(t, tool) ==
    /\ At(t, "decide")
    /\ Set(t, IF tool \in turns[t].allowed
              THEN [turns[t] EXCEPT !.pc = "invoke", !.left = <<tool>>]
              ELSE [turns[t] EXCEPT !.pc = "explain"])
    /\ UNCHANGED <<provider, listing, up>>

Observe(t) ==
    LET ends == turns[t].failures >= FailuresMax \/ turns[t].steps >= StepsMax
    IN  /\ At(t, "observe")
        /\ Set(t, IF ends THEN [turns[t] EXCEPT !.pc = "explain"]
                  ELSE [turns[t] EXCEPT !.pc = "decide", !.steps = @ + 1])
        /\ UNCHANGED <<provider, listing, up>>

\* The explanation follows the static answer, from the facts of both; without one,
\* or with a number that is in no fact, the static answer stands alone.
Explain(t) ==
    /\ At(t, "explain")
    /\ Goto(t, "answered")
    /\ UNCHANGED <<provider, listing, up>>

End(t) ==
    /\ At(t, "answered")
    /\ Set(t, Idle)
    /\ UNCHANGED <<provider, listing, up>>

-----------------------------------------------------------------------------
(* Meanwhile *)

MinutePasses ==
    /\ provider.failed
    /\ provider' = [provider EXCEPT !.stale = TRUE]
    /\ UNCHANGED <<listing, up, turns>>

Outage == up' = ~up /\ UNCHANGED <<provider, listing, turns>>

\* The process starts again; its turns are lost.
Restart ==
    /\ provider' = [tools |-> None, failed |-> FALSE, known |-> {}, stale |-> FALSE]
    /\ listing' = None
    /\ turns' = [t \in Turns |-> Idle]
    /\ UNCHANGED up

Step(t) ==
    \/ List(t) \/ Listed(t) \/ ListFailed(t)
    \/ Invoke(t) \/ ServiceFails(t) \/ CallFailed(t)
    \/ \E b \in BOOLEAN : Begin(t, b) \/ ServiceAnswers(t, b) \/ MockAnswers(t, b) \/ Proceed(t, b)
    \/ Nothing(t) \/ Toolset(t) \/ Observe(t) \/ Explain(t) \/ End(t)
    \/ \E tool \in Reads \cup Writes \cup Hinted \cup {None} : Decide(t, tool)

Next == (\E t \in Turns : Step(t)) \/ MinutePasses \/ Outage \/ Restart

Spec == Init /\ [][Next]_vars

-----------------------------------------------------------------------------
(* Properties *)

\* Since the process has seen the service declare a tool, no user is told the data
\* of the mock for it, whatever fails, unless the fallback asks for that; and
\* nobody ever calls a writing tool to answer a question, whatever the model names
\* and the service calls read-only.
NoInventedFacts ==
    \A t \in Turns :
        /\ \A f \in turns[t].facts : f.known /\ Fallback = "fail" => f.source = "service"
        /\ turns[t].tool # None => turns[t].tool.tool \notin Writes
=============================================================================
