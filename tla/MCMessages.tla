----------------------------- MODULE MCMessages -----------------------------
(***************************************************************************)
(* What surrounds the dialog of one message, in one instance for TLC: its  *)
(* understanding, what it meets on its way to a reply (Answering) and what *)
(* is kept of the customer (Customer).  The components share no variable,  *)
(* so the instance is their disjoint union: part names the one whose       *)
(* behaviour this is, the others stay where they start.                    *)
(***************************************************************************)
EXTENDS Understanding, Answering, Customer

VARIABLE part

(* The texts, rules, skills and tools of the instance *)

MCTexts ==
    LET Plain(w) == [whole |-> w, parts |-> <<>>]
        Split(w, p) == [whole |-> w, parts |-> p]
        request == {"cancel order"}
    IN  {Plain(w) : w \in
            {{}, {"short", "confirm"}, {"short", "confirm", "weak"},
             {"short", "confirm", "deny"}, {"short", "accept"}, {"task denial"},
             {"abuse"}, {"injection"}, {"bare value"}, {"identity"}, {"transfer"},
             {"abort", "nothing else"}, {"answers slot"}, {"switch"}, request,
             {"book"}, {"register", "third party"}, {"cancel booking", "negation"}}}
        \cup {Split(w, <<{"answers slot"}, {}>>) : w \in {{}, request}}
        \cup {Split(w, <<{"short", "confirm"}, {}>>) : w \in {{}, request}}
        \cup {Split(request, <<{"short", "deny"}, request>>), Split({}, <<{}, {}, {}>>)}

MCRuleIntent == [rule \in RequestRules |-> "CANCEL"]
MCRequired == [i \in Intents |-> Slots]
MCRequests == [intent : Intents, slots : {NoSlots}]

MCLadder == <<"onboarding">>
MCCap == [o \in {"onboarding"} |-> 1]

MCSignals ==
    [goal : {1, 4, 5}, strong : {TRUE}, risk : {FALSE}]
       \cup [goal : {2, 3}, strong : {FALSE}, risk : {FALSE}]
       \cup [goal : {5}, strong : {TRUE}, risk : {TRUE}]

\* "weather" is a tool only the service knows, and "cancel" one it takes for reading.
MCChain == <<"order", "track">>

idempotency == <<requests, response, lock, lockRedis, committed, trouble>>
memory == <<total, meta, tasks, loads, facts>>
offers == <<optout, cool, welcomed, shown, imp, last, offerRedis, offerTurns, said, lost>>
answers == <<docs, index, shared, answering, answersLeft>>
tools == <<provider, listing, up, toolTurns>>
llm == <<clock, spent, missed, calls>>
journey == <<row, journeys>>

all == <<part, vars, idempotency, memory, offers, answers, tools, llm, journey>>

MessagesInit ==
    /\ part \in {"idempotency", "memory", "offers", "understanding",
                 "answers", "tools", "llm", "journey"}
    /\ Init /\ RR!Init /\ ME!Init /\ PR!Init /\ AN!Init /\ TO!Init /\ LL!Init /\ JO!Init
    /\ part # "tools" => up
    /\ part # "offers" => ~optout /\ ~cool

MessagesNext ==
    \/ /\ part = "idempotency" /\ RR!Next
       /\ UNCHANGED <<part, memory, offers, vars, tools, llm, journey, answers>>
    \/ /\ part = "memory" /\ ME!Next
       /\ UNCHANGED <<part, idempotency, offers, vars, tools, llm, journey, answers>>
    \/ /\ part = "offers" /\ PR!Next
       /\ UNCHANGED <<part, idempotency, memory, vars, tools, llm, journey, answers>>
    \/ /\ part = "understanding" /\ Next
       /\ UNCHANGED <<part, idempotency, memory, offers, tools, llm, journey, answers>>
    \/ /\ part = "answers" /\ AN!Next
       /\ UNCHANGED <<part, idempotency, memory, offers, vars, tools, llm, journey>>
    \/ /\ part = "tools" /\ TO!Next
       /\ UNCHANGED <<part, idempotency, memory, offers, vars, llm, journey, answers>>
    \/ /\ part = "llm" /\ LL!Next
       /\ UNCHANGED <<part, idempotency, memory, offers, vars, tools, journey, answers>>
    \/ /\ part = "journey" /\ JO!Next
       /\ UNCHANGED <<part, idempotency, memory, offers, vars, tools, llm, answers>>

MessagesSpec == MessagesInit /\ [][MessagesNext]_all

=============================================================================
