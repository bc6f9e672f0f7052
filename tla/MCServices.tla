----------------------------- MODULE MCServices -----------------------------
(***************************************************************************)
(* Services in one instance for TLC.  The components share no variable, so *)
(* the instance is their disjoint union: part names the service whose      *)
(* behaviour this is, the others stay where they start.                    *)
(***************************************************************************)
EXTENDS Services

VARIABLE part

Block(type, size, ends) == [type |-> type, level |-> 0, size |-> size, ends |-> ends]

MCBlocks ==
    [type : {"heading"}, level : {1, 2}, size : {1}, ends : {{}}]
       \cup {Block("paragraph", 1, {}), Block("paragraph", 7, {2, 4}),
             Block("paragraph", 9, {}), Block("table", 4, {}),
             Block("image", 0, {}), Block("image", 1, {}), Block("code", 1, {})}

rates == <<window, clients>>
rows == <<cases, caseTxs, caseLeft>>
kb == <<doc, versions, chunks, index, docTxs, docLeft, repair, unlocked, halved,
        strayed>>
entries == <<edition, publishing, cache, idle, turns>>
chunking == <<source, next, stack, paras, pieces, buf, last, cut, merged>>

all == <<part, vars, rates, rows, kb, entries, chunking>>

ServicesInit ==
    /\ part \in {"rates", "cases", "notices", "kb", "entries", "chunking"}
    /\ RL!Init /\ SC!Init /\ Init /\ KB!Init /\ AC!Init /\ CH!Init
    /\ part # "kb" => doc = KB!NoDoc
    /\ part # "chunking" => source = <<Block("code", 1, {})>>

ServicesNext ==
    \/ /\ part = "rates" /\ RL!Next
       /\ UNCHANGED <<part, rows, vars, kb, entries, chunking>>
    \/ /\ part = "cases" /\ SC!Next
       /\ UNCHANGED <<part, rates, vars, kb, entries, chunking>>
    \/ /\ part = "notices" /\ Next
       /\ UNCHANGED <<part, rates, rows, kb, entries, chunking>>
    \/ /\ part = "kb" /\ KB!Next
       /\ UNCHANGED <<part, rates, rows, vars, entries, chunking>>
    \/ /\ part = "entries" /\ AC!Next
       /\ UNCHANGED <<part, rates, rows, vars, kb, chunking>>
    \/ /\ part = "chunking" /\ CH!Next
       /\ UNCHANGED <<part, rates, rows, vars, kb, entries>>

\* The fairness of each module, asked of the behaviours of its part.
Fairness ==
    /\ \A c \in Senders :
          WF_rates(part = "rates" /\ (RL!Count(c) \/ RL!Extend(c) \/ RL!Retry(c)))
    /\ \A s \in RL!Scopes : WF_rates(part = "rates" /\ RL!Slide(s))
    /\ WF_rows(part = "cases" /\ SC!Escalate)
    /\ SF_rows(part = "cases" /\ SC!Commit("cron"))
    /\ WF_entries(part = "entries" /\ AC!Tick)
    /\ WF_entries(part = "entries" /\ AC!Expire)

ServicesSpec == ServicesInit /\ [][ServicesNext]_all /\ Fairness
=============================================================================
