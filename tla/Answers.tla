------------------------------ MODULE Answers ------------------------------
(***************************************************************************)
(* Where the words of an answer come from: the graph nodes rag_answer and  *)
(* product_answer over the retriever (kb/retriever.py), the answerer       *)
(* (kb/answerer.py), the product catalogue and the semantic cache, for one *)
(* turn after the other of a tenant while its documents are published,     *)
(* rewritten and withdrawn.                                                *)
(*                                                                         *)
(* A passage is a document with the number of the rewriting its text comes *)
(* from.  Scores are classes, any order of the hits is a possible ranking, *)
(* and a call to a language model gives a usable text or none: without a   *)
(* key, over the budget, past the deadline, failing, or refused by the     *)
(* output guardrail.  The sections that are quoted around a passage, the   *)
(* citations' titles and the wording of replies are left out.              *)
(***************************************************************************)
EXTENDS Naturals, FiniteSets

CONSTANTS
    Documents,
    Users,
    Rewritings,  \* bound: how often each document is rewritten
    TopK,        \* RAG_TOP_K
    Turns        \* bound: how many turns are answered

\* What is assumed of them.
AnswersAssumption == TopK \in Nat

VARIABLES
    docs,    \* [status, text]: "draft" was never published
    index,   \* the passages in the vector index
    shared,  \* the semantic cache: of each answer in it, whom it is about
    turn,
    left     \* the turns to come

vars == <<docs, index, shared, turn, left>>
kb == <<docs, index>>

\* A question for the documents, or one that was not understood; a price or a stock;
\* what a product is like; a recommendation; a comparison.
Kinds == {"knowledge", "fact", "info", "recommend", "compare"}

\* What the catalogue finds for a name: a code, the exact name or a best one decides
\* for one product.
Found == {"one", "several", "none"}

Passages == Documents \X (0 .. Rewritings)
Stored == {<<d, docs[d].text>> : d \in Documents}
InForce == {d \in Documents : docs[d].status = "live"}

Idle == [pc |-> "idle"]

Init ==
    /\ docs = [d \in Documents |-> [status |-> "draft", text |-> 0]]
    /\ index = Stored
    /\ shared = {}
    /\ turn = Idle
    /\ left = Turns

-----------------------------------------------------------------------------
(* A turn *)

At(pc) == turn.pc = pc
Goto(pc) == turn' = [turn EXCEPT !.pc = pc]

\* A reply, with what it was made from: the passages, and the users of whom the
\* remembered facts, the conversation or the parameters of an experiment went
\* into it.
Reply(source, evidence, facts) ==
    [source |-> source, evidence |-> evidence, personalized |-> facts,
     about |-> IF facts \/ turn.bypass THEN {turn.user} ELSE {}]

Answered(reply, next) == turn' = [turn EXCEPT !.pc = next, !.reply = reply, !.hits = <<>>]

\* bypass: the question was rewritten with the conversation, or the turn is part
\* of an experiment.  served: history, the documents in force during the turn.
Begin(user, kind, bypass) ==
    /\ turn = Idle
    /\ left > 0
    /\ left' = left - 1
    /\ bypass => kind = "knowledge"
    /\ turn' = [pc |-> IF kind = "knowledge" THEN "cache" ELSE "catalogue",
                user |-> user, kind |-> kind, bypass |-> bypass, served |-> InForce,
                recalled |-> {}, hits |-> <<>>,
                reply |-> [source |-> "none", evidence |-> {}, about |-> {}]]
    /\ UNCHANGED <<kb, shared>>

\* A hit of the semantic cache is the reply.
Cached(about) ==
    /\ At("cache")
    /\ ~turn.bypass
    /\ about \in shared
    /\ Answered([source |-> "cache", evidence |-> {}, about |-> about], "done")
    /\ UNCHANGED <<kb, shared, left>>

CacheMissed ==
    /\ At("cache")
    /\ Goto("retrieve")
    /\ UNCHANGED <<kb, shared, left>>

\* Mutant: a price that is not in the catalogue is looked for in the documents.
AsksDocumentsAlways(kind, found) == found = "none"

\* product_answer: what the documents are asked for after the catalogue.
AsksDocuments(kind, found) == kind = "info" /\ found \in Found \ {"several"}

\* One product answers from its fields, and what it is like from the documents too.
ProductFound ==
    /\ At("catalogue") /\ turn.kind \in {"fact", "info"}
    /\ Answered(Reply("product_db", {}, FALSE),
                IF AsksDocuments(turn.kind, "one") THEN "retrieve" ELSE "done")
    /\ UNCHANGED <<kb, shared, left>>

\* Several products: the question which one is meant.
AskWhich ==
    /\ At("catalogue") /\ turn.kind \in {"fact", "info"}
    /\ Answered(Reply("product_db", {}, FALSE),
                IF AsksDocuments(turn.kind, "several") THEN "retrieve" ELSE "done")
    /\ UNCHANGED <<kb, shared, left>>

\* No product, also when the catalogue fails: its absence is the answer.
ProductMissing ==
    /\ At("catalogue") /\ turn.kind \in {"fact", "info"}
    /\ Answered(Reply(IF turn.kind = "info" THEN "template" ELSE "product_db", {}, FALSE),
                IF AsksDocuments(turn.kind, "none") THEN "retrieve" ELSE "done")
    /\ UNCHANGED <<kb, shared, left>>

\* What is on sale, in stock and within the budget; or that there is nothing.
Recommend ==
    /\ At("catalogue") /\ turn.kind = "recommend"
    /\ Answered(Reply("product_db", {}, FALSE), "done")
    /\ UNCHANGED <<kb, shared, left>>

\* Two products side by side, or the names that were not found.
Compare ==
    /\ At("catalogue") /\ turn.kind = "compare"
    /\ Answered(Reply("product_db", {}, FALSE), "done")
    /\ UNCHANGED <<kb, shared, left>>

\* Beside a product the passages follow what the catalogue says; only
\* rag_answer has a cache to fill.
Concludes(reply) ==
    Answered([reply EXCEPT !.source = IF turn.reply.source = "product_db" THEN "product_db" ELSE @],
             IF turn.kind = "knowledge" THEN "store" ELSE "done")

-----------------------------------------------------------------------------
(* Retrieval *)

\* The FAQ layer: an active entry above the threshold is the answer.  A product
\* that was found is not followed by the answer of a FAQ.
Faq(hit) ==
    /\ At("retrieve")
    /\ IF hit
       THEN IF turn.reply.source = "product_db" THEN Goto("done")
            ELSE Concludes(Reply("faq", {}, FALSE))
       ELSE Goto("recall")
    /\ UNCHANGED <<kb, shared, left>>

\* search_by_keywords asks for chunks of documents in force.
Matches == {p \in Stored : p[1] \in InForce}

\* The vectors come from the index, whatever became of the documents.
Recall(vector, keyword) ==
    /\ At("recall")
    /\ keyword \subseteq Matches
    /\ turn' = [turn EXCEPT !.pc = "chunks", !.recalled = vector \cup keyword]
    /\ UNCHANGED <<kb, shared, left>>

\* get_by_ids: the chunks that are left of both recalls.
ReadChunks ==
    /\ At("chunks")
    /\ turn' = [turn EXCEPT !.pc = "titles", !.recalled = @ \cap Stored]
    /\ UNCHANGED <<kb, shared, left>>

\* Mutant: every document whose chunks were found counts.
LiveAnyway(passages) == passages

\* live_titles, read after the chunks.
Live(passages) == {p \in passages : p[1] \in InForce}

Orders(passages) ==
    {s \in UNION {[1 .. n -> passages] : n \in 0 .. TopK} :
        /\ \A i, j \in DOMAIN s : s[i] = s[j] => i = j
        /\ Cardinality(DOMAIN s) = IF Cardinality(passages) < TopK
                                   THEN Cardinality(passages) ELSE TopK}

\* A hit is near the question, or the question is precise and a keyword found one.
Suffices(hits, near) == near /\ hits # <<>>

\* Only what is in force is ranked and cut; without a good hit the answer is refused.
Rank(hits, near) ==
    /\ At("titles")
    /\ turn' = [turn EXCEPT !.hits = hits, !.recalled = {},
                            !.pc = IF Suffices(hits, near) THEN "generate" ELSE "refused"]
    /\ UNCHANGED <<kb, shared, left>>

\* The embedding, the index or the database fails.
Degrade ==
    /\ turn.pc \in {"retrieve", "recall", "chunks", "titles", "generate"}
    /\ Goto("refused")
    /\ UNCHANGED <<kb, shared, left>>

-----------------------------------------------------------------------------
(* The answer *)

\* _build_context: the hits are numbered, and numbers in the text cite them.
Shown == {turn.hits[i] : i \in DOMAIN turn.hits}

\* The transaction was committed before; the model answers from the hits, with
\* the facts of the user, citing all or some of them.
Generate(cited, facts) ==
    /\ At("generate")
    /\ cited # {}
    /\ Concludes(Reply("rag_llm", cited, facts))
    /\ UNCHANGED <<kb, shared, left>>

\* Without a usable text the first hit is quoted.
Extract ==
    /\ At("generate")
    /\ Concludes(Reply("rag_extract", {turn.hits[1]}, FALSE))
    /\ UNCHANGED <<kb, shared, left>>

\* What was not understood is asked back, in the words of a model that sees the
\* conversation.
Clarify ==
    /\ At("refused") /\ turn.kind = "knowledge"
    /\ Answered(Reply("refused", {}, FALSE), "done")
    /\ UNCHANGED <<kb, shared, left>>

\* Beside the catalogue a refusal leaves what it said; rag_answer has a template.
Refuse ==
    /\ At("refused")
    /\ IF turn.kind = "info" THEN Goto("done")
       ELSE Answered(Reply("refused", {}, FALSE), "done")
    /\ UNCHANGED <<kb, shared, left>>

\* Mutant: what was generated with the facts of the user is stored as well.
CacheableAnyway == ~turn.bypass

\* Neither an answer with the facts of the user nor one of a rewritten question
\* or of an experiment.
Cacheable == ~turn.bypass /\ ~turn.reply.personalized

Store(stored) ==
    /\ At("store")
    /\ stored => Cacheable
    /\ shared' = IF stored THEN shared \cup {turn.reply.about} ELSE shared
    /\ Goto("done")
    /\ UNCHANGED <<kb, left>>

End ==
    /\ At("done")
    /\ turn' = Idle
    /\ UNCHANGED <<kb, shared, left>>

-----------------------------------------------------------------------------
(* The knowledge base meanwhile *)

Change(d, status, text) ==
    /\ docs' = [docs EXCEPT ![d] = [status |-> status, text |-> text]]
    /\ turn' = IF turn # Idle /\ status = "live" THEN [turn EXCEPT !.served = @ \cup {d}] ELSE turn
    /\ UNCHANGED <<shared, left>>

Publish(d) ==
    /\ docs[d].status # "live"
    /\ Change(d, "live", docs[d].text)
    /\ UNCHANGED index

Withdraw(d) ==
    /\ docs[d].status = "live"
    /\ Change(d, "archived", docs[d].text)
    /\ UNCHANGED index

\* The chunks are replaced; the old ones may stay in the index.
Rewrite(d, cleaned) ==
    /\ docs[d].text < Rewritings
    /\ Change(d, docs[d].status, docs[d].text + 1)
    /\ index' = (IF cleaned THEN index \ {<<d, docs[d].text>>} ELSE index)
                   \cup {<<d, docs[d].text + 1>>}

TurnStep ==
    \/ \E user \in Users, kind \in Kinds, bypass \in BOOLEAN : Begin(user, kind, bypass)
    \/ \E about \in shared : Cached(about)
    \/ CacheMissed
    \/ ProductFound \/ AskWhich \/ ProductMissing \/ Recommend \/ Compare
    \/ \E b \in BOOLEAN : Faq(b) \/ Store(b)
    \/ \E vector \in SUBSET index, keyword \in SUBSET Stored : Recall(vector, keyword)
    \/ ReadChunks
    \/ /\ At("titles")
       /\ \E hits \in Orders(Live(turn.recalled)), near \in BOOLEAN : Rank(hits, near)
    \/ Degrade \/ Extract \/ Clarify \/ Refuse \/ End
    \/ /\ At("generate")
       /\ \E cited \in SUBSET Shown, facts \in BOOLEAN : Generate(cited, facts)

KbStep ==
    \E d \in Documents : Publish(d) \/ Withdraw(d) \/ \E cleaned \in BOOLEAN : Rewrite(d, cleaned)

Next == TurnStep \/ KbStep

Spec == Init /\ [][Next]_vars

-----------------------------------------------------------------------------
(* Properties *)

\* What the documents say reaches a user only from a document that was in force
\* during the turn, though the index still has the passages of drafts, of
\* withdrawn documents and of earlier texts, and never for a price, a stock, a
\* recommendation or a comparison, which only the catalogue answers.
Grounded ==
    turn # Idle /\ turn.reply.source # "cache" =>
        /\ \A p \in turn.reply.evidence : p[1] \in turn.served
        /\ turn.kind \in {"fact", "recommend", "compare"} => turn.reply.evidence = {}
        /\ turn.reply.source \in {"rag_llm", "rag_extract"} => turn.reply.evidence # {}

\* The cache is the tenant's: no user is answered from the facts, the
\* conversation or the experiment of another one.
OwnContext == turn # Idle => turn.reply.about \subseteq {turn.user}
=============================================================================
