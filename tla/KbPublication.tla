--------------------------- MODULE KbPublication ---------------------------
(***************************************************************************)
(* One document of the knowledge base: drafts, review, publication, upload *)
(* and rollback (services/kb_operations_service.py and kb/ingest.py, behind*)
(* routes/kb.py), scheduled publication and expiry (scripts/kb_schedule.py)*)
(* and the repair of the vector index (kb/reindex.py).                     *)
(*                                                                         *)
(* A request keeps the row it read and the row it wants; its UPDATE names  *)
(* the columns it changed.  A publication flushes its UPDATE first, which  *)
(* locks the row until it ends, then deletes the chunks its statement can  *)
(* see, writes the vector index, which is outside of the transaction, and  *)
(* commits.  A generation stands for the chunks one publication inserts.   *)
(* The scheduled publication selects its candidates first, publishes them  *)
(* unchecked and commits its batch also where one of them failed half way. *)
(* The repair lists, writes the index and clears the flags beside all this.*)
(***************************************************************************)
EXTENDS Naturals, FiniteSets

CONSTANTS
    Contents,
    Workers,    \* requests at the same time, the cron jobs among them
    Operations  \* bound: the operations on the document

\* What is assumed of the constants.
PublicationAssumption == Operations \in Nat

VARIABLES
    doc,       \* the committed row
    versions,  \* the version history, numbers with contents
    chunks,    \* the committed generations
    index,     \* the generations in the vector index
    txs,       \* the transaction of each worker
    left,      \* operations to go; numbers the generations as well
    repair,    \* the run of kb/reindex.py, one at a time
    unlocked,  \* history: a publication had no column to change
    halved,    \* history: a scheduled publication was committed half done
    strayed    \* history: the index and its flag have parted, see Finish, Abort
               \* and ReindexClear, and no publication or repair brought them together

vars == <<doc, versions, chunks, index, txs, left, repair, unlocked, halved, strayed>>

NoDoc == [status |-> "none"]
Idle == [pc |-> "idle"]
Selected == [pc |-> "selected"]  \* a candidate of the scheduled publication
NoRepair == [pc |-> "none", seen |-> {}, clean |-> FALSE]

NewDoc(status, content, effective, flag) ==
    [status |-> status, content |-> content, published |-> 0,
     effective |-> effective, flag |-> flag]

Generation(content, number) == [content |-> content, number |-> number]

\* There is no document yet, or one that was drafted and published long ago.
Init ==
    /\ \/ /\ doc = NoDoc
          /\ versions = {} /\ chunks = {}
       \/ \E c \in Contents :
             /\ doc = [NewDoc("published", c, "none", FALSE) EXCEPT !.published = 1]
             /\ versions = {[number |-> 1, content |-> c]}
             /\ chunks = {Generation(c, 0)}
    /\ index = chunks
    /\ txs = [w \in Workers |-> Idle]
    /\ left = Operations
    /\ repair = NoRepair
    /\ unlocked = FALSE /\ halved = FALSE /\ strayed = FALSE

-----------------------------------------------------------------------------
(* Rows *)

\* The document is served: it was published and is not archived.
Live == doc # NoDoc /\ doc.published # 0 /\ doc.status # "archived"

NextVersion == Cardinality({v.number : v \in versions}) + 1
NewVersion(content) == [number |-> NextVersion, content |-> content]

Updated(row, read, want) ==
    [col \in DOMAIN want |-> IF want[col] # read[col] THEN want[col] ELSE row[col]]

-----------------------------------------------------------------------------
(* Transactions *)

Begun(tx) == tx \notin {Idle, Selected}
Publishes(tx) == tx.kind \in {"publish", "scheduled"}

InFlight == {w \in Workers : Begun(txs[w])}
Holders == {w \in InFlight : txs[w].locks}

Start(w, kind, want, added) ==
    /\ doc # NoDoc
    /\ left > 0
    /\ left' = left - 1
    /\ txs' = [txs EXCEPT ![w] =
          [pc |-> IF kind = "plain" THEN "finish" ELSE "update", kind |-> kind,
           read |-> doc, want |-> want, added |-> added, locks |-> FALSE,
           gone |-> {}, gen |-> Generation(want.content, left)]]
    /\ repair' = [repair EXCEPT !.clean = @ /\ kind = "plain"]
    /\ UNCHANGED <<doc, versions, chunks, index, unlocked, halved, strayed>>

Begin(w, kind, want, added) ==
    /\ txs[w] = Idle
    /\ Start(w, kind, want, added)

\* Mutant: the row is flushed with the commit only.
LockLate(w) ==
    /\ txs[w].pc = "update"
    /\ txs' = [txs EXCEPT ![w].pc = IF Publishes(txs[w]) THEN "delete" ELSE "index"]
    /\ UNCHANGED <<doc, versions, chunks, index, left, repair, unlocked, halved, strayed>>

\* The flush of the row.  An upload of what is there already changes no column
\* and locks nothing.
Lock(w) ==
    LET changes == \E col \in {"status", "content"} :
                      txs[w].want[col] # txs[w].read[col]
    IN  /\ txs[w].pc = "update"
        /\ changes => Holders = {}
        /\ txs' = [txs EXCEPT
              ![w].pc = IF Publishes(txs[w]) THEN "delete" ELSE "index",
              ![w].locks = changes]
        /\ unlocked' = (unlocked \/ ~changes)
        /\ UNCHANGED <<doc, versions, chunks, index, left, repair, halved, strayed>>

\* delete_by_document: the rows its snapshot sees.
Delete(w) ==
    /\ txs[w].pc = "delete"
    /\ txs' = [txs EXCEPT ![w].pc = "index", ![w].gone = chunks]
    /\ UNCHANGED <<doc, versions, chunks, index, left, repair, unlocked, halved, strayed>>

\* Mutant: a failure of the index is only logged.
WriteIndexUnflagged(w, ok) ==
    /\ txs[w].pc = "index"
    /\ index' = IF ok /\ Publishes(txs[w]) THEN {txs[w].gen} ELSE {}
    /\ txs' = [txs EXCEPT ![w].pc = "finish"]
    /\ UNCHANGED <<doc, versions, chunks, left, repair, unlocked, halved, strayed>>

\* A deletion of chunks waits for the transaction that is deleting them already.
Deletes(w) ==
    ~\E v \in InFlight \ {w} : txs[v].pc = "finish" /\ txs[v].gone \cap txs[w].gone # {}

\* The vectors of the document are deleted, those of the new chunks written; a
\* failure, before or after the deletion, is flagged.
WriteIndex(w, ok) ==
    /\ txs[w].pc = "index"
    /\ Deletes(w)
    /\ \/ ok /\ index' = IF Publishes(txs[w]) THEN {txs[w].gen} ELSE {}
       \/ ~ok /\ index' \in {index, {}}
    /\ txs' = [txs EXCEPT ![w].pc = "finish",
                          ![w].want.flag = IF Publishes(txs[w]) THEN ~ok ELSE @ \/ ~ok]
    /\ UNCHANGED <<doc, versions, chunks, left, repair, unlocked, halved, strayed>>

\* The last flush and the commit.  The flag strays when it is not written because
\* the row that was read had the same value, and when a document that stays
\* served is disabled; a publication that writes it puts an end to that.
Finish(w) ==
    LET tx == txs[w]
        row == Updated(doc, tx.read, tx.want)
    IN  /\ tx.pc = "finish"
        /\ Holders \subseteq {w}
        /\ doc' = row
        /\ versions' = versions \cup tx.added
        /\ chunks' = IF Publishes(tx) THEN (chunks \ tx.gone) \cup {tx.gen} ELSE chunks
        /\ txs' = [txs EXCEPT ![w] = Idle]
        /\ strayed' = CASE Publishes(tx) -> tx.want.flag # row.flag
                         [] tx.kind = "disable" -> TRUE
                         [] OTHER -> strayed
        /\ UNCHANGED <<index, left, repair, unlocked, halved>>

\* The embedding service fails.  kb_schedule logs it and commits its batch: the
\* flushed status and the deletion of the chunks stay, nothing else was written.
CommitHalf(w) ==
    LET tx == txs[w] IN
    /\ tx.pc = "index" /\ tx.kind = "scheduled"
    /\ Deletes(w)
    /\ doc' = Updated(doc, tx.read, [tx.read EXCEPT !.status = tx.want.status])
    /\ chunks' = chunks \ tx.gone
    /\ txs' = [txs EXCEPT ![w] = Idle]
    /\ halved' = TRUE
    /\ UNCHANGED <<versions, index, left, repair, unlocked, strayed>>

\* The transaction is rolled back, what was written to the index stays there.  Or
\* the scheduled publication ends before it came to its candidate.
Abort(w) ==
    /\ txs[w].pc \in {"selected", "index", "finish"}
    /\ strayed' = (strayed \/ (txs[w].pc = "finish" /\ txs[w].kind # "plain"))
    /\ txs' = [txs EXCEPT ![w] = Idle]
    /\ UNCHANGED <<doc, versions, chunks, index, left, repair, unlocked, halved>>

-----------------------------------------------------------------------------
(* Operations *)

CreateDraft(content, effective) ==
    /\ doc = NoDoc
    /\ doc' = NewDoc("draft", content, effective, FALSE)
    /\ versions' = {NewVersion(content)}
    /\ UNCHANGED <<chunks, index, txs, left, repair, unlocked, halved, strayed>>

\* An upload creates a document that has chunks and no published version.
CreateUploaded(content, ok) ==
    LET gen == Generation(content, 0) IN
    /\ doc = NoDoc
    /\ doc' = NewDoc("published", content, "none", ~ok)
    /\ chunks' = {gen}
    /\ index' = IF ok THEN {gen} ELSE {}
    /\ UNCHANGED <<versions, txs, left, repair, unlocked, halved, strayed>>

Edit(w, content) ==
    /\ doc.status # "archived"
    /\ Begin(w, "plain", [doc EXCEPT !.status = "draft", !.content = content],
             {NewVersion(content)})

SubmitReview(w) ==
    /\ doc.status = "draft"
    /\ Begin(w, "plain", [doc EXCEPT !.status = "pending_review"], {})

Reject(w) ==
    /\ doc.status = "pending_review"
    /\ Begin(w, "plain", [doc EXCEPT !.status = "draft"], {})

\* Also the scheduled expiry.
Archive(w) == Begin(w, "plain", [doc EXCEPT !.status = "archived"], {})

Approve(w) ==
    /\ doc.status = "pending_review"
    /\ Begin(w, "publish",
             [doc EXCEPT !.status = "published", !.published = NextVersion - 1], {})

Rollback(w, version) ==
    Begin(w, "publish",
          [doc EXCEPT !.status = "published", !.content = version.content,
                      !.published = NextVersion],
          {NewVersion(version.content)})

\* kb_schedule looks for the documents that are due,
SelectEffective(w) ==
    /\ txs[w] = Idle
    /\ doc.status \notin {"none", "archived"}
    /\ doc.effective = "due"
    /\ doc.published = 0
    /\ txs' = [txs EXCEPT ![w] = Selected]
    /\ UNCHANGED <<doc, versions, chunks, index, left, repair, unlocked, halved, strayed>>

\* and publishes one after the other what it found then: force_publish asks for no
\* review, and nothing asks again whether the document is archived or published.
PublishEffective(w) ==
    /\ txs[w] = Selected
    /\ Start(w, "scheduled", [doc EXCEPT !.status = "published", !.effective = "none",
                                         !.published = NextVersion - 1], {})

\* upsert_document and upsert_document_file: past the review.
Upload(w, content) ==
    Begin(w, "publish", [doc EXCEPT !.status = "published", !.content = content], {})

Disable(w) == Begin(w, "disable", [doc EXCEPT !.status = "disabled"], {})

-----------------------------------------------------------------------------
(* reindex_tenant, beside the transactions: it reads what is committed *)

Rebuilders == {w \in InFlight : txs[w].kind # "plain"}

\* The document is listed, and its chunks are, unless the limit of a tenant's chunks
\* cuts them off.  (A document that the limit of documents cuts off is not touched.)
\* A run is clean as long as nothing rebuilds or disables the document.
ReindexList ==
    /\ repair = NoRepair
    /\ Live
    /\ \E seen \in {chunks, {}} :
          repair' = [pc |-> "write", seen |-> seen, clean |-> Rebuilders = {}]
    /\ UNCHANGED <<doc, versions, chunks, index, txs, left, unlocked, halved, strayed>>

ReindexWrite ==
    /\ repair.pc = "write"
    /\ index' = index \cup repair.seen
    /\ repair' = [repair EXCEPT !.pc = "clear"]
    /\ UNCHANGED <<doc, versions, chunks, txs, left, unlocked, halved, strayed>>

\* The flag is cleared whatever was written and whatever was published meanwhile;
\* the UPDATE, if there is one, waits for the row.
ReindexClear ==
    /\ repair.pc = "clear"
    /\ doc.flag => Holders = {}
    /\ doc' = [doc EXCEPT !.flag = FALSE]
    /\ strayed' = IF repair.clean /\ repair.seen = chunks THEN FALSE ELSE strayed \/ doc.flag
    /\ repair' = NoRepair
    /\ UNCHANGED <<versions, chunks, index, txs, left, unlocked, halved>>

\* The vector index, the database or the process fails.
ReindexStops ==
    /\ repair # NoRepair
    /\ repair' = NoRepair
    /\ UNCHANGED <<doc, versions, chunks, index, txs, left, unlocked, halved, strayed>>

Next ==
    \/ \E c \in Contents :
          \/ \E effective \in {"none", "due"} : CreateDraft(c, effective)
          \/ \E ok \in BOOLEAN : CreateUploaded(c, ok)
    \/ \E w \in Workers :
          \/ \E c \in Contents : Edit(w, c) \/ Upload(w, c)
          \/ SubmitReview(w) \/ Reject(w) \/ Archive(w) \/ Approve(w)
          \/ \E version \in versions : Rollback(w, version)
          \/ SelectEffective(w) \/ PublishEffective(w) \/ Disable(w)
          \/ Lock(w) \/ Delete(w) \/ Finish(w) \/ CommitHalf(w) \/ Abort(w)
          \/ \E ok \in BOOLEAN : WriteIndex(w, ok)
    \/ ReindexList \/ ReindexWrite \/ ReindexClear \/ ReindexStops

Spec == Init /\ [][Next]_vars

-----------------------------------------------------------------------------
(* Properties *)

\* A document is rebuilt as a whole: however publications, uploads and rollbacks
\* overlap and fail, what is served is of one content, never half old and half
\* new, and never nothing, except after a scheduled publication that was committed
\* half done.  (An upload that changes nothing takes no lock.)
OneContent ==
    LET served == {gen.content : gen \in chunks} IN
    Live /\ ~unlocked => Cardinality(served) = 1 \/ (served = {} /\ halved)

\* A served document that the vector search cannot find is flagged for the
\* repair, through all sequences of operations and failures of the index, and a
\* repair that nothing disturbs makes it found.  Four things part the two until the
\* next publication or such a repair, which is what strayed says: a rollback after
\* the index was written, a flag left unwritten because it was read with the same
\* value, a document that is disabled while it stays served, and a repair that was
\* overtaken by a publication or cut off by its limits and clears the flag.
Findable ==
    \/ ~Live \/ strayed \/ unlocked \/ doc.flag
    \/ \E w \in InFlight : txs[w].pc = "finish" /\ txs[w].kind # "plain"
    \/ chunks \subseteq index
=============================================================================
