------------------------------ MODULE Chunker ------------------------------
(***************************************************************************)
(* The cutting of a parsed document into passages (kb/chunker.py):         *)
(* chunk_blocks walks over the blocks, split_chunks cuts the paragraphs    *)
(* of a section at sentences and, where a sentence is too long, anywhere.  *)
(* chunk_blocks ends by merging what came out too short.                   *)
(*                                                                         *)
(* A text is a sequence of characters <<block, place>>, so that one can    *)
(* tell where each came from; Gap stands for white space.  The page and    *)
(* image path of a passage, the caption that a table may have in place of  *)
(* the paragraph before it, the words around a heading path and the        *)
(* cleaning of raw text are left out.                                      *)
(***************************************************************************)
EXTENDS Integers, Sequences, FiniteSets, SequencesExt

CONSTANTS
    Blocks,    \* [type, level, size, ends]: size characters, ends of sentences
    DocMax,    \* bound: the blocks of a document
    Size, Overlap, Tiny,  \* KB_CHUNK_SIZE, KB_CHUNK_OVERLAP, KB_MIN_CHUNK_CHARS
    IntroMax,  \* the longest introduction of a table or an image
    RowsMin    \* what the rows of a slice of a table may take at least

\* The configuration does not demand the last conjunct: without it Cut does not end.
ChunkerAssumption ==
    /\ {Size, Tiny, IntroMax, RowsMin, DocMax} \subseteq Nat \ {0}
    /\ Overlap \in Nat /\ Overlap < Size
    /\ \A b \in Blocks : b.level \in Nat /\ b.size \in Nat

VARIABLES
    doc,
    next,      \* the block to read
    stack,     \* heading_stack: the headings, by their place in the document
    paras,     \* para_buf, joined
    pieces,    \* what split_chunks still has to cut at sentences
    buf,       \* what it has merged
    last,      \* last_paragraph
    chunks,    \* [type, path, parts]; a part is [path, body], as the text shows it
    merged     \* those behind the merging of fragments

vars == <<doc, next, stack, paras, pieces, buf, last, chunks, merged>>

Gap == <<0, 0>>

Init ==
    /\ doc \in UNION {[1 .. n -> Blocks] : n \in 1 .. DocMax}
    /\ next = 1
    /\ stack = {}
    /\ paras = <<>> /\ pieces = <<>> /\ buf = <<>> /\ last = <<>>
    /\ chunks = <<>> /\ merged = <<>>

Text(i) == [k \in 1 .. doc[i].size |-> <<i, k>>]
Prefix(text, n) == SubSeq(text, 1, IF Len(text) < n THEN Len(text) ELSE n)
Suffix(text, n) == SubSeq(text, IF Len(text) < n THEN 1 ELSE Len(text) - n + 1, Len(text))

\* Two lines, or the one that is not empty.
Joined(above, below) ==
    IF above = <<>> THEN below ELSE IF below = <<>> THEN above
    ELSE above \o <<Gap>> \o below

Strip(text) ==
    LET words == {k \in 1 .. Len(text) : text[k] # Gap}
        first == CHOOSE k \in words : \A j \in words : k <= j
        final == CHOOSE k \in words : \A j \in words : k >= j
    IN  IF words = {} THEN <<>> ELSE SubSeq(text, first, final)

Chunk(type, body) ==
    [type |-> type, path |-> stack, parts |-> <<[path |-> stack, body |-> body]>>]

EndsSentence(c) == c # Gap /\ c[2] \in doc[c[1]].ends

\* Where the first sentence ends.
SentenceEnd(text) ==
    LET ends == {k \in 1 .. Len(text) : EndsSentence(text[k])} \cup {Len(text)}
    IN  CHOOSE k \in ends : \A m \in ends : k <= m

OnLines(rows) ==
    [k \in 1 .. 2 * Len(rows) - 1 |-> IF k % 2 = 1 THEN rows[(k + 1) \div 2] ELSE Gap]

\* The lines of a table are its characters, two of them its head: as they are equally
\* long, every slice but the last takes the same number of rows.
Slices(text) ==
    LET room == IF Size - 3 > RowsMin THEN Size - 3 ELSE RowsMin
        rows == (room + 1) \div 2
        Final(g) == IF 2 + g * rows < Len(text) THEN 2 + g * rows ELSE Len(text)
    IN  IF Len(text) <= 2 \/ Len(OnLines(text)) <= Size THEN <<OnLines(text)>>
        ELSE [g \in 1 .. (Len(text) - 3) \div rows + 1 |->
                 OnLines(SubSeq(text, 1, 2) \o SubSeq(text, 3 + (g - 1) * rows, Final(g)))]

\* Mutant: a heading may leave paragraphs of the section it ends in the buffer.
ClosesLate(i) == i \in DOMAIN doc => doc[i].type \in {"table", "code"}

\* Before these the buffer is flushed.
Closes(i) == i \in DOMAIN doc => doc[i].type \in {"heading", "table", "code"}

Total == Cardinality({k \in 1 .. Len(paras) : paras[k] # Gap})
Splitting == pieces # <<>> \/ buf # <<>>

\* flush_paras.  The paragraphs of the buffer are joined by single line breaks, which
\* split_chunks does not take for the end of a paragraph: it sees one.  If that is short
\* it is the only piece.
Flush ==
    /\ ~Splitting /\ paras # <<>>
    /\ Closes(next) \/ Total >= Size
    /\ IF Len(paras) <= Size THEN buf' = paras /\ UNCHANGED pieces
                             ELSE pieces' = paras /\ UNCHANGED buf
    /\ paras' = <<>>
    /\ UNCHANGED <<doc, next, stack, last, chunks, merged>>

\* A piece that has no room in the buffer starts the next one, behind an overlap.
Merge ==
    LET end == SentenceEnd(pieces)
        piece == Strip(SubSeq(pieces, 1, end))
        full == buf # <<>> /\ Len(buf) + Len(piece) + 1 > Size
    IN  /\ pieces # <<>> /\ Len(buf) <= Size
        /\ chunks' = IF full THEN Append(chunks, Chunk("paragraph", buf)) ELSE chunks
        /\ buf' = Joined(IF full THEN Suffix(buf, Overlap) ELSE buf, piece)
        /\ pieces' = SubSeq(pieces, end + 1, Len(pieces))
        /\ UNCHANGED <<doc, next, stack, paras, last, merged>>

\* Mutant: the next part starts behind the overlap instead of with it.
RestBehind(text) == Strip(SubSeq(text, Size + Overlap + 1, Len(text)))

Rest(text) == Strip(SubSeq(text, Size - Overlap + 1, Len(text)))

\* The buffer is too long still: it is cut anywhere.
Cut ==
    /\ Len(buf) > Size
    /\ chunks' = Append(chunks, Chunk("paragraph", Prefix(buf, Size)))
    /\ buf' = Rest(buf)
    /\ UNCHANGED <<doc, next, stack, paras, pieces, last, merged>>

EndSplit ==
    /\ pieces = <<>> /\ buf # <<>> /\ Len(buf) <= Size
    /\ chunks' = IF Strip(buf) = <<>> THEN chunks
                 ELSE Append(chunks, Chunk("paragraph", Strip(buf)))
    /\ buf' = <<>>
    /\ UNCHANGED <<doc, next, stack, paras, pieces, last, merged>>

\* The walk is at a block of this type, and what had to be flushed is.
At(type) ==
    /\ next <= Len(doc) /\ doc[next].type = type
    /\ ~Splitting
    /\ paras # <<>> => ~Closes(next) /\ Total < Size
    /\ next' = next + 1
    /\ UNCHANGED <<doc, pieces, buf, merged>>

\* The headings at the end of the stack are popped down to one of a lower level.
ReadHeading ==
    /\ At("heading")
    /\ stack' = {h \in stack : \E g \in stack : g >= h /\ doc[g].level < doc[next].level}
                  \cup {next}
    /\ last' = <<>>
    /\ UNCHANGED <<paras, chunks>>

ReadParagraph ==
    /\ At("paragraph")
    /\ paras' = Joined(paras, Text(next))
    /\ last' = Text(next)
    /\ UNCHANGED <<stack, chunks>>

\* A table is introduced by the paragraph before it in its section; that one has been
\* cut into passages of its own.
ReadTable ==
    LET slices == Slices(Text(next))
    IN  /\ At("table")
        /\ chunks' = chunks \o [k \in 1 .. Len(slices) |->
                                   Chunk("table", Joined(Prefix(last, IntroMax), slices[k]))]
        /\ UNCHANGED <<stack, paras, last>>

\* An image is found by its caption and the paragraph that follows at once; without
\* either it is dropped.  The buffer is not flushed: earlier paragraphs come after it.
ReadImage ==
    LET follows == next < Len(doc) /\ doc[next + 1].type = "paragraph"
        body == Joined(Text(next),
                       IF follows THEN Prefix(Text(next + 1), IntroMax) ELSE <<>>)
    IN  /\ At("image")
        /\ chunks' = IF body = <<>> THEN chunks ELSE Append(chunks, Chunk("image", body))
        /\ UNCHANGED <<stack, paras, last>>

ReadCode ==
    /\ At("code")
    /\ chunks' = Append(chunks, Chunk("code", Text(next)))
    /\ UNCHANGED <<stack, paras, last>>

\* The text of a passage shows the headings in front of each part.
Length(chunk) ==
    FoldLeft(LAMBDA n, p : n + Len(p.body)
                             + (IF p.path = {} THEN 0 ELSE Cardinality(p.path) + 1),
             Len(chunk.parts) - 1, chunk.parts)

\* A fragment joins the passage before it if that has its type, whatever its section:
\* the metadata then name the headings of the first part only.
Join(done, chunk) ==
    IF done # <<>> /\ Length(chunk) < Tiny /\ Last(done).type = chunk.type
    THEN Append(Front(done), [Last(done) EXCEPT !.parts = @ \o chunk.parts])
    ELSE Append(done, chunk)

\* The end of chunk_blocks, one passage at a time.
MergeFragments ==
    /\ next > Len(doc) /\ paras = <<>> /\ ~Splitting
    /\ chunks # <<>>
    /\ merged' = Join(merged, Head(chunks))
    /\ chunks' = Tail(chunks)
    /\ UNCHANGED <<doc, next, stack, paras, pieces, buf, last>>

Next ==
    \/ Flush \/ Merge \/ Cut \/ EndSplit
    \/ ReadHeading \/ ReadParagraph \/ ReadTable \/ ReadImage \/ ReadCode
    \/ MergeFragments

Spec == Init /\ [][Next]_vars

-----------------------------------------------------------------------------
\* The headings a block stands under, by the levels of the document alone.
Section(i) ==
    {h \in 1 .. i - 1 :
        /\ doc[h].type = "heading"
        /\ \A g \in h + 1 .. i - 1 :
              doc[g].type = "heading" => doc[g].level > doc[h].level}

Characters(text) == {text[k] : k \in 1 .. Len(text)} \ {Gap}

Parts(passages) ==
    UNION {{passages[c].parts[p] : p \in 1 .. Len(passages[c].parts)} : c \in 1 .. Len(passages)}

Passages == Parts(chunks) \cup Parts(merged)

InHand == Characters(paras) \cup Characters(pieces) \cup Characters(buf)

\* Every character read so far is in a passage or still in hand, whichever way flushes,
\* overlaps and cuts fall; and in each passage it stands under the headings of its own
\* section, although introductions, neighbours and overlaps copy text from block to block.
NothingLost ==
    /\ \A i \in 1 .. next - 1 : doc[i].type # "heading" =>
          \A k \in 1 .. doc[i].size :
             <<i, k>> \in InHand \cup UNION {Characters(p.body) : p \in Passages}
    /\ \A p \in Passages : \A c \in Characters(p.body) : p.path = Section(c[1])
=============================================================================
