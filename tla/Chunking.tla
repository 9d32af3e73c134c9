------------------------------ MODULE Chunking ------------------------------
(***************************************************************************)
(* splitChunks of rag.mjs: a section of a document is cut into overlapping *)
(* chunks, at a paragraph or the end of a sentence where there is one far  *)
(* enough into the chunk.  A text is a sequence of characters of four      *)
(* kinds; a chunk is the interval of positions it was cut from, before the *)
(* blanks at its ends are trimmed off.                                     *)
(***************************************************************************)
EXTENDS Integers

CONSTANTS
    MaxLength,      \* bound: characters of a text
    MaxChunkSize    \* bound: RAG_CHUNK_SIZE

ASSUME ChunkingAssumption == MaxLength \in Nat /\ MaxChunkSize \in Nat \ {0}

VARIABLES
    size,       \* characters of the text, after trim
    text,       \* their kinds, by position
    chunkSize,  \* RAG_CHUNK_SIZE
    overlap,    \* RAG_CHUNK_OVERLAP
    start,      \* where the next chunk starts
    chunks,     \* the chunks so far: [from, to), blank ones left out
    split       \* whether the loop is over

chunkVars == <<size, text, chunkSize, overlap, start, chunks, split>>
givenVars == <<size, text, chunkSize, overlap>>

Kinds == {"letter", "period", "space", "newline"}
Blanks == {"space", "newline"}
Intervals == [from : 0..MaxLength, to : 0..MaxLength]

ChunkingTypeOK ==
    /\ size \in 1..MaxLength
    /\ text \in [0..(size - 1) -> Kinds]
    /\ chunkSize \in 1..MaxChunkSize
    /\ overlap \in 0..(chunkSize - 1)
    /\ start \in 0..(size - 1)
    /\ chunks \subseteq Intervals
    /\ split \in BOOLEAN

\* A text that is not blank and has been trimmed; a configuration that
\* buildConfig accepts.
ChunkingInit ==
    /\ size \in 1..MaxLength
    /\ text \in [0..(size - 1) -> Kinds]
    /\ text[0] \notin Blanks
    /\ text[size - 1] \notin Blanks
    /\ chunkSize \in 1..MaxChunkSize
    /\ overlap \in 0..(chunkSize - 1)
    /\ start = 0
    /\ chunks = {}
    /\ split = FALSE

Lower(a, b) == IF a < b THEN a ELSE b
Higher(a, b) == IF a < b THEN b ELSE a

HardEnd == Lower(start + chunkSize, size)

\* Where the pair of kinds (a, b) lies within the candidate.
PairsOf(a, b) == {p \in start..(HardEnd - 2) : text[p] = a /\ text[p + 1] = b}

ParagraphEnds == {p + 2 : p \in PairsOf("newline", "newline")}
SentenceEnds == {p + 1 : p \in PairsOf("period", "space")}

\* A break counts once it is 55% into the chunk; its position is one or two
\* before the end it makes.
FarEnough(p) == p - start >= (chunkSize * 55) \div 100

LastOf(S) == {e \in S : \A f \in S : f <= e}

\* The end after the last break, a paragraph or a sentence, whichever is later.
PreferredEnds ==
    LastOf({e \in ParagraphEnds : FarEnough(e - 2)}
           \cup {e \in SentenceEnds : FarEnough(e - 1)})

\* Where the chunk ends.
ChunkEnd(end) ==
    IF HardEnd < size /\ PreferredEnds # {} THEN end \in PreferredEnds ELSE end = HardEnd

\* Mutant: the overlap is left out, and one character more.
SkipOne(end) == Higher(end + 1, start + 1)

\* Where the next chunk starts: back by the overlap, but always further on.
NextStart(end) == Higher(end - overlap, start + 1)

\* One turn of the loop.
SplitOne ==
    /\ ~split
    /\ \E end \in (start + 1)..size :
        /\ ChunkEnd(end)
        /\ chunks' = IF \E p \in start..(end - 1) : text[p] \notin Blanks
                     THEN chunks \cup {[from |-> start, to |-> end]} ELSE chunks
        /\ split' = (end >= size)
        /\ start' = IF end >= size THEN start ELSE NextStart(end)
    /\ UNCHANGED givenVars

ChunkingNext == SplitOne

ChunkingSpec == ChunkingInit /\ [][ChunkingNext]_chunkVars
-----------------------------------------------------------------------------
Covered(p) == \E c \in chunks : c.from <= p /\ p < c.to

\* Whatever the chunk size, the overlap and the breaks, no character of a text
\* is lost between two chunks (rag.mjs:110-116, tests/rag.test.mjs), and no
\* chunk is longer than it may be.
TextIsCovered ==
    /\ split => \A p \in 0..(size - 1) : text[p] \in Blanks \/ Covered(p)
    /\ \A c \in chunks : c.to - c.from <= chunkSize

\* The loop goes forward with every turn, so it ends.
SplittingAdvances == [][~split' => start' > start]_chunkVars
=============================================================================
