----------------------------- MODULE Retrieval -----------------------------
(***************************************************************************)
(* What POST /chat finds in the index (RagIndex) for a question: the       *)
(* question is embedded if that can help, every chunk is scored, by its    *)
(* embedding where it has one, and the best are listed, a few of each      *)
(* document.  Every failure falls back to the keywords, or to no context.  *)
(*                                                                         *)
(* lexicalSimilarity is given as a function of the question and the chunk, *)
(* cosineSimilarity as one of the question, the embedding of the chunk and *)
(* the model that embeds the question; both in hundredths.                 *)
(***************************************************************************)
EXTENDS RagIndex

CONSTANTS
    Questions,              \* what users ask
    FileOf,                 \* the document of a chunk
    Lexical, Semantic,      \* the two similarities
    MinScore,               \* RAG_MIN_SCORE, in hundredths
    MaxChunksPerDocument,   \* RAG_MAX_CHUNKS_PER_DOCUMENT
    TopK                    \* RAG_TOP_K

ASSUME RetrievalAssumption ==
    /\ DOMAIN FileOf = Chunks
    /\ Lexical \in [Questions \X Chunks -> 0..100]
    /\ Semantic \in [Questions \X Embedding \X Models -> 0..100]
    /\ MinScore \in 0..100
    /\ MaxChunksPerDocument \in Nat \ {0}
    /\ TopK \in Nat \ {0}

VARIABLE
    found       \* the last retrieval: question, its embedding, list, strategy, reason

retrievalVars == <<vars, found>>

\* What became of the embedding of the question; an answer of the service
\* without an embedding in it is taken as an empty one.
QueryEmbeddings == {"unwanted", "embedded", "empty", "failed"}

Nothing == [question |-> {}, embedding |-> "unwanted", list |-> <<>>,
            strategy |-> "skipped", reason |-> "none"]

RetrievalTypeOK ==
    /\ RagTypeOK
    /\ found.question \in SUBSET Questions
    /\ found.embedding \in QueryEmbeddings
    /\ found.list \in Seq(DOMAIN store)
    /\ found.strategy \in {"skipped", "unavailable", "keyword", "hybrid"}
    /\ found.reason \in {"none", "query_embedding_failed", "no_embedded_chunks",
                         "embedding_provider_disabled", "rag_retrieval_failed"}

RetrievalInit == Init /\ found = Nothing
-----------------------------------------------------------------------------
\* How the chunk at position i is scored: by both similarities if the
\* question and the chunk have an embedding, else by the keywords alone.
StrategyOf(i, embedding) ==
    IF embedding = "embedded" /\ store[i] # {} THEN "hybrid" ELSE "keyword"

EmbeddingAt(i) == CHOOSE e \in store[i] : TRUE

\* The score, in parts of 10000.
Score(q, i, embedding) ==
    LET chunk == docs.chunks[i]
    IN  IF StrategyOf(i, embedding) = "hybrid"
        THEN 82 * Semantic[<<q, EmbeddingAt(i), model>>] + 18 * Lexical[<<q, chunk>>]
        ELSE 100 * Lexical[<<q, chunk>>]

Relevant(q, embedding) ==
    {i \in DOMAIN store : Score(q, i, embedding) >= 100 * MinScore}

\* Those of the chunks S that are listed before chunk i: they score more, or
\* as much and come first in the store.
Ahead(S, q, embedding, i) ==
    {j \in S : LET sj == Score(q, j, embedding)
                   si == Score(q, i, embedding)
               IN  sj > si \/ (sj = si /\ j < i)}

\* A set of chunks as a list, best first.
Sorted(S, q, embedding) ==
    [k \in 1..Cardinality(S) |->
        CHOOSE i \in S : Cardinality(Ahead(S, q, embedding, i)) = k - 1]

\* Of a set of chunks, the best MaxChunksPerDocument of every document.
Spread(S, q, embedding) ==
    LET docOf(i) == FileOf[docs.chunks[i]]
    IN  {i \in S : Cardinality({j \in Ahead(S, q, embedding, i) : docOf(j) = docOf(i)})
                       < MaxChunksPerDocument}

First(S, q, embedding) == {i \in S : Cardinality(Ahead(S, q, embedding, i)) < TopK}

\* Mutant: the list is cut before the documents get their share.
CutFirst(q, embedding) ==
    Sorted(Spread(First(Relevant(q, embedding), q, embedding), q, embedding), q, embedding)

\* rankChunkRecords.
Rank(q, embedding) ==
    Sorted(First(Spread(Relevant(q, embedding), q, embedding), q, embedding), q, embedding)

\* The question is worth embedding.
Embeddable == openai /\ Embedded # {}

Reason(embedding) ==
    CASE embedding = "failed" -> "query_embedding_failed"
      [] embedding = "unwanted" ->
            IF openai THEN "no_embedded_chunks" ELSE "embedding_provider_disabled"
      [] OTHER -> "none"

\* The strategy on record is that of the best chunk.
Strategy(list, embedding) ==
    IF list # <<>> THEN StrategyOf(list[1], embedding)
    ELSE IF Reason(embedding) # "none" THEN "keyword" ELSE "hybrid"

\* A question is asked: it is embedded, if possible, and the chunks are ranked.
Retrieve ==
    /\ pc = "serving"
    /\ \E q \in Questions :
        \E e \in (IF Embeddable THEN QueryEmbeddings \ {"unwanted"} ELSE {"unwanted"}) :
            LET list == Rank(q, e)
            IN  found' = [question |-> {q}, embedding |-> e, list |-> list,
                          strategy |-> Strategy(list, e), reason |-> Reason(e)]
    /\ UNCHANGED vars

\* The ranking itself throws: the question goes to the providers without any
\* context.
RetrievalFails ==
    /\ pc = "serving"
    /\ found' = [Nothing EXCEPT !.strategy = "unavailable",
                                !.reason = "rag_retrieval_failed"]
    /\ UNCHANGED vars

RetrievalNext ==
    \/ Next /\ found' = Nothing
    \/ Retrieve
    \/ RetrievalFails

RetrievalSpec == RetrievalInit /\ [][RetrievalNext]_retrievalVars
-----------------------------------------------------------------------------
Listed == {found.list[k] : k \in DOMAIN found.list}

\* The list is as good as the limits allow (rag.mjs:366-376): each chunk is
\* relevant and none twice; a relevant chunk left out has enough chunks of
\* its own document, or TopK chunks in all, that score no less; and no
\* document takes a place another document's better chunk has a right to.
BestAreListed ==
    \A q \in found.question :
        LET score(i) == Score(q, i, found.embedding)
            docOf(i) == FileOf[docs.chunks[i]]
            asGood(i) == {j \in Listed : score(j) >= score(i)}
        IN  /\ Cardinality(Listed) = Len(found.list)
            /\ Listed \subseteq Relevant(q, found.embedding)
            /\ \A i \in Listed :
                Cardinality({j \in Listed : docOf(j) = docOf(i)}) <= MaxChunksPerDocument
            /\ \A i \in Relevant(q, found.embedding) \ Listed :
                \/ Cardinality({j \in asGood(i) : docOf(j) = docOf(i)}) = MaxChunksPerDocument
                \/ Cardinality(asGood(i)) = TopK
=============================================================================
