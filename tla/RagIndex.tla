------------------------------ MODULE RagIndex ------------------------------
(***************************************************************************)
(* The retrieval index: initRAG and embedDocumentBatch of index.mjs, the   *)
(* embedding cache of rag.mjs, and what startApplication makes of their    *)
(* result, over restarts of the server with other documents, another       *)
(* embedding model or no OpenAI key.  The embedding service can fail, time *)
(* out, answer incompletely or out of order; the cache file can be         *)
(* unwritable, is left broken by a process that dies while writing it, and *)
(* may be of the format before this one, which names no model.             *)
(***************************************************************************)
EXTENDS Naturals, Sequences, FiniteSets, Functions

CONSTANTS
    Chunks,         \* chunks, by their hash
    Documents,      \* what docs/ may hold: [count, chunks], in file order
    Models,         \* values of EMBEDDING_MODEL
    BatchSize,      \* RAG_EMBEDDING_BATCH_SIZE
    Earlier,        \* a cache of the earlier format: its embeddings by chunk
    MaxStarts       \* bound: starts of the server

NoModel == "no model"

\* An embedding is what a model makes of a chunk.
Embedding == [chunk : Chunks, model : Models]

ASSUME RagAssumption ==
    /\ Documents \subseteq [count : Nat, chunks : Seq(Chunks)]
    /\ \A d \in Documents : \A i, j \in 1..Len(d.chunks) :
            d.chunks[i] = d.chunks[j] => i = j
    /\ BatchSize \in Nat \ {0}
    /\ Earlier \subseteq Chunks \X Embedding
    /\ \A e \in Earlier : e[2].chunk = e[1]
    /\ \A e, f \in Earlier : e[1] = f[1] => e = f
    /\ MaxStarts \in Nat
    /\ NoModel \notin Models

VARIABLES
    pc,         \* where startApplication is
    docs,       \* the documents that were loaded
    model,      \* EMBEDDING_MODEL
    openai,     \* whether there is an openaiClient
    store,      \* of VECTOR_STORE: the embedding at a position, if there is one
    pending,    \* the missingIndexes still to be embedded, a set of positions
    failed,     \* embeddingError
    index,      \* RAG_INDEX_STATE: status and mode
    file,       \* rag-cache.json: its model and its embeddings by chunk
    saved,      \* history: the chunks last saved with an embedding, and the model in use
    starts      \* starts of the server so far

vars == <<pc, docs, model, openai, store, pending, failed, index, file, saved, starts>>

Cache == [model : Models \cup {NoModel}, intact : BOOLEAN,
          chunks : SUBSET (Chunks \X Embedding)]
EmptyCache == [model |-> NoModel, intact |-> FALSE, chunks |-> {}]
\* A file with neither `version' nor `embeddingModel'.
EarlierCache == [model |-> NoModel, intact |-> TRUE, chunks |-> Earlier]

Starting == [status |-> "initializing", mode |-> "unavailable"]

RagTypeOK ==
    /\ pc \in {"down", "loading", "embedding", "saving", "serving"}
    /\ docs \in Documents
    /\ model \in Models
    /\ openai \in BOOLEAN
    /\ store \in Seq(SUBSET Embedding)
    /\ pc \in {"embedding", "saving"} => Len(store) = Len(docs.chunks)
    /\ pending \subseteq 1..Len(store)
    /\ failed \in BOOLEAN
    /\ index \in [status : {"initializing", "ready", "degraded"},
                  mode : {"unavailable", "keyword", "hybrid_partial", "hybrid"}]
    /\ file \in Cache
    /\ saved \subseteq Embedding
    /\ starts \in 0..MaxStarts

Init ==
    /\ pc = "down"
    /\ docs \in Documents
    /\ model \in Models
    /\ openai = FALSE
    /\ store = <<>>
    /\ pending = {}
    /\ failed = FALSE
    /\ index = Starting
    /\ file \in {EmptyCache, EarlierCache}
    /\ saved = {}
    /\ starts = 0

configVars == <<docs, model, openai>>
-----------------------------------------------------------------------------
\* A process starts, with the documents and the configuration it finds.
Start ==
    /\ pc = "down"
    /\ starts < MaxStarts
    /\ starts' = starts + 1
    /\ docs' \in Documents
    /\ model' \in Models
    /\ openai' \in BOOLEAN
    /\ pc' = "loading"
    /\ store' = <<>>
    /\ pending' = {}
    /\ failed' = FALSE
    /\ index' = Starting
    /\ UNCHANGED <<file, saved>>

\* startApplication's catch: the server starts without an index.
Degrade ==
    /\ pc' = "serving"
    /\ store' = <<>>
    /\ pending' = {}
    /\ index' = [status |-> "degraded", mode |-> "unavailable"]

\* loadDocuments, buildChunkRecords or loadEmbeddingCache throws.
LoadFails ==
    /\ pc = "loading"
    /\ Degrade
    /\ UNCHANGED <<configVars, failed, file, saved, starts>>

\* Mutant: a cache is used whatever its model.
ReuseAnyModel(c) == {e[2] : e \in {f \in file.chunks : file.intact /\ f[1] = c}}

\* cacheModelMismatch: a cache that names no model never has one.
Mismatch == file.model # NoModel /\ file.model # model

\* The embedding the cache has for chunk c, if it may be used.
Reusable(c) == {e[2] : e \in {f \in file.chunks : file.intact /\ ~Mismatch /\ f[1] = c}}

\* The chunks get the embeddings the cache has; the others are missing.
LoadCache ==
    LET reused == [i \in 1..Len(docs.chunks) |-> Reusable(docs.chunks[i])]
    IN  /\ pc = "loading"
        /\ pc' = "embedding"
        /\ store' = reused
        /\ pending' = IF openai
                      THEN {i \in 1..Len(docs.chunks) : reused[i] = {}}
                      ELSE {}
        /\ UNCHANGED <<configVars, failed, index, file, saved, starts>>

\* What batchIndexes can be: the first missing positions, in their order.
Batches ==
    LET size == IF Cardinality(pending) < BatchSize THEN Cardinality(pending) ELSE BatchSize
    IN  {batch \in [1..size -> pending] :
            /\ \A m, n \in 1..size : m < n => batch[m] < batch[n]
            /\ \A n \in 1..size : \A i \in pending \ Range(batch) : batch[n] < i}

\* Mutant: the items are taken in the order in which they were sent.
AsReceived(response) == [k \in DOMAIN response |-> response[k].chunk]

\* The items of a response, sorted by index.
ByIndex(response) ==
    [k \in DOMAIN response |->
        response[CHOOSE n \in DOMAIN response : response[n].index = k].chunk]

\* A batch is embedded; the items of the response are in any order.
EmbedBatch ==
    /\ pc = "embedding"
    /\ pending # {}
    /\ \E batch \in Batches : \E order \in Bijection(DOMAIN batch, DOMAIN batch) :
        LET response == [n \in DOMAIN batch |->
                [index |-> order[n], chunk |-> docs.chunks[batch[order[n]]]]]
        IN  /\ store' = [i \in DOMAIN store |->
                IF i \in Range(batch)
                THEN {[chunk |-> ByIndex(response)[k], model |-> model] :
                            k \in {n \in DOMAIN batch : batch[n] = i}}
                ELSE store[i]]
            /\ pending' = pending \ Range(batch)
    /\ UNCHANGED <<pc, configVars, failed, index, file, saved, starts>>

\* The request fails, times out or comes back incomplete: no more batches.
BatchFails ==
    /\ pc = "embedding"
    /\ pending # {}
    /\ failed' = TRUE
    /\ pending' = {}
    /\ UNCHANGED <<pc, configVars, store, index, file, saved, starts>>

Embedded == {i \in 1..Len(store) : store[i] # {}}

\* Mutant: one embedding is enough.
AnyHybrid ==
    IF ~openai \/ Embedded = {} THEN "keyword" ELSE "hybrid"

Mode ==
    IF ~openai \/ Embedded = {} THEN "keyword"
    ELSE IF Embedded = 1..Len(store) THEN "hybrid" ELSE "hybrid_partial"

Status == IF docs.count > 0 /\ ~failed /\ openai THEN "ready" ELSE "degraded"

\* Mutant: what was reused is not written again.
GeneratedOnly ==
    UNION {{<<docs.chunks[i], e>> : e \in store[i] \ Reusable(docs.chunks[i])} :
                i \in 1..Len(store)}

NextCache == UNION {{<<docs.chunks[i], e>> : e \in store[i]} : i \in 1..Len(store)}

BeginSave ==
    /\ pc = "embedding"
    /\ pending = {}
    /\ pc' = "saving"
    /\ UNCHANGED <<configVars, store, pending, failed, index, file, saved, starts>>

\* The cache is written, and the server goes on to serve.
Save ==
    /\ pc = "saving"
    /\ file' = [model |-> model, intact |-> TRUE, chunks |-> NextCache]
    /\ saved' = {[chunk |-> docs.chunks[i], model |-> model] : i \in Embedded}
    /\ index' = [status |-> Status, mode |-> Mode]
    /\ pc' = "serving"
    /\ UNCHANGED <<configVars, store, pending, failed, starts>>

Broken == [file EXCEPT !.intact = FALSE]

\* The file cannot be opened, or not written to its end: initRAG throws.
SaveFails ==
    /\ pc = "saving"
    /\ file' \in {file, Broken}
    /\ saved' = {}
    /\ Degrade
    /\ UNCHANGED <<configVars, failed, starts>>

\* The process stops or dies, in the middle of writing the cache for one.
Stop ==
    /\ pc # "down"
    /\ pc' = "down"
    /\ file' \in (IF pc = "saving" THEN {file, Broken} ELSE {file})
    /\ saved' = IF pc = "saving" THEN {} ELSE saved
    /\ store' = <<>>
    /\ pending' = {}
    /\ UNCHANGED <<configVars, failed, index, starts>>

Next == \/ Start \/ LoadFails \/ LoadCache \/ EmbedBatch \/ BatchFails
        \/ BeginSave \/ Save \/ SaveFails \/ Stop

Spec == Init /\ [][Next]_vars
-----------------------------------------------------------------------------
\* Embedding e is that of chunk c, by model m if it is known by which.
IsOf(e, c, m) == e.chunk = c /\ (e.model = m \/ <<c, e>> \in Earlier)

\* An embedding is always the one of its own chunk, in the index and in the
\* file: not of a neighbour in its batch, not what a broken file left over.
\* It is by the model in use, or the one the file names, unless it goes back
\* to the cache that named none: no other is ever taken over from a run with
\* another model.
EmbeddingsAreTrue ==
    /\ \A i \in Embedded : \A e \in store[i] : IsOf(e, docs.chunks[i], model)
    /\ file.intact => \A e \in file.chunks : IsOf(e[2], e[1], file.model)

\* What is reused has the same content and the same model
\* (README.md:139, docs/rag-retrieval-guide.txt:11).
OnlySameModelIsReused == \A i \in Embedded : \A e \in store[i] : e.model = model

\* What /health says of the index is so: "ready" hides no chunk without its
\* embedding; "hybrid" and "hybrid_partial" say whether all have one, and that
\* questions can be embedded; "keyword" gives up no embedding that could be
\* used; "unavailable" means that answers are given without any context.
IndexStateIsTrue ==
    pc = "serving" =>
        /\ index.status = "ready" => Embedded = 1..Len(store)
        /\ index.mode = "hybrid" => openai /\ store # <<>> /\ Embedded = 1..Len(store)
        /\ index.mode = "hybrid_partial" =>
                openai /\ Embedded # {} /\ Embedded # 1..Len(store)
        /\ index.mode = "keyword" => ~openai \/ Embedded = {}
        /\ index.mode = "unavailable" => store = <<>>

\* "unavailable" is the state in which the documents themselves could not be
\* loaded (docs/toy-chat-operations.txt:16, README.md:148): no server that has
\* loaded some reports it.
UnavailableMeansNotLoaded ==
    [][(pc \in {"embedding", "saving"} /\ docs.count > 0 /\ pc' = "serving")
            => (index'.mode # "unavailable")]_vars

\* A chunk that was saved with the model in use is not sent for embedding
\* again (docs/toy-chat-architecture.txt:21), after any number of restarts,
\* failed batches and edits of other chunks since.
SavedIsReused ==
    [][EmbedBatch =>
        \A i \in pending \ pending' :
            [chunk |-> docs.chunks[i], model |-> model] \notin saved]_vars
=============================================================================
