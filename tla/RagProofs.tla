------------------------------ MODULE RagProofs ------------------------------
(***************************************************************************)
(* Proofs about RagIndex, for any documents, models, sizes of a batch and  *)
(* number of starts: whose embedding each chunk has, what /health says of  *)
(* the index, and what is not embedded again.  Then about Retrieval, for   *)
(* any similarities and limits: the best chunks are listed.                *)
(***************************************************************************)
EXTENDS Retrieval, FiniteSetTheorems, TLAPS

EmbeddingOf(i) == [chunk |-> docs.chunks[i], model |-> model]

IndexTypeOK ==
    /\ pc \in {"down", "loading", "embedding", "saving", "serving"}
    /\ docs \in Documents /\ model \in Models
    /\ openai \in BOOLEAN /\ failed \in BOOLEAN
    /\ store \in Seq(SUBSET Embedding)
    /\ pending \subseteq 1..Len(store)
    /\ file \in Cache
    /\ saved \subseteq Embedding

\* A chunk has only embeddings of its own.
StoreIsTrue ==
    \A i \in 1..Len(store) : \A e \in store[i] : IsOf(e, docs.chunks[i], model)

FileIsTrue == file.intact => \A e \in file.chunks : IsOf(e[2], e[1], file.model)

\* What was saved last is in the file.
SavedIsInFile ==
    \A e \in saved : /\ file.intact /\ file.model = e.model
                     /\ \E f \in file.chunks : f[1] = e.chunk

\* While the chunks are embedded, those that miss have been saved by no model
\* in use, and no other is without an embedding unless a batch has failed.
PendingIsTrue ==
    /\ pc \in {"embedding", "saving"} =>
        /\ Len(store) = Len(docs.chunks)
        /\ openai /\ ~failed => \A i \in 1..Len(store) : store[i] = {} => i \in pending
    /\ pc = "embedding" => \A i \in pending : EmbeddingOf(i) \notin saved
    /\ pc = "saving" => pending = {}
    /\ pc \in {"down", "loading"} => store = <<>>

RagInv ==
    /\ IndexTypeOK
    /\ StoreIsTrue
    /\ FileIsTrue
    /\ SavedIsInFile
    /\ PendingIsTrue
    /\ IndexStateIsTrue

\* Nothing is embedded, cached or saved.
THEOREM RagInvInitially == Init => RagInv
<1> SUFFICES ASSUME Init PROVE RagInv
  OBVIOUS
<1>1. IndexTypeOK
  <2>1. EmptyCache \in Cache /\ EarlierCache \in Cache
    BY RagAssumption DEF RagAssumption, EmptyCache, EarlierCache, Cache
  <2>2. <<>> \in Seq(SUBSET Embedding)
    OBVIOUS
  <2> QED
    BY <2>1, <2>2 DEF Init, IndexTypeOK
<1>2. FileIsTrue
  <2>1. ASSUME NEW e \in Earlier PROVE e[2].chunk = e[1] /\ e = <<e[1], e[2]>>
    BY RagAssumption DEF RagAssumption
  <2>2. file = EmptyCache \/ file = EarlierCache
    BY DEF Init
  <2>3. ~EmptyCache.intact /\ EarlierCache.chunks = Earlier
    BY DEF EmptyCache, EarlierCache
  <2> QED
    BY <2>1, <2>2, <2>3 DEF FileIsTrue, IsOf
<1> QED
  BY <1>1, <1>2 DEF Init, RagInv, StoreIsTrue, SavedIsInFile, PendingIsTrue, IndexStateIsTrue

\* What the cache has for a chunk is its own embedding, by the model in use or
\* by one that the cache does not name.
LEMMA ReusableIsTrue ==
    ASSUME RagInv, NEW i \in 1..Len(docs.chunks)
    PROVE  /\ \A e \in Reusable(docs.chunks[i]) : IsOf(e, docs.chunks[i], model)
           /\ Reusable(docs.chunks[i]) \in SUBSET Embedding
           /\ Reusable(docs.chunks[i]) = {} => EmbeddingOf(i) \notin saved
<1> DEFINE c == docs.chunks[i]
<1>1. file \in Cache
  BY DEF RagInv, IndexTypeOK
<1>2. ASSUME NEW e \in Reusable(c) PROVE IsOf(e, c, model) /\ e \in Embedding
  <2>1. PICK f \in file.chunks : file.intact /\ ~Mismatch /\ f[1] = c /\ e = f[2]
    BY DEF Reusable
  <2>2. f \in Chunks \X Embedding
    BY <1>1, <2>1 DEF Cache
  <2>3. IsOf(e, c, file.model)
    BY <2>1 DEF RagInv, FileIsTrue
  <2>4. file.model \in {NoModel, model}
    BY <2>1 DEF Mismatch
  <2>5. e.model # NoModel
    BY <2>1, <2>2, RagAssumption DEF RagAssumption, Embedding
  <2> QED
    BY <2>1, <2>2, <2>3, <2>4, <2>5 DEF IsOf
<1>3. ASSUME EmbeddingOf(i) \in saved PROVE Reusable(c) # {}
  <2>1. PICK f \in file.chunks : file.intact /\ file.model = model /\ f[1] = c
    BY <1>3 DEF RagInv, SavedIsInFile, EmbeddingOf
  <2>2. f[2] \in Reusable(c)
    BY <2>1 DEF Reusable, Mismatch
  <2> QED
    BY <2>2
<1> QED
  BY <1>2, <1>3

\* The answers are put in the order of the batch, in whatever order they come.
LEMMA ByIndexRestores ==
    ASSUME NEW batch, NEW order \in Bijection(DOMAIN batch, DOMAIN batch), NEW k \in DOMAIN batch
    PROVE  ByIndex([n \in DOMAIN batch |->
                [index |-> order[n], chunk |-> docs.chunks[batch[order[n]]]]])[k] = docs.chunks[batch[k]]
<1> DEFINE D == DOMAIN batch
           r == [n \in D |-> [index |-> order[n], chunk |-> docs.chunks[batch[order[n]]]]]
<1>1. PICK m \in D : order[m] = k
  BY DEF Bijection, Surjection
<1>2. \A n \in D : r[n].index = order[n] /\ r[n].chunk = docs.chunks[batch[order[n]]]
  OBVIOUS
<1>3. DOMAIN r = D
  OBVIOUS
<1>4. PICK n \in D : order[n] = k /\ n = CHOOSE j \in D : r[j].index = k
  <2>1. \E j \in D : r[j].index = k
    BY <1>1, <1>2
  <2> HIDE DEF r
  <2> QED
    BY <1>2, <2>1
<1>5. ByIndex(r)[k] = r[n].chunk
  <2>1. k \in DOMAIN r
    BY <1>3
  <2> HIDE DEF r
  <2> QED
    BY <1>3, <1>4, <2>1 DEF ByIndex
<1> QED
  BY <1>2, <1>4, <1>5

\* A batch gives its chunks their own embeddings and leaves the others alone.
LEMMA BatchIsTrue ==
    ASSUME RagInv, EmbedBatch
    PROVE  /\ Len(store') = Len(store) /\ store' \in Seq(SUBSET Embedding)
           /\ pending' \subseteq pending
           /\ \A i \in 1..Len(store) :
                store'[i] = IF i \in pending \ pending' THEN {EmbeddingOf(i)} ELSE store[i]
<1>1. PICK batch \in Batches : \E order \in Bijection(DOMAIN batch, DOMAIN batch) :
        LET response == [n \in DOMAIN batch |->
                [index |-> order[n], chunk |-> docs.chunks[batch[order[n]]]]]
        IN  /\ store' = [i \in DOMAIN store |->
                IF i \in Range(batch)
                THEN {[chunk |-> ByIndex(response)[k], model |-> model] :
                            k \in {n \in DOMAIN batch : batch[n] = i}}
                ELSE store[i]]
            /\ pending' = pending \ Range(batch)
  BY DEF EmbedBatch
<1>2. PICK order \in Bijection(DOMAIN batch, DOMAIN batch) :
        /\ store' = [i \in DOMAIN store |->
              IF i \in Range(batch)
              THEN {[chunk |-> ByIndex([n \in DOMAIN batch |->
                        [index |-> order[n], chunk |-> docs.chunks[batch[order[n]]]]])[k],
                     model |-> model] : k \in {n \in DOMAIN batch : batch[n] = i}}
              ELSE store[i]]
        /\ pending' = pending \ Range(batch)
  BY <1>1
<1> DEFINE answer(k) == ByIndex([n \in DOMAIN batch |->
                [index |-> order[n], chunk |-> docs.chunks[batch[order[n]]]]])[k]
           given(i) == {[chunk |-> answer(k), model |-> model] :
                            k \in {n \in DOMAIN batch : batch[n] = i}}
<1>3. store' = [i \in DOMAIN store |-> IF i \in Range(batch) THEN given(i) ELSE store[i]]
  BY <1>2
<1>4. \A k \in DOMAIN batch : answer(k) = docs.chunks[batch[k]]
  BY ByIndexRestores
<1> HIDE DEF answer
<1>5. \A k \in DOMAIN batch : batch[k] \in pending
  BY DEF Batches
<1>6. /\ DOMAIN store = 1..Len(store) /\ Len(store) \in Nat
      /\ pending \subseteq 1..Len(store) /\ \A i \in 1..Len(store) : store[i] \in SUBSET Embedding
  BY DEF RagInv, IndexTypeOK
<1>7. \A i : i \in Range(batch) <=> i \in pending \ pending'
  BY <1>2, <1>5 DEF Range
<1>8. ASSUME NEW i \in Range(batch) PROVE given(i) = {EmbeddingOf(i)}
  <2>1. \A k \in DOMAIN batch : batch[k] = i =>
            [chunk |-> answer(k), model |-> model] = EmbeddingOf(i)
    BY <1>4 DEF EmbeddingOf
  <2>2. PICK k \in DOMAIN batch : batch[k] = i
    BY DEF Range
  <2> QED
    BY <2>1, <2>2
<1> HIDE DEF given
<1>9. \A i \in 1..Len(store) :
         store'[i] = IF i \in pending \ pending' THEN {EmbeddingOf(i)} ELSE store[i]
  BY <1>3, <1>6, <1>7, <1>8
<1>10. \A i \in 1..Len(docs.chunks) : EmbeddingOf(i) \in Embedding
  BY RagAssumption DEF RagInv, IndexTypeOK, RagAssumption, EmbeddingOf, Embedding
<1>11. Len(store) = Len(docs.chunks)
  BY DEF RagInv, PendingIsTrue, EmbedBatch
<1>12. ASSUME NEW i \in 1..Len(store) PROVE store'[i] \in SUBSET Embedding
  <2>1. EmbeddingOf(i) \in Embedding /\ store[i] \in SUBSET Embedding
    BY <1>6, <1>10, <1>11
  <2>2. store'[i] = {EmbeddingOf(i)} \/ store'[i] = store[i]
    BY <1>9
  <2> QED
    BY <2>1, <2>2
<1>13. DOMAIN store' = 1..Len(store) /\ store' = [i \in 1..Len(store) |-> store'[i]]
  BY <1>3, <1>6
<1>14. store' \in Seq(SUBSET Embedding) /\ Len(store') = Len(store)
  BY <1>6, <1>12, <1>13
<1> QED
  BY <1>2, <1>9, <1>14

\* The invariant is inductive, whatever fails, stops or is found at a start.
THEOREM RagInvPreserved == RagInv /\ [Next]_vars => RagInv'
<1> SUFFICES ASSUME RagInv, [Next]_vars PROVE RagInv'
  OBVIOUS
<1> USE DEF RagInv
<1>1. CASE Start
  <2>1. IndexTypeOK'
    <3>1. <<>> \in Seq(SUBSET Embedding) /\ {} \subseteq 1..Len(<<>>)
      OBVIOUS
    <3> QED
      BY <1>1, <3>1 DEF Start, IndexTypeOK
  <2> QED
    BY <1>1, <2>1 DEF Start, StoreIsTrue, FileIsTrue, SavedIsInFile, PendingIsTrue, IndexStateIsTrue
<1>2. CASE LoadFails
  <2>1. IndexTypeOK'
    BY <1>2 DEF LoadFails, Degrade, configVars, IndexTypeOK
  <2> QED
    BY <1>2, <2>1 DEF LoadFails, Degrade, configVars, StoreIsTrue, FileIsTrue, SavedIsInFile,
       PendingIsTrue, IndexStateIsTrue
<1>3. CASE LoadCache
  <2> DEFINE reused == [i \in 1..Len(docs.chunks) |-> Reusable(docs.chunks[i])]
  <2>1. Len(docs.chunks) \in Nat
    BY RagAssumption DEF IndexTypeOK, RagAssumption
  <2>2. reused \in Seq(SUBSET Embedding) /\ Len(reused) = Len(docs.chunks)
    <3>1. \A i \in 1..Len(docs.chunks) : Reusable(docs.chunks[i]) \in SUBSET Embedding
      BY ReusableIsTrue
    <3> QED
      BY <2>1, <3>1
  <2>3. /\ store' = reused /\ pc' = "embedding" /\ UNCHANGED <<docs, model, openai, failed, file, saved>>
        /\ pending' = IF openai THEN {i \in 1..Len(docs.chunks) : reused[i] = {}} ELSE {}
    BY <1>3 DEF LoadCache, configVars
  <2>4. \A i \in 1..Len(docs.chunks) : reused[i] = Reusable(docs.chunks[i])
    OBVIOUS
  <2> HIDE DEF reused
  <2>5. IndexTypeOK'
    BY <2>1, <2>2, <2>3 DEF IndexTypeOK
  <2>6. StoreIsTrue'
    BY <2>2, <2>3, <2>4, ReusableIsTrue DEF StoreIsTrue
  <2>7. PendingIsTrue'
    BY <2>2, <2>3, <2>4, ReusableIsTrue DEF PendingIsTrue, EmbeddingOf
  <2> QED
    BY <2>3, <2>5, <2>6, <2>7 DEF FileIsTrue, SavedIsInFile, IndexStateIsTrue
<1>4. CASE EmbedBatch
  <2>1. UNCHANGED <<pc, docs, model, openai, failed, index, file, saved>> /\ pc = "embedding"
    BY <1>4 DEF EmbedBatch, configVars
  <2>2. IndexTypeOK'
    BY <1>4, <2>1, BatchIsTrue DEF IndexTypeOK
  <2>3. StoreIsTrue'
    <3>1. \A i : IsOf(EmbeddingOf(i), docs.chunks[i], model)
      BY DEF IsOf, EmbeddingOf
    <3>2. \A i \in 1..Len(store) : \A e \in store'[i] : IsOf(e, docs.chunks[i], model)
      BY <1>4, <3>1, BatchIsTrue DEF StoreIsTrue
    <3> QED
      BY <1>4, <2>1, <3>2, BatchIsTrue DEF StoreIsTrue
  <2>4. PendingIsTrue'
    BY <1>4, <2>1, BatchIsTrue DEF PendingIsTrue, EmbeddingOf
  <2> QED
    BY <2>1, <2>2, <2>3, <2>4 DEF FileIsTrue, SavedIsInFile, IndexStateIsTrue
<1>5. CASE BatchFails
  BY <1>5 DEF BatchFails, configVars, IndexTypeOK, StoreIsTrue, FileIsTrue, SavedIsInFile,
     PendingIsTrue, IndexStateIsTrue
<1>6. CASE BeginSave
  BY <1>6 DEF BeginSave, configVars, IndexTypeOK, StoreIsTrue, FileIsTrue, SavedIsInFile,
     PendingIsTrue, IndexStateIsTrue
<1>7. CASE Save
  <2>1. /\ UNCHANGED <<docs, model, openai, store, pending, failed>> /\ pc = "saving" /\ pc' = "serving"
        /\ file' = [model |-> model, intact |-> TRUE, chunks |-> NextCache]
        /\ saved' = {EmbeddingOf(i) : i \in Embedded}
        /\ index' = [status |-> Status, mode |-> Mode]
    BY <1>7 DEF Save, configVars, EmbeddingOf
  <2>2. /\ Len(store) = Len(docs.chunks) /\ Len(store) \in Nat
        /\ \A i \in 1..Len(store) : store[i] \subseteq Embedding
        /\ \A i \in 1..Len(store) : docs.chunks[i] \in Chunks
    BY <2>1, RagAssumption DEF IndexTypeOK, PendingIsTrue, RagAssumption
  <2>3. ASSUME NEW f \in NextCache PROVE f \in Chunks \X Embedding /\ IsOf(f[2], f[1], model)
    <3>1. PICK i \in 1..Len(store) : \E e \in store[i] : f = <<docs.chunks[i], e>>
      BY DEF NextCache
    <3>2. PICK e \in store[i] : f = <<docs.chunks[i], e>>
      BY <3>1
    <3> QED
      BY <2>2, <3>2 DEF StoreIsTrue
  <2>4. file' \in Cache
    BY <2>1, <2>3 DEF Cache, IndexTypeOK
  <2>5. FileIsTrue'
    BY <2>1, <2>3 DEF FileIsTrue
  <2>6. \A i \in Embedded : EmbeddingOf(i) \in Embedding
    BY <2>2 DEF Embedded, EmbeddingOf, Embedding, IndexTypeOK
  <2>7. saved' \subseteq Embedding
    BY <2>1, <2>6
  <2>8. SavedIsInFile'
    <3>1. ASSUME NEW i \in Embedded PROVE \E f \in NextCache : f[1] = docs.chunks[i]
      <4>1. PICK e \in store[i] : i \in 1..Len(store)
        BY DEF Embedded
      <4>2. <<docs.chunks[i], e>> \in NextCache
        BY <4>1 DEF NextCache
      <4> QED
        BY <4>2
    <3> QED
      BY <2>1, <3>1 DEF SavedIsInFile, EmbeddingOf
  <2>9. IndexTypeOK'
    BY <2>1, <2>4, <2>7 DEF IndexTypeOK
  <2>10. Embedded' = Embedded /\ StoreIsTrue' /\ PendingIsTrue'
    BY <2>1 DEF Embedded, StoreIsTrue, EmbeddingOf, PendingIsTrue
  <2>11. openai /\ ~failed => Embedded = 1..Len(store)
    BY <2>1 DEF PendingIsTrue, Embedded
  <2>12. IndexStateIsTrue'
    <3>1. index'.status = "ready" => Embedded = 1..Len(store)
      BY <2>1, <2>11 DEF Status
    <3>2. /\ index'.mode = "hybrid" => openai /\ store # <<>> /\ Embedded = 1..Len(store)
          /\ index'.mode = "hybrid_partial" =>
                openai /\ Embedded # {} /\ Embedded # 1..Len(store)
          /\ index'.mode = "keyword" => ~openai \/ Embedded = {}
          /\ index'.mode # "unavailable"
      <4>1. Embedded # {} => store # <<>>
        BY DEF Embedded
      <4> QED
        BY <2>1, <4>1 DEF Mode
    <3> QED
      BY <2>1, <2>10, <3>1, <3>2 DEF IndexStateIsTrue
  <2> QED
    BY <2>5, <2>8, <2>9, <2>10, <2>12
<1>8. Broken \in Cache /\ ~Broken.intact
  BY DEF Broken, IndexTypeOK, Cache
<1>9. CASE SaveFails
  <2>1. IndexTypeOK' /\ file' \in {file, Broken}
    BY <1>8, <1>9 DEF SaveFails, Degrade, configVars, IndexTypeOK
  <2>2. FileIsTrue'
    BY <1>8, <2>1 DEF FileIsTrue
  <2> QED
    BY <1>9, <2>1, <2>2 DEF SaveFails, Degrade, configVars, StoreIsTrue, SavedIsInFile,
       PendingIsTrue, IndexStateIsTrue
<1>10. CASE Stop
  <2>1. IndexTypeOK' /\ file' \in {file, Broken} /\ (saved' = {} \/ (saved' = saved /\ file' = file))
    BY <1>8, <1>10 DEF Stop, configVars, IndexTypeOK
  <2>2. FileIsTrue' /\ SavedIsInFile'
    BY <1>8, <2>1 DEF FileIsTrue, SavedIsInFile
  <2> QED
    BY <1>10, <2>1, <2>2 DEF Stop, configVars, StoreIsTrue, PendingIsTrue, IndexStateIsTrue
<1>11. CASE UNCHANGED vars
  <2>1. IndexTypeOK' /\ FileIsTrue' /\ SavedIsInFile' /\ PendingIsTrue'
    BY <1>11 DEF vars, IndexTypeOK, FileIsTrue, SavedIsInFile, PendingIsTrue, EmbeddingOf
  <2>2. StoreIsTrue' /\ IndexStateIsTrue'
    BY <1>11 DEF vars, StoreIsTrue, IndexStateIsTrue, Embedded
  <2> QED
    BY <2>1, <2>2
<1> QED
  BY <1>1, <1>2, <1>3, <1>4, <1>5, <1>6, <1>7, <1>9, <1>10, <1>11 DEF Next

\* So it holds in every reachable state.
THEOREM RagInvariant == Spec => []RagInv
BY RagInvInitially, RagInvPreserved, PTL DEF Spec

\* EmbeddingsAreTrue: an embedding is that of its own chunk, in the index and
\* in a file that is intact; by the model in use, or the one the file names,
\* unless it was in the cache that named none.
THEOREM EmbeddingsStayTrue == Spec => []EmbeddingsAreTrue
<1>1. RagInv => EmbeddingsAreTrue
  BY DEF RagInv, StoreIsTrue, FileIsTrue, EmbeddingsAreTrue, Embedded
<1> QED
  BY RagInvariant, <1>1, PTL

\* IndexStateIsTrue: what /health says of the index is so.
THEOREM IndexStateStaysTrue == Spec => []IndexStateIsTrue
<1>1. RagInv => IndexStateIsTrue
  BY DEF RagInv
<1> QED
  BY RagInvariant, <1>1, PTL

\* SavedIsReused: no batch holds a chunk that was saved with the model in use,
\* over any number of starts, failures and edits of other chunks.
THEOREM NothingSavedIsSentAgain == Spec => SavedIsReused
<1>1. RagInv /\ [Next]_vars =>
        [EmbedBatch => \A i \in pending \ pending' :
            [chunk |-> docs.chunks[i], model |-> model] \notin saved]_vars
  BY DEF RagInv, PendingIsTrue, EmbeddingOf, EmbedBatch
<1> QED
  BY RagInvariant, <1>1, PTL DEF Spec, SavedIsReused

-----------------------------------------------------------------------------
(***************************************************************************)
(* Ranks in a finite set S: R is a strict total order on it, given as a    *)
(* set of pairs.  Each element has a rank of its own, the number of those  *)
(* before it, and every rank below the size of S is taken; so a list by    *)
(* rank holds every element once, and there are n elements of a rank below *)
(* n unless S has fewer.                                                   *)
(***************************************************************************)
IsOrder(R, S) ==
    /\ \A i \in S : <<i, i>> \notin R
    /\ \A i, j, k \in S : <<i, j>> \in R /\ <<j, k>> \in R => <<i, k>> \in R
    /\ \A i, j \in S : i # j => <<i, j>> \in R \/ <<j, i>> \in R

Before(R, S, i) == {j \in S : <<j, i>> \in R}

Top(R, S, n) == {i \in S : Cardinality(Before(R, S, i)) < n}

\* A rank is a number below the size of the set, greater for what comes later.
LEMMA RankGrows ==
    ASSUME NEW S, IsFiniteSet(S), NEW R, IsOrder(R, S)
    PROVE  /\ Cardinality(S) \in Nat
           /\ \A i \in S : Cardinality(Before(R, S, i)) \in 0..(Cardinality(S) - 1)
           /\ \A i, j \in S : <<i, j>> \in R =>
                Cardinality(Before(R, S, i)) < Cardinality(Before(R, S, j))
<1>1. ASSUME NEW T \in SUBSET S
      PROVE  /\ IsFiniteSet(T) /\ Cardinality(T) \in Nat
             /\ Cardinality(T) <= Cardinality(S)
             /\ Cardinality(T) = Cardinality(S) => T = S
  BY FS_Subset, FS_CardinalityType
<1>2. Cardinality(S) \in Nat
  BY <1>1
<1>3. ASSUME NEW i \in S PROVE Cardinality(Before(R, S, i)) \in 0..(Cardinality(S) - 1)
  <2>1. Before(R, S, i) \in SUBSET S /\ Before(R, S, i) # S
    BY <1>3 DEF Before, IsOrder
  <2> QED  BY <1>1, <1>2, <2>1
<1>4. ASSUME NEW i \in S, NEW j \in S, <<i, j>> \in R
      PROVE  Cardinality(Before(R, S, i)) < Cardinality(Before(R, S, j))
  <2>1. Before(R, S, i) \subseteq Before(R, S, j) /\ Before(R, S, i) # Before(R, S, j)
    BY <1>4 DEF Before, IsOrder
  <2>2. Before(R, S, j) \in SUBSET S /\ Before(R, S, i) \in SUBSET S
    BY DEF Before
  <2>3. Cardinality(Before(R, S, i)) <= Cardinality(Before(R, S, j))
        /\ (Cardinality(Before(R, S, j)) = Cardinality(Before(R, S, i))
                => Before(R, S, j) = Before(R, S, i))
    BY <1>1, <2>1, <2>2, FS_Subset
  <2>4. Cardinality(Before(R, S, i)) \in Nat /\ Cardinality(Before(R, S, j)) \in Nat
    BY <1>1, <2>2
  <2> QED  BY <2>1, <2>3, <2>4
<1> QED  BY <1>2, <1>3, <1>4

\* Every rank is that of exactly one element.
LEMMA RankIsTaken ==
    ASSUME NEW S, IsFiniteSet(S), NEW R, IsOrder(R, S)
    PROVE  /\ \A k \in 1..Cardinality(S) : \E i \in S : Cardinality(Before(R, S, i)) = k - 1
           /\ \A i, j \in S : Cardinality(Before(R, S, i)) = Cardinality(Before(R, S, j)) => i = j
<1>1. Cardinality(S) \in Nat
  BY RankGrows
<1>2. \A i \in S : Cardinality(Before(R, S, i)) \in 0..(Cardinality(S) - 1)
  BY RankGrows
<1>3. ASSUME NEW i \in S, NEW j \in S, i # j
      PROVE  Cardinality(Before(R, S, i)) # Cardinality(Before(R, S, j))
  <2>1. <<i, j>> \in R \/ <<j, i>> \in R
    BY <1>3 DEF IsOrder
  <2>2. \/ Cardinality(Before(R, S, i)) < Cardinality(Before(R, S, j))
        \/ Cardinality(Before(R, S, j)) < Cardinality(Before(R, S, i))
    BY <2>1, RankGrows
  <2> QED  BY <1>2, <2>2
<1>4. PICK rank : rank = [i \in S |-> Cardinality(Before(R, S, i))]
  OBVIOUS
<1>5. rank \in [S -> 0..(Cardinality(S) - 1)] /\ \A i \in S : rank[i] = Cardinality(Before(R, S, i))
  BY <1>2, <1>4
<1>6. rank \in Injection(S, 0..(Cardinality(S) - 1))
  BY <1>3, <1>5 DEF Injection, IsInjective
<1>7. IsFiniteSet(0..(Cardinality(S) - 1)) /\ Cardinality(0..(Cardinality(S) - 1)) = Cardinality(S)
  <2>1. PICK last \in Int : last = Cardinality(S) - 1
    BY <1>1
  <2>2. IsFiniteSet(0..last) /\ Cardinality(0..last) = IF 0 > last THEN 0 ELSE last - 0 + 1
    BY FS_Interval
  <2> QED  BY <1>1, <2>1, <2>2
<1>8. rank \in Surjection(S, 0..(Cardinality(S) - 1))
  BY <1>6, <1>7, FS_Injection
<1>9. \A r \in 0..(Cardinality(S) - 1) : \E i \in S : rank[i] = r
  BY <1>8 DEF Surjection
<1>10. ASSUME NEW k \in 1..Cardinality(S) PROVE \E i \in S : Cardinality(Before(R, S, i)) = k - 1
  BY <1>1, <1>5, <1>9
<1> QED  BY <1>3, <1>10

\* A list by rank holds every element at the place of its rank.
LEMMA ByRank ==
    ASSUME NEW S, IsFiniteSet(S), NEW R, IsOrder(R, S), NEW list,
           list = [k \in 1..Cardinality(S) |->
                     CHOOSE i \in S : Cardinality(Before(R, S, i)) = k - 1]
    PROVE  /\ list \in Bijection(1..Cardinality(S), S)
           /\ \A k \in 1..Cardinality(S) : Cardinality(Before(R, S, list[k])) = k - 1
<1>1. Cardinality(S) \in Nat
  BY RankGrows
<1>2. ASSUME NEW k \in 1..Cardinality(S)
      PROVE  list[k] \in S /\ Cardinality(Before(R, S, list[k])) = k - 1
  <2>1. \E i \in S : Cardinality(Before(R, S, i)) = k - 1
    BY RankIsTaken
  <2>2. list[k] = CHOOSE i \in S : Cardinality(Before(R, S, i)) = k - 1
    OBVIOUS
  <2> QED  BY <2>1, <2>2
<1>3. list \in [1..Cardinality(S) -> S]
  BY <1>2
<1>4. \A j, k \in 1..Cardinality(S) : list[j] = list[k] => j = k
  BY <1>1, <1>2
<1>5. ASSUME NEW i \in S PROVE \E k \in 1..Cardinality(S) : list[k] = i
  <2>1. Cardinality(Before(R, S, i)) \in 0..(Cardinality(S) - 1)
    BY RankGrows
  <2>2. PICK k \in 1..Cardinality(S) : k - 1 = Cardinality(Before(R, S, i))
    <3>1. PICK r \in 0..(Cardinality(S) - 1) : r = Cardinality(Before(R, S, i))
      BY <2>1
    <3>2. r + 1 \in 1..Cardinality(S) /\ (r + 1) - 1 = r
      BY <1>1
    <3> QED  BY <3>1, <3>2
  <2>3. Cardinality(Before(R, S, list[k])) = Cardinality(Before(R, S, i)) /\ list[k] \in S
    BY <1>2, <2>2
  <2> QED  BY <2>3, RankIsTaken
<1> QED  BY <1>2, <1>3, <1>4, <1>5 DEF Bijection, Injection, IsInjective, Surjection

\* The first n elements are n, unless there are fewer; they come before all
\* the others.
LEMMA TopOfAll ==
    ASSUME NEW S, IsFiniteSet(S), NEW R, IsOrder(R, S), NEW n \in Nat
    PROVE  /\ IsFiniteSet(Top(R, S, n)) /\ Cardinality(Top(R, S, n)) <= n
           /\ \A i \in S : n <= Cardinality(Before(R, S, i)) => Cardinality(Top(R, S, n)) = n
           /\ \A i \in S \ Top(R, S, n), j \in Top(R, S, n) : <<j, i>> \in R
<1>1. IsFiniteSet(Top(R, S, n)) /\ Cardinality(Top(R, S, n)) \in Nat
  <2>1. Top(R, S, n) \in SUBSET S
    BY DEF Top
  <2> QED  BY <2>1, FS_Subset, FS_CardinalityType
<1>2. Cardinality(S) \in Nat /\ \A i \in S : Cardinality(Before(R, S, i)) \in 0..(Cardinality(S) - 1)
  BY RankGrows
<1>3. PICK rank : rank = [i \in Top(R, S, n) |-> Cardinality(Before(R, S, i))]
  OBVIOUS
<1>4. rank \in [Top(R, S, n) -> 0..(n - 1)] /\
      \A i \in Top(R, S, n) : i \in S /\ rank[i] = Cardinality(Before(R, S, i))
  BY <1>2, <1>3 DEF Top
<1>5. rank \in Injection(Top(R, S, n), 0..(n - 1))
  BY <1>4, RankIsTaken DEF Injection, IsInjective
<1>6. IsFiniteSet(0..(n - 1)) /\ Cardinality(0..(n - 1)) = n
  BY FS_Interval
<1>7. Cardinality(Top(R, S, n)) <= n
  BY <1>5, <1>6, FS_Injection
<1>8. ASSUME NEW i \in S, n <= Cardinality(Before(R, S, i))
      PROVE  Cardinality(Top(R, S, n)) = n
  <2>1. ASSUME NEW r \in 0..(n - 1) PROVE \E j \in Top(R, S, n) : rank[j] = r
    <3>1. PICK j \in S : Cardinality(Before(R, S, j)) = (r + 1) - 1
      BY <1>2, <1>8, RankIsTaken
    <3>2. j \in Top(R, S, n)
      BY <3>1 DEF Top
    <3> QED  BY <1>4, <3>1, <3>2
  <2>2. rank \in Surjection(Top(R, S, n), 0..(n - 1))
    BY <1>4, <2>1 DEF Surjection
  <2> QED  BY <1>5, <1>6, <2>2, FS_Injection
<1>9. ASSUME NEW i \in S \ Top(R, S, n), NEW j \in Top(R, S, n) PROVE <<j, i>> \in R
  <2>1. j \in S /\ ~(Cardinality(Before(R, S, i)) < n) /\ Cardinality(Before(R, S, j)) < n
    BY DEF Top
  <2>2. i # j /\ ~(Cardinality(Before(R, S, i)) < Cardinality(Before(R, S, j)))
    BY <1>2, <2>1
  <2> QED  BY <2>1, <2>2, RankGrows DEF IsOrder
<1> QED  BY <1>1, <1>7, <1>8, <1>9

-----------------------------------------------------------------------------
(***************************************************************************)
(* Retrieval.  Nothing in it disturbs the index.  The chunks are ordered   *)
(* by their scores and their places in the store; what is found is always  *)
(* what Rank lists for the index as it is, and BestAreListed follows from  *)
(* the ranks: in a document by counting its own chunks, in the list by     *)
(* counting those that were spread.                                        *)
(***************************************************************************)
\* Every step of Retrieval is a step of the index, or leaves it alone.
THEOREM RetrievalKeepsIndex == RetrievalSpec => Spec
<1>1. RetrievalInit => Init
  BY DEF RetrievalInit
<1>2. [RetrievalNext]_retrievalVars => [Next]_vars
  BY DEF RetrievalNext, Retrieve, RetrievalFails, retrievalVars
<1> QED  BY <1>1, <1>2, PTL DEF RetrievalSpec, Spec

\* The store has a place for every chunk of the documents, or none at all.
StoreFits ==
    /\ Len(store) = Len(docs.chunks) \/ store = <<>>
    /\ pc = "loading" => store = <<>>

\* What was found last is the ranking of the store as it is.
FoundIsRank ==
    \A q \in found.question : q \in Questions /\ found.list = Rank(q, found.embedding)

RetrievalInv == RagInv /\ StoreFits /\ FoundIsRank

\* Before the first question nothing has been found.
THEOREM RetrievalInvInitially == RetrievalInit => RetrievalInv
BY RagInvInitially DEF RetrievalInit, RetrievalInv, StoreFits, FoundIsRank, Nothing, Init

\* The store changes its length only when the documents are loaded, and what
\* was found is forgotten with every change of the index.
THEOREM RetrievalInvPreserved ==
    RetrievalInv /\ [RetrievalNext]_retrievalVars => RetrievalInv'
<1> SUFFICES ASSUME RetrievalInv, [RetrievalNext]_retrievalVars PROVE RetrievalInv'
  OBVIOUS
<1>1. [Next]_vars
  BY DEF RetrievalNext, Retrieve, RetrievalFails, retrievalVars
<1>2. RagInv'
  BY <1>1, RagInvPreserved DEF RetrievalInv
<1>3. StoreFits'
  <2>1. RagInv /\ StoreFits
    BY DEF RetrievalInv
  <2>2. CASE EmbedBatch
    BY <2>1, <2>2, BatchIsTrue DEF StoreFits, EmbedBatch, configVars
  <2>3. CASE LoadCache
    BY <2>1, <2>3 DEF LoadCache, StoreFits, configVars, RagInv, IndexTypeOK, Reusable
  <2>4. CASE Start
    BY <2>1, <2>4 DEF Start, StoreFits
  <2>5. CASE LoadFails \/ SaveFails
    BY <2>1, <2>5 DEF LoadFails, SaveFails, Degrade, StoreFits
  <2>6. CASE BatchFails \/ BeginSave \/ Save
    BY <2>1, <2>6 DEF BatchFails, BeginSave, Save, StoreFits, configVars
  <2>7. CASE Stop
    BY <2>1, <2>7 DEF Stop, StoreFits
  <2>8. CASE UNCHANGED vars
    BY <2>1, <2>8 DEF vars, StoreFits
  <2> QED  BY <1>1, <2>2, <2>3, <2>4, <2>5, <2>6, <2>7, <2>8 DEF Next
<1>4. FoundIsRank'
  <2>1. CASE Next /\ found' = Nothing
    BY <2>1 DEF FoundIsRank, Nothing
  <2>2. CASE RetrievalFails
    BY <2>2 DEF RetrievalFails, FoundIsRank, Nothing
  <2>3. ASSUME UNCHANGED vars
        PROVE  \A q, e : Rank(q, e)' = Rank(q, e)
    BY <2>3 DEF vars, Rank, Sorted, First, Spread, Relevant, Ahead, Score, StrategyOf, EmbeddingAt
  <2>4. CASE Retrieve
    <3>1. PICK q \in Questions : \E e, strategy, reason :
             found' = [question |-> {q}, embedding |-> e, list |-> Rank(q, e),
                       strategy |-> strategy, reason |-> reason]
      BY <2>4, Zenon DEF Retrieve
    <3>2. PICK e, strategy, reason :
             found' = [question |-> {q}, embedding |-> e, list |-> Rank(q, e),
                       strategy |-> strategy, reason |-> reason]
      BY <3>1
    <3>3. found'.question = {q} /\ found'.embedding = e /\ found'.list = Rank(q, e)
      BY <3>2
    <3>4. UNCHANGED vars
      BY <2>4 DEF Retrieve
    <3> QED  BY <2>3, <3>3, <3>4 DEF FoundIsRank
  <2>5. CASE UNCHANGED retrievalVars
    BY <2>3, <2>5 DEF retrievalVars, FoundIsRank, RetrievalInv
  <2> QED  BY <2>1, <2>2, <2>4, <2>5 DEF RetrievalNext
<1> QED  BY <1>2, <1>3, <1>4 DEF RetrievalInv

\* The chunks in the order of their scores, equal ones by their places.
ByScore(q, e) == {p \in (1..Len(store)) \X (1..Len(store)) : p[1] \in Ahead(DOMAIN store, q, e, p[2])}

\* A score is a number.
LEMMA ScoresAreNumbers ==
    ASSUME RetrievalInv, NEW q \in Questions, NEW e, NEW i \in DOMAIN store
    PROVE  Score(q, i, e) \in Nat
<1>1. docs.chunks[i] \in Chunks
  <2>1. store \in Seq(SUBSET Embedding) /\ docs \in Documents /\ StoreFits
    BY DEF RetrievalInv, RagInv, IndexTypeOK
  <2>2. docs.chunks \in Seq(Chunks)
    BY <2>1, RagAssumption DEF RagAssumption
  <2>3. DOMAIN store = 1..Len(store) /\ DOMAIN docs.chunks = 1..Len(docs.chunks)
    BY <2>1, <2>2
  <2>4. Len(store) = Len(docs.chunks)
    BY <2>1, <2>3 DEF StoreFits
  <2> QED  BY <2>2, <2>3, <2>4
<1>2. PICK c \in Chunks : c = docs.chunks[i]
  BY <1>1
<1>3. Lexical[<<q, c>>] \in 0..100
  <2>1. Lexical \in [Questions \X Chunks -> 0..100]
    BY RetrievalAssumption, Zenon DEF RetrievalAssumption
  <2>2. PICK pair \in Questions \X Chunks : pair = <<q, c>>
    OBVIOUS
  <2>3. Lexical[pair] \in 0..100
    BY <2>1
  <2> QED  BY <2>2, <2>3
<1>4. PICK l \in 0..100 : l = Lexical[<<q, c>>]
  BY <1>3
<1>5. CASE store[i] # {}
  <2>1. EmbeddingAt(i) \in store[i]
    BY <1>5 DEF EmbeddingAt
  <2>2. EmbeddingAt(i) \in Embedding /\ model \in Models
    BY <2>1 DEF RetrievalInv, RagInv, IndexTypeOK
  <2>3. PICK triple \in Questions \X Embedding \X Models : triple = <<q, EmbeddingAt(i), model>>
    BY <2>2
  <2>4. Semantic \in [Questions \X Embedding \X Models -> 0..100]
    BY RetrievalAssumption, Zenon DEF RetrievalAssumption
  <2>5. PICK s \in 0..100 : s = Semantic[<<q, EmbeddingAt(i), model>>]
    BY <2>3, <2>4
  <2>6. Score(q, i, e) \in {82 * s + 18 * l, 100 * l}
    BY <1>2, <1>4, <2>5, Zenon DEF Score
  <2> QED  BY <2>6
<1>6. CASE store[i] = {}
  <2>1. Score(q, i, e) = 100 * l
    BY <1>2, <1>4, <1>6 DEF Score, StrategyOf
  <2> QED  BY <2>1
<1> QED  BY <1>5, <1>6

\* The order is one on any of the chunks, and Ahead is what is before.
LEMMA ScoresOrder ==
    ASSUME RetrievalInv, NEW q \in Questions, NEW e, NEW S \in SUBSET DOMAIN store
    PROVE  /\ IsFiniteSet(S) /\ IsOrder(ByScore(q, e), S)
           /\ \A i \in S : Ahead(S, q, e, i) = Before(ByScore(q, e), S, i)
           /\ \A i, j \in S : <<i, j>> \in ByScore(q, e) => Score(q, i, e) >= Score(q, j, e)
<1>1. DOMAIN store = 1..Len(store) /\ Len(store) \in Nat
  BY DEF RetrievalInv, RagInv, IndexTypeOK
<1>2. IsFiniteSet(S)
  <2>1. IsFiniteSet(DOMAIN store)
    BY <1>1, FS_Interval
  <2> QED  BY <2>1, FS_Subset
<1>3. PICK score : score = [i \in DOMAIN store |-> Score(q, i, e)]
  OBVIOUS
<1>4. \A i \in DOMAIN store : score[i] \in Nat /\ score[i] = Score(q, i, e)
  BY <1>3, ScoresAreNumbers
<1>5. \A i, j \in DOMAIN store :
        <<i, j>> \in ByScore(q, e) <=> score[i] > score[j] \/ (score[i] = score[j] /\ i < j)
  BY <1>4 DEF ByScore, Ahead
<1>6. IsOrder(ByScore(q, e), S)
  <2>1. \A i \in S : <<i, i>> \notin ByScore(q, e)
    BY <1>1, <1>4, <1>5
  <2>2. \A i, j, k \in S : <<i, j>> \in ByScore(q, e) /\ <<j, k>> \in ByScore(q, e)
                             => <<i, k>> \in ByScore(q, e)
    BY <1>1, <1>4, <1>5
  <2>3. \A i, j \in S : i # j => <<i, j>> \in ByScore(q, e) \/ <<j, i>> \in ByScore(q, e)
    BY <1>1, <1>4, <1>5
  <2> QED  BY <2>1, <2>2, <2>3 DEF IsOrder
<1>7. ASSUME NEW i \in S PROVE Ahead(S, q, e, i) = Before(ByScore(q, e), S, i)
  BY <1>4, <1>5 DEF Ahead, Before
<1>8. \A i, j \in S : <<i, j>> \in ByScore(q, e) => Score(q, i, e) >= Score(q, j, e)
  BY <1>4, <1>5
<1> QED  BY <1>2, <1>6, <1>7, <1>8

\* The chunks of S that are of the document of i.
Kin(S, i) == {j \in S : FileOf[docs.chunks[j]] = FileOf[docs.chunks[i]]}

\* What is spread is, of each document, the first of its chunks.
LEMMA SpreadIsTop ==
    ASSUME RetrievalInv, NEW q \in Questions, NEW e, NEW S \in SUBSET DOMAIN store, NEW i \in S
    PROVE  Kin(Spread(S, q, e), i) = Top(ByScore(q, e), Kin(S, i), MaxChunksPerDocument)
<1> DEFINE R == ByScore(q, e)
<1>1. ASSUME NEW j \in Kin(S, i)
      PROVE  j \in S /\ {k \in Ahead(S, q, e, j) : FileOf[docs.chunks[k]] = FileOf[docs.chunks[j]]}
                        = Before(R, Kin(S, i), j)
  <2>1. Ahead(S, q, e, j) = Before(R, S, j)
    BY <1>1, ScoresOrder DEF Kin
  <2> HIDE DEF R
  <2> QED  BY <1>1, <2>1 DEF Kin, Before
<1> HIDE DEF R
<1>2. ASSUME NEW j \in S
      PROVE  j \in Spread(S, q, e)
             <=> Cardinality({k \in Ahead(S, q, e, j) :
                                 FileOf[docs.chunks[k]] = FileOf[docs.chunks[j]]})
                   < MaxChunksPerDocument
  BY DEF Spread
<1>3. ASSUME NEW j PROVE j \in Kin(Spread(S, q, e), i) <=> j \in Kin(S, i) /\ j \in Spread(S, q, e)
  BY DEF Kin, Spread
<1>4. ASSUME NEW j
      PROVE  j \in Top(R, Kin(S, i), MaxChunksPerDocument)
             <=> j \in Kin(S, i) /\ Cardinality(Before(R, Kin(S, i), j)) < MaxChunksPerDocument
  BY DEF Top
<1>5. ASSUME NEW j
      PROVE  j \in Kin(Spread(S, q, e), i) <=> j \in Top(R, Kin(S, i), MaxChunksPerDocument)
  BY <1>1, <1>2, <1>3, <1>4, Zenon
<1> QED  BY <1>5, Zenon DEF R

\* What is listed is what comes first of what was spread, each chunk once.
LEMMA ListedIsRank ==
    ASSUME RetrievalInv, NEW q \in found.question
    PROVE  LET e == found.embedding
               spread == Spread(Relevant(q, e), q, e)
           IN  /\ q \in Questions
               /\ spread \subseteq Relevant(q, e) /\ Relevant(q, e) \subseteq DOMAIN store
               /\ Listed = Top(ByScore(q, e), spread, TopK)
               /\ Cardinality(Listed) = Len(found.list)
<1>1. PICK e : e = found.embedding
  OBVIOUS
<1>2. q \in Questions /\ found.list = Rank(q, e)
  BY <1>1 DEF RetrievalInv, FoundIsRank
<1>3. PICK relevant : relevant = Relevant(q, e)
  OBVIOUS
<1>4. PICK spread : spread = Spread(relevant, q, e)
  OBVIOUS
<1>5. spread \subseteq relevant /\ relevant \subseteq DOMAIN store
  BY <1>3, <1>4 DEF Spread, Relevant
<1>6. PICK first : first = First(spread, q, e)
  OBVIOUS
<1>7. first = Top(ByScore(q, e), spread, TopK) /\ first \subseteq spread
  <2>1. \A i \in spread : Ahead(spread, q, e, i) = Before(ByScore(q, e), spread, i)
    BY <1>2, <1>5, ScoresOrder
  <2> QED  BY <1>6, <2>1 DEF First, Top
<1>8. found.list = Sorted(first, q, e)
  BY <1>2, <1>3, <1>4, <1>6 DEF Rank
<1>9. /\ IsFiniteSet(first) /\ IsOrder(ByScore(q, e), first)
      /\ \A i \in first : Ahead(first, q, e, i) = Before(ByScore(q, e), first, i)
  BY <1>2, <1>5, <1>7, ScoresOrder
<1>10. found.list = [k \in 1..Cardinality(first) |->
                       CHOOSE i \in first : Cardinality(Before(ByScore(q, e), first, i)) = k - 1]
  <2>1. ASSUME NEW k
        PROVE  (CHOOSE i \in first : Cardinality(Ahead(first, q, e, i)) = k - 1)
               = CHOOSE i \in first : Cardinality(Before(ByScore(q, e), first, i)) = k - 1
    BY <1>9, Zenon
  <2> QED  BY <1>8, <2>1, Zenon DEF Sorted
<1>11. found.list \in Bijection(1..Cardinality(first), first)
  BY <1>9, <1>10, ByRank
<1>12. DOMAIN found.list = 1..Cardinality(first) /\ Cardinality(first) \in Nat
  BY <1>9, <1>10, FS_CardinalityType
<1>13. Listed = first
  BY <1>11, <1>12 DEF Listed, Bijection, Surjection, Injection
<1>14. found.list \in Seq(first)
  BY <1>11, <1>12 DEF Bijection, Injection
<1>15. Len(found.list) = Cardinality(first)
  BY <1>12, <1>14
<1> QED  BY <1>1, <1>2, <1>3, <1>4, <1>5, <1>7, <1>13, <1>15

\* The invariant implies BestAreListed.
LEMMA RanksAreBest == RetrievalInv => BestAreListed
<1> SUFFICES ASSUME RetrievalInv, NEW q \in found.question
    PROVE  LET score(i) == Score(q, i, found.embedding)
               docOf(i) == FileOf[docs.chunks[i]]
               asGood(i) == {j \in Listed : score(j) >= score(i)}
           IN  /\ Cardinality(Listed) = Len(found.list)
               /\ Listed \subseteq Relevant(q, found.embedding)
               /\ \A i \in Listed :
                   Cardinality({j \in Listed : docOf(j) = docOf(i)}) <= MaxChunksPerDocument
               /\ \A i \in Relevant(q, found.embedding) \ Listed :
                   \/ Cardinality({j \in asGood(i) : docOf(j) = docOf(i)}) = MaxChunksPerDocument
                   \/ Cardinality(asGood(i)) = TopK
  BY DEF BestAreListed
<1>1. PICK e : e = found.embedding
  OBVIOUS
<1>2. PICK relevant : relevant = Relevant(q, e)
  OBVIOUS
<1>3. PICK spread : spread = Spread(relevant, q, e)
  OBVIOUS
<1>4. PICK R : R = ByScore(q, e)
  OBVIOUS
<1>5. /\ q \in Questions /\ spread \subseteq relevant /\ relevant \subseteq DOMAIN store
      /\ Listed = Top(R, spread, TopK)
      /\ Cardinality(Listed) = Len(found.list)
  BY <1>1, <1>2, <1>3, <1>4, ListedIsRank
<1>6. /\ MaxChunksPerDocument \in Nat /\ TopK \in Nat
      /\ Listed \subseteq spread
  BY <1>5, RetrievalAssumption DEF RetrievalAssumption, Top
<1>7. ASSUME NEW S \in SUBSET relevant
      PROVE  /\ IsFiniteSet(S) /\ IsOrder(R, S)
             /\ \A i, j \in S : <<i, j>> \in R => Score(q, i, e) >= Score(q, j, e)
  BY <1>4, <1>5, ScoresOrder
<1>8. ASSUME NEW i \in relevant
      PROVE  /\ Kin(spread, i) = Top(R, Kin(relevant, i), MaxChunksPerDocument)
             /\ Kin(relevant, i) \in SUBSET relevant
             /\ Kin(Listed, i) \subseteq Kin(spread, i)
             /\ IsFiniteSet(Kin(Listed, i)) /\ IsFiniteSet(Kin(spread, i))
             /\ Cardinality(Kin(spread, i)) <= MaxChunksPerDocument
             /\ Cardinality(Kin(Listed, i)) <= MaxChunksPerDocument
  <2>1. Kin(spread, i) = Top(R, Kin(relevant, i), MaxChunksPerDocument)
    BY <1>3, <1>4, <1>5, SpreadIsTop
  <2>2. Kin(relevant, i) \in SUBSET relevant /\ Kin(Listed, i) \subseteq Kin(spread, i)
    BY <1>6 DEF Kin
  <2>3. /\ IsFiniteSet(Kin(spread, i)) /\ Cardinality(Kin(spread, i)) <= MaxChunksPerDocument
    <3>1. IsFiniteSet(Kin(relevant, i)) /\ IsOrder(R, Kin(relevant, i))
      BY <1>7, <2>2
    <3> QED  BY <1>6, <2>1, <3>1, TopOfAll
  <2>4. /\ IsFiniteSet(Kin(Listed, i)) /\ Cardinality(Kin(Listed, i)) <= Cardinality(Kin(spread, i))
    BY <2>2, <2>3, FS_Subset
  <2>5. Cardinality(Kin(spread, i)) \in Nat /\ Cardinality(Kin(Listed, i)) \in Nat
    BY <2>3, <2>4, FS_CardinalityType
  <2> QED  BY <1>6, <2>1, <2>2, <2>3, <2>4, <2>5
<1>9. ASSUME NEW i \in relevant, NEW j \in spread \ Listed, j = i \/ <<j, i>> \in R
      PROVE  /\ Cardinality(Listed) = TopK
             /\ \A k \in Listed : Score(q, k, e) >= Score(q, i, e)
  <2>1. IsFiniteSet(spread) /\ IsOrder(R, spread) /\ spread \in SUBSET relevant
    BY <1>5, <1>7
  <2>2. TopK <= Cardinality(Before(R, spread, j))
    <3>1. ~(Cardinality(Before(R, spread, j)) < TopK)
      BY <1>5 DEF Top
    <3>2. Cardinality(Before(R, spread, j)) \in Nat
      BY <2>1, RankGrows
    <3> QED  BY <1>6, <3>1, <3>2
  <2>3. Cardinality(Listed) = TopK
    BY <1>5, <1>6, <2>1, <2>2, TopOfAll
  <2>4. \A k \in Listed : <<k, j>> \in R
    BY <1>5, <1>6, <2>1, TopOfAll
  <2>5. IsOrder(R, relevant) /\ \A k \in Listed : k \in relevant
    BY <1>5, <1>6, <1>7
  <2>6. \A k \in Listed : <<k, i>> \in R
    <3>1. \A k, l, m \in relevant : <<k, l>> \in R /\ <<l, m>> \in R => <<k, m>> \in R
      BY <2>5 DEF IsOrder
    <3>2. j \in relevant
      BY <1>5
    <3>3. CASE j = i
      BY <2>4, <3>3
    <3>4. ASSUME <<j, i>> \in R, NEW k \in Listed PROVE <<k, i>> \in R
      <4>1. <<k, j>> \in R /\ k \in relevant
        BY <2>4, <2>5
      <4> QED  BY <3>1, <3>2, <3>4, <4>1
    <3> QED  BY <1>9, <3>3, <3>4
  <2> QED  BY <1>7, <2>3, <2>5, <2>6
<1>10. ASSUME NEW i \in relevant \ Listed
       PROVE  \/ Cardinality({j \in {k \in Listed : Score(q, k, e) >= Score(q, i, e)} :
                                FileOf[docs.chunks[j]] = FileOf[docs.chunks[i]]})
                    = MaxChunksPerDocument
              \/ Cardinality({k \in Listed : Score(q, k, e) >= Score(q, i, e)}) = TopK
  <2>1. CASE \E j \in spread \ Listed : j = i \/ <<j, i>> \in R
    <3>1. Cardinality(Listed) = TopK /\ \A k \in Listed : Score(q, k, e) >= Score(q, i, e)
      BY <1>9, <2>1
    <3>2. {k \in Listed : Score(q, k, e) >= Score(q, i, e)} = Listed
      BY <3>1
    <3> QED  BY <3>1, <3>2
  <2>2. CASE ~\E j \in spread \ Listed : j = i \/ <<j, i>> \in R
    <3>1. i \notin spread /\ i \in Kin(relevant, i)
      BY <2>2 DEF Kin
    <3>2. i \in Kin(relevant, i) \ Top(R, Kin(relevant, i), MaxChunksPerDocument)
      BY <1>8, <3>1 DEF Kin
    <3>3. IsFiniteSet(Kin(relevant, i)) /\ IsOrder(R, Kin(relevant, i))
      BY <1>7, <1>8
    <3>4. MaxChunksPerDocument <= Cardinality(Before(R, Kin(relevant, i), i))
      <4>1. ~(Cardinality(Before(R, Kin(relevant, i), i)) < MaxChunksPerDocument)
        BY <3>2 DEF Top
      <4>2. Cardinality(Before(R, Kin(relevant, i), i)) \in Nat
        BY <3>1, <3>3, RankGrows
      <4> QED  BY <1>6, <4>1, <4>2
    <3>5. Cardinality(Kin(spread, i)) = MaxChunksPerDocument
      BY <1>6, <1>8, <3>1, <3>3, <3>4, TopOfAll
    <3>6. \A j \in Kin(spread, i) : <<j, i>> \in R
      BY <1>6, <1>8, <3>2, <3>3, TopOfAll
    <3>7. \A j \in Kin(spread, i) : j \in Listed /\ Score(q, j, e) >= Score(q, i, e)
      <4>1. \A j \in Kin(spread, i) : j \in Listed /\ j \in relevant
        BY <1>5, <2>2, <3>6 DEF Kin
      <4> QED  BY <1>7, <3>6, <4>1
    <3>8. {j \in {k \in Listed : Score(q, k, e) >= Score(q, i, e)} :
              FileOf[docs.chunks[j]] = FileOf[docs.chunks[i]]} = Kin(spread, i)
      BY <1>6, <3>7 DEF Kin
    <3> QED  BY <3>5, <3>8
  <2> QED  BY <2>1, <2>2
<1>11. ASSUME NEW i \in Listed
       PROVE  Cardinality({j \in Listed : FileOf[docs.chunks[j]] = FileOf[docs.chunks[i]]})
                <= MaxChunksPerDocument
  BY <1>5, <1>6, <1>8 DEF Kin
<1>12. Listed \subseteq Relevant(q, found.embedding)
  BY <1>1, <1>2, <1>5, <1>6
<1> QED  BY <1>1, <1>2, <1>5, <1>10, <1>11, <1>12

\* BestAreListed: for any scores and limits, the list is relevant, without
\* repetition, within its limits, and what it leaves out is not better than
\* what fills its place.
THEOREM BestAreAlwaysListed == RetrievalSpec => []BestAreListed
BY RetrievalInvInitially, RetrievalInvPreserved, RanksAreBest, PTL DEF RetrievalSpec
=============================================================================
