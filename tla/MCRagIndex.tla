----------------------------- MODULE MCRagIndex -----------------------------
(***************************************************************************)
(* An instance of Retrieval, and with it of RagIndex, for TLC: three       *)
(* chunks that come and go, two of them of one file, a file with no text   *)
(* in it, and no file at all.  One question is closer to the third chunk   *)
(* by its words, the other by its meaning.                                 *)
(***************************************************************************)
EXTENDS Retrieval, TLC

CONSTANTS a, b, c, small, large, words, meaning

MCDocuments == {[count |-> 2, chunks |-> <<a, b, c>>],
                [count |-> 1, chunks |-> <<b, c>>],
                [count |-> 1, chunks |-> <<>>],
                [count |-> 0, chunks |-> <<>>]}

MCFileOf == a :> "first" @@ b :> "first" @@ c :> "second"

\* Two chunks of an earlier cache, embedded by the small model.
MCEarlier == {<<x, [chunk |-> x, model |-> small]>> : x \in {a, c}}

MCLexical == [p \in Questions \X Chunks |->
    CASE p[1] = words -> (a :> 50 @@ b :> 50 @@ c :> 30)[p[2]]
      [] p[1] = meaning -> (a :> 10 @@ b :> 20 @@ c :> 25)[p[2]]]

\* Of vectors of two models, which differ in length, cosineSimilarity makes 0.
MCSemantic == [p \in Questions \X Embedding \X Models |->
    CASE p[2].model # p[3] -> 0
      [] p[1] = words -> (a :> 40 @@ b :> 60 @@ c :> 20)[p[2].chunk]
      [] p[1] = meaning -> (a :> 70 @@ b :> 60 @@ c :> 0)[p[2].chunk]]
=============================================================================
