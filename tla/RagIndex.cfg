\* Three starts, two models and an earlier cache, batches of two; two questions,
\* the best two chunks, one of each document.
CONSTANTS
    a = a
    b = b
    c = c
    small = small
    large = large
    words = words
    meaning = meaning
    Chunks = {a, b, c}
    Documents <- MCDocuments
    Models = {small, large}
    BatchSize = 2
    Earlier <- MCEarlier
    MaxStarts = 3
    Questions = {words, meaning}
    FileOf <- MCFileOf
    Lexical <- MCLexical
    Semantic <- MCSemantic
    MinScore = 18
    MaxChunksPerDocument = 1
    TopK = 2
SPECIFICATION RetrievalSpec
INVARIANTS
    EmbeddingsAreTrue
    IndexStateIsTrue
    BestAreListed
PROPERTIES
    SavedIsReused
CHECK_DEADLOCK FALSE
