\* The cache file cannot be written.
CONSTANTS
    a = a
    b = b
    c = c
    small = small
    large = large
    words = words
    meaning = meaning
    Chunks = {a, b, c}
    Documents <- MCDocuments
    Models = {small, large}
    BatchSize = 2
    Earlier <- MCEarlier
    MaxStarts = 3
    Questions = {words, meaning}
    FileOf <- MCFileOf
    Lexical <- MCLexical
    Semantic <- MCSemantic
    MinScore = 18
    MaxChunksPerDocument = 1
    TopK = 2
SPECIFICATION RetrievalSpec
PROPERTIES
    UnavailableMeansNotLoaded
CHECK_DEADLOCK FALSE
