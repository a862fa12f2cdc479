\* Chunks of two bytes, blocks of three: a document may fill a block exactly,
\* span both blocks, or fail in its first chunk, a later one or its newline.
\* Each of three tasks writes one; the host may never come or read.
SPECIFICATION FairSpec
CONSTANTS
    t1 = t1
    t2 = t2
    t3 = t3
    Tasks <- MCTasks
    Profiler = t1
    Documents <- MCDocuments
    MaxDocuments = 1
    ChunkSize = 2
    BlockSize = 3
    Newline = Newline
    NoTask = NoTask
    NoLock = NoLock
INVARIANTS
    DocumentsAreContiguous
    ExactlyOneNewline
    ResultTellsWhatWasWritten
PROPERTIES
    EveryCallReturns
