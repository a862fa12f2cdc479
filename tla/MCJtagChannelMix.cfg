\* The same channel: the newline after a document that failed can fail as well.
SPECIFICATION Spec
CONSTANTS
    t1 = t1
    t2 = t2
    t3 = t3
    Tasks <- MCTasks
    Profiler = t1
    Documents <- MCDocuments
    MaxDocuments = 1
    ChunkSize = 2
    BlockSize = 3
    Newline = Newline
    NoTask = NoTask
    NoLock = NoLock
INVARIANTS
    LineIsNeverAMix
