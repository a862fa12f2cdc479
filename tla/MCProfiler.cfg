\* Contents: two cores, four samples that make three stacks, a table of two: the
\* rings and the table fill up, and windows end early, late and empty.
\* Clocks: 20 Hz, so that a period is the drain interval of 50 ms; 26 slots;
\* 5 s windows; exports of up to the client's timeout of 5 s.
SPECIFICATION MCSpec
CONSTANTS
    NumCores = 2
    RingBound = 2
    MaxUniqueStacks = 2
    MaxInterrupts = 4
    SamplesOf <- MCSamplesOf
    UsableSlots = 25
    Delay = 1
    Interval = 100
    Latency = 1
    PublishTime = 100
    MaxTime = 215
INVARIANTS
    TableCountsStacks
    IndexMatchesTable
    SamplesAreConserved
    LossNeedsASlowExport
    WindowLength
    StartIsOffByOneExport
