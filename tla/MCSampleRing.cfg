\* Three slots and up to five interrupts: both indices wrap around, the ring
\* fills and refuses samples, and the counters wrap.  No symmetry: a temporal
\* property needs every behaviour.
SPECIFICATION FairSpec
CONSTANTS
    Capacity = 3
    CounterModulus = 3
    MaxInterrupts = 5
    s1 = s1
    s2 = s2
    a = a
    none = none
    Stacks <- MCStacks
    Spans <- MCSpans
    NoSpan = none
INVARIANTS
    NoDataRace
    DeliveredInOrder
    CountersAgree
PROPERTIES
    ImplementsQueue
    EventuallyDrained
