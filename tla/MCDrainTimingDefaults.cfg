\* The defaults of Kconfig: 100 Hz, 128 slots, 50 ms between drains, 5 s windows;
\* exports of up to the client's timeout of 5 s; a task that is never late.
SPECIFICATION TimingSpec
CONSTANTS
    UsableSlots = 127
    Delay = 5
    Interval = 500
    Latency = 0
    PublishTime = 500
    MaxTime = 700
INVARIANT NoSampleDropped
