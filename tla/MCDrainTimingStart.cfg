\* The configuration of MCDrainTiming.cfg, for the start a document states.
SPECIFICATION TimingSpec
CONSTANTS
    UsableSlots = 25
    Delay = 1
    Interval = 100
    Latency = 1
    PublishTime = 100
    MaxTime = 215
INVARIANT StartMarksTheSamples
