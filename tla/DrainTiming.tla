----------------------------- MODULE DrainTiming -----------------------------
(***************************************************************************)
(* The profiler's two clocks: the timer interrupt that fills one core's    *)
(* ring at a fixed rate, and export_task (src/integration/                 *)
(* esp_profiling.cpp), which sleeps, drains the ring, looks at the time    *)
(* and, when the window is over, exports it before it sleeps again.        *)
(*                                                                         *)
(* The unit of time is one sampling period.  The task takes its next step  *)
(* somewhere in `ready .. deadline': time passes until the deadline at the *)
(* latest.  The samples themselves are left to ProfileWindow; the ring is  *)
(* drained at one instant, the time that takes being part of Latency.  The *)
(* wall clock is the monotonic clock plus a constant, taken to be 0: SNTP  *)
(* has synchronised it and does not step it.                               *)
(***************************************************************************)
EXTENDS Naturals, FiniteSetsExt

CONSTANTS
    UsableSlots,    \* kRingCapacity - 1
    Delay,          \* kDrainIntervalMs, in sampling periods
    Interval,       \* kExportIntervalMs, in sampling periods
    Latency,        \* how long the task may be kept from running
    PublishTime,    \* the longest an export takes
    MaxTime         \* bounds the run

ASSUME TimingAssumption ==
    /\ UsableSlots \in Nat /\ Delay \in Nat \ {0} /\ Interval \in Nat \ {0}
    /\ Latency \in Nat /\ PublishTime \in Nat /\ MaxTime \in Nat

VARIABLES
    now,                    \* esp_timer_get_time(), and the wall clock
    fill, ringOldest,       \* samples in the ring; when its oldest was taken
    samples, tableOldest,   \* samples in the table; when their oldest was taken
    step,                   \* export_task's program counter
    ready, deadline,        \* when the task takes its next step
    mono_start, wall_start, next_publish,
    mono_now,               \* the local of the window being published
    document,               \* the document exported last
    missed,                 \* history: samples that found the ring full since it was drained
    exportTook              \* history: how long the export after that drain took

ring        == <<fill, ringOldest>>
tableTimes  == <<samples, tableOldest>>
windowTimes == <<mono_start, wall_start, next_publish>>
losses      == <<missed, exportTook>>
timingVars  == <<now, ring, tableTimes, step, ready, deadline, windowTimes, mono_now,
                 document, losses>>

NoDocument == [none |-> TRUE]

TimingInit ==
    /\ now = 0
    /\ fill = 0 /\ ringOldest = 0
    /\ samples = 0 /\ tableOldest = 0
    /\ step = "delay" /\ ready = Delay /\ deadline = Delay + Latency
    /\ mono_start = 0 /\ wall_start = 0 /\ next_publish = Interval /\ mono_now = 0
    /\ document = NoDocument
    /\ missed = 0 /\ exportTook = 0

\* One sampling period passes and on_timer takes its sample at the end of it.
Tick ==
    /\ now < MaxTime
    /\ now < deadline
    /\ now' = now + 1
    /\ IF fill < UsableSlots
         THEN /\ fill' = fill + 1
              /\ ringOldest' = IF fill = 0 THEN now + 1 ELSE ringOldest
              /\ UNCHANGED missed
         ELSE missed' = missed + 1 /\ UNCHANGED ring
    /\ UNCHANGED <<tableTimes, step, ready, deadline, windowTimes, mono_now, document,
                   exportTook>>

\* The task's next step is at `next', between `soonest' and `latest' from now.
Schedule(next, soonest, latest) ==
    /\ step' = next
    /\ ready' = now + soonest
    /\ deadline' = now + latest

Sleep == Schedule("delay", Delay, Delay + Latency)

EmptyRing ==
    /\ samples' = samples + fill
    /\ tableOldest' = IF samples = 0 THEN ringOldest ELSE tableOldest
    /\ fill' = 0 /\ ringOldest' = 0
    /\ missed' = 0 /\ exportTook' = 0

\* A task that drains the ring only when a window ends.
DrainAtWindowEnd ==
    /\ step = "delay" /\ now >= ready
    /\ IF now >= next_publish THEN EmptyRing ELSE UNCHANGED <<ring, tableTimes, losses>>
    /\ Schedule("clock", 0, Latency)
    /\ UNCHANGED <<now, windowTimes, mono_now, document>>

\* vTaskDelay returns; drain_rings().
Drain ==
    /\ step = "delay" /\ now >= ready
    /\ EmptyRing
    /\ Schedule("clock", 0, Latency)
    /\ UNCHANGED <<now, windowTimes, mono_now, document>>

\* mono_now < next_publish: back to sleep.
NotYetOver ==
    /\ step = "clock" /\ now < next_publish
    /\ Sleep
    /\ UNCHANGED <<now, ring, tableTimes, windowTimes, mono_now, document, losses>>

\* The window is over: publish() it, unless it is empty.
WindowOver ==
    /\ step = "clock" /\ now >= next_publish
    /\ mono_now' = now
    /\ IF samples > 0
         THEN /\ document' = [wall |-> wall_start, mono |-> mono_start,
                              duration |-> now - mono_start, oldest |-> tableOldest]
              /\ Schedule("publish", 0, PublishTime)
         ELSE /\ Schedule("publish", 0, 0)
              /\ UNCHANGED document
    /\ UNCHANGED <<now, ring, tableTimes, windowTimes, losses>>

\* Where the next window starts and ends: as the code has it, keeping to a
\* fixed timetable, and starting when the export has ended.
OnTimetable ==
    mono_start' = mono_now /\ wall_start' = now /\ next_publish' = next_publish + Interval
AfterExport ==
    mono_start' = now /\ wall_start' = now /\ next_publish' = now + Interval
NextWindow ==
    /\ mono_start' = mono_now
    /\ wall_start' = now
    /\ next_publish' = mono_now + Interval

\* publish() has returned: an empty table for the next window.
NewWindow ==
    /\ step = "publish" /\ now >= ready
    /\ samples' = 0 /\ tableOldest' = 0
    /\ NextWindow
    /\ Sleep
    /\ exportTook' = now - mono_now
    /\ UNCHANGED <<now, ring, mono_now, document, missed>>

\* The end of the bounded run, so that every other stop is a deadlock.
Stop == now = MaxTime /\ now < deadline /\ UNCHANGED timingVars

TimingNext == Tick \/ Drain \/ NotYetOver \/ WindowOver \/ NewWindow \/ Stop

TimingSpec == TimingInit /\ [][TimingNext]_timingVars

-----------------------------------------------------------------------------
TimingTypeOK ==
    /\ now \in 0 .. MaxTime
    /\ fill \in 0 .. UsableSlots /\ samples \in 0 .. now /\ missed \in 0 .. now
    /\ ringOldest \in 0 .. now /\ tableOldest \in 0 .. now
    /\ step \in {"delay", "clock", "publish"}
    /\ ready <= deadline /\ now <= deadline
    /\ mono_start <= now /\ wall_start <= now /\ mono_now <= now

\* What the comments of drain_rings() and kDrainIntervalMs say: the rings never
\* overflow between two drains.
NoSampleDropped == missed = 0

\* How long the export that follows the last drain has taken.
ExportTime == IF step = "publish" THEN now - mono_now ELSE exportTook

\* What the drain interval does guarantee: the samples dropped between two
\* drains are no more than what the export between them, the drain interval
\* and the task's being late twice exceed the ring by.  So without a slow
\* export the loop keeps up with every rate at which the ring holds the
\* samples of one drain interval.
LossNeedsASlowExport ==
    missed > 0 => missed + UsableSlots <= ExportTime + Delay + 2 * Latency

Larger(a, b) == Max({a, b})

\* A document's duration is at least the export interval, so one document
\* stands for one window, and at most the time the task can be late longer:
\* windows neither shrink nor drift apart, whatever the exports took.
WindowLength ==
    /\ TimingTypeOK
    /\ document # NoDocument =>
        document.duration \in
            Interval .. Larger(Interval - 1, PublishTime) + Delay + 2 * Latency

\* What the comment on wall_start says: a document's time_unix_nano marks when
\* its samples were taken, so none is older, up to the time the task was late
\* between draining the ring and reading the clock.
StartMarksTheSamples ==
    document # NoDocument => document.oldest + Latency >= document.wall

\* What the two clocks do guarantee.  On the monotonic clock, which the
\* duration is measured with, the samples were taken in the document's window;
\* the start the document states is the wall clock's, read after the previous
\* export, and lies after the oldest sample by no more than that export.
StartIsOffByOneExport ==
    document # NoDocument =>
        /\ document.oldest + Latency >= document.mono
        /\ document.wall <= document.oldest + Latency + PublishTime

=============================================================================
