----------------------------- MODULE SampleRing -----------------------------
(***************************************************************************)
(* One per-core sample ring of src/integration/esp_profiling.cpp, at the   *)
(* granularity of the shared accesses of its two actors: the gptimer       *)
(* interrupt of that core (on_timer) and the export task (drain_rings),    *)
(* which may run on another core or be interrupted anywhere.               *)
(*                                                                         *)
(* A slot is a record of the two parts the interrupt writes one after the  *)
(* other: `stack' stands for core, task, depth and pc[], `span' for        *)
(* has_span and span_id.  A part is a value of a small set.  An index the  *)
(* actor itself owns (head for the interrupt, tail for the task) is read   *)
(* in the step that uses it.                                               *)
(***************************************************************************)
EXTENDS Naturals, Sequences, FiniteSets

CONSTANTS
    Capacity,       \* kRingCapacity
    CounterModulus, \* 2^32, the modulus of the volatile uint32_t counters
    MaxInterrupts,  \* bounds the interrupts that complete the space check
    Stacks,         \* what sample_stack() can write for the interrupted stack
    Spans,          \* what it can write for the active span
    NoSpan          \* has_span = false

\* Kconfig gives the capacity a range 16..1024; one slot is always left
\* empty, so a ring of one slot could hold nothing.
ASSUME CapacityAssumption == Capacity \in Nat /\ Capacity >= 2
ASSUME CounterAssumption  == CounterModulus \in Nat /\ CounterModulus >= 1
ASSUME BoundsAssumption   == MaxInterrupts \in Nat
ASSUME ValuesAssumption   == NoSpan \in Spans

Slots   == 0 .. Capacity - 1
Samples == [stack : Stacks, span : Spans]

VARIABLES
    head, tail,     \* ring.head (written by the interrupt), ring.tail (by the task)
    buf,            \* ring.buf
    isr,            \* the interrupt's program counter
    task,           \* the export task's program counter
    seen,           \* drain_rings(): its acquire-loaded copy of head
    copy,           \* what aggregate() has read of the slot at tail
    total, spanned, \* g_total_samples[core], g_spanned_samples[core]
    published,      \* history: every sample stored in the ring, oldest first
    drained,        \* history: every sample aggregate() was handed
    dropped         \* history: how many samples found the ring full

isrVars  == <<head, isr, total, spanned, published, dropped>>
taskVars == <<tail, task, seen, copy, drained>>
vars     == <<head, tail, buf, isr, task, seen, copy, total, spanned,
              published, drained, dropped>>

\* Operators named after a fault (Unwrapped, Unchecked, ...) are seeded
\* variants of the definition that follows them: substituted for it, they
\* must make a property fail.
NextIndex(i) == (i + 1) % Capacity

\* The ring has room while head would not run into tail.
HasRoomUnchecked  == TRUE
HasRoomUnwrapped  == head + 1 # tail
HasRoom == NextIndex(head) # tail

Init ==
    /\ head = 0 /\ tail = 0
    /\ buf \in [Slots -> Samples]           \* heap_caps_malloc: not cleared
    /\ isr = "idle" /\ task = "delay"
    /\ seen = 0
    /\ copy \in {[stack |-> s, span |-> NoSpan] : s \in Stacks}
    /\ total = 0 /\ spanned = 0
    /\ published = <<>> /\ drained = <<>> /\ dropped = 0

-----------------------------------------------------------------------------
(* on_timer *)

\* The alarm fires: load head and tail, and drop the sample if the ring is
\* full.
OnTimer ==
    /\ isr = "idle"
    /\ Len(published) + dropped < MaxInterrupts
    /\ IF HasRoom
         THEN isr' = "walk" /\ UNCHANGED dropped
         ELSE dropped' = dropped + 1 /\ UNCHANGED isr
    /\ UNCHANGED <<head, buf, total, spanned, published, taskVars>>

\* sample_stack(): core, task name, pc[] and depth.
WalkStack ==
    /\ isr = "walk"
    /\ \E s \in Stacks : buf' = [buf EXCEPT ![head].stack = s]
    /\ isr' = "span"
    /\ UNCHANGED <<head, total, spanned, published, dropped, taskVars>>

\* sample_stack(): has_span and span_id, from the interrupted task's slot.
ReadSpan ==
    /\ isr = "span"
    /\ \E s \in Spans : buf' = [buf EXCEPT ![head].span = s]
    /\ isr' = "count_spanned"
    /\ UNCHANGED <<head, total, spanned, published, dropped, taskVars>>

CountSpannedAlways ==
    /\ isr = "count_spanned"
    /\ spanned' = (spanned + 1) % CounterModulus
    /\ isr' = "publish"
    /\ UNCHANGED <<head, buf, total, published, dropped, taskVars>>

CountSpanned ==
    /\ isr = "count_spanned"
    /\ spanned' = IF buf[head].span # NoSpan
                    THEN (spanned + 1) % CounterModulus ELSE spanned
    /\ isr' = "publish"
    /\ UNCHANGED <<head, buf, total, published, dropped, taskVars>>

\* The release-store of head.
Publish ==
    /\ isr = "publish"
    /\ head' = NextIndex(head)
    /\ published' = Append(published, buf[head])
    /\ isr' = "count_total"
    /\ UNCHANGED <<buf, total, spanned, dropped, taskVars>>

CountTotal ==
    /\ isr = "count_total"
    /\ total' = (total + 1) % CounterModulus
    /\ isr' = "idle"
    /\ UNCHANGED <<head, buf, spanned, published, dropped, taskVars>>

Interrupt == OnTimer \/ WalkStack \/ ReadSpan \/ CountSpanned \/ Publish
                \/ CountTotal

-----------------------------------------------------------------------------
(* drain_rings *)

\* A drain that takes a wrapped ring for an empty one.
BeginDrainAscending ==
    /\ task = "delay"
    /\ seen' = head
    /\ task' = IF tail < head THEN "aggregate" ELSE "delay"
    /\ UNCHANGED <<buf, tail, copy, drained, isrVars>>

\* vTaskDelay returned: load tail (its own) and take one snapshot of head.
BeginDrain ==
    /\ task = "delay"
    /\ seen' = head
    /\ task' = IF tail # head THEN "aggregate" ELSE "delay"
    /\ UNCHANGED <<buf, tail, copy, drained, isrVars>>

\* aggregate() reads the slot field by field, in no order the code fixes
\* against the interrupt: first one part, ...
AggregateStack ==
    /\ task = "aggregate"
    /\ copy' = [copy EXCEPT !.stack = buf[tail].stack]
    /\ task' = "aggregate_span"
    /\ UNCHANGED <<buf, tail, seen, drained, isrVars>>

\* ... then the other.
AggregateSpan ==
    /\ task = "aggregate_span"
    /\ copy' = [copy EXCEPT !.span = buf[tail].span]
    /\ task' = "advance"
    /\ UNCHANGED <<buf, tail, seen, drained, isrVars>>

\* A drain that frees every slot up to its snapshot at once.
AdvanceToSnapshot ==
    /\ task = "advance"
    /\ tail' = seen
    /\ drained' = Append(drained, copy)
    /\ task' = "delay"
    /\ UNCHANGED <<buf, seen, copy, isrVars>>

\* The release-store of tail frees the slot; the loop goes on up to the
\* snapshot of head.
Advance ==
    /\ task = "advance"
    /\ tail' = NextIndex(tail)
    /\ drained' = Append(drained, copy)
    /\ task' = IF NextIndex(tail) # seen THEN "aggregate" ELSE "delay"
    /\ UNCHANGED <<buf, seen, copy, isrVars>>

Drain == BeginDrain \/ AggregateStack \/ AggregateSpan \/ Advance

-----------------------------------------------------------------------------
Next == Interrupt \/ Drain

\* An interrupt handler runs to its end once it started, and FreeRTOS runs
\* the export task again after every vTaskDelay.  Nothing makes the timer
\* fire.
Fairness == WF_vars(Interrupt /\ isr # "idle") /\ WF_vars(Drain)

Spec     == Init /\ [][Next]_vars
FairSpec == Spec /\ Fairness

-----------------------------------------------------------------------------
(* What the ring must guarantee *)

\* Slots from t up to, not including, h, in the ring's order.
Dist(t, h) == IF h >= t THEN h - t ELSE h - t + Capacity

Pending  == Len(published) - Len(drained)

TypeOK ==
    /\ head \in Slots /\ tail \in Slots /\ seen \in Slots
    /\ buf \in [Slots -> Samples]
    /\ copy \in Samples
    /\ isr \in {"idle", "walk", "span", "count_spanned", "publish", "count_total"}
    /\ task \in {"delay", "aggregate", "aggregate_span", "advance"}
    /\ total \in 0 .. CounterModulus - 1
    /\ spanned \in 0 .. CounterModulus - 1
    /\ published \in Seq(Samples)
    /\ drained \in Seq(Samples)
    /\ dropped \in Nat

\* The slot the interrupt may be writing and the slot the task may be
\* reading.
Writing == IF isr \in {"walk", "span", "count_spanned", "publish"} THEN {head} ELSE {}
Reading == IF task \in {"aggregate", "aggregate_span"} THEN {tail} ELSE {}

\* The interrupt never writes a slot the export task is reading: the free
\* slot between head and tail keeps them apart, whatever the task's snapshot
\* of head is.  The ring has no lock, so this is what makes the payload
\* accesses free of data races.
NoDataRace == TypeOK /\ Writing \cap Reading = {}

\* The export task aggregates exactly the samples the interrupt published, in
\* their order, each once, each with both its parts: nothing is lost after it
\* was stored, read twice, or torn by a later sample.
DeliveredInOrder ==
    /\ Len(drained) <= Len(published)
    /\ \A k \in 1 .. Len(drained) : drained[k] = published[k]

\* A sample is refused only by a ring that holds Capacity - 1 samples, never
\* by one with a free slot.
DropOnlyWhenFull == [][dropped' # dropped => Pending = Capacity - 1]_vars

SpannedAmong(samples) ==
    Cardinality({k \in 1 .. Len(samples) : samples[k].span # NoSpan})

\* Outside the interrupt, the counters the application reads count the
\* samples stored in the ring and those of them that have a span, modulo the
\* width of the counters; dropped samples are in neither.
CountersAgree ==
    isr = "idle" =>
        /\ total   = Len(published) % CounterModulus
        /\ spanned = SpannedAmong(published) % CounterModulus

\* Every sample stored in the ring is eventually aggregated.
EventuallyDrained ==
    \A n \in 1 .. MaxInterrupts :
        Len(published) >= n ~> Len(drained) >= n

\* The ring implements the queue.  A sample enters it when head is stored and
\* leaves it when tail is stored; the check for space is made against an
\* older tail, which can only have moved since to make more space.
Queue == INSTANCE LossyQueue WITH
            Bound    <- Capacity - 1,
            queue    <- SubSeq(published, Len(drained) + 1, Len(published)),
            consumed <- drained,
            refused  <- dropped

ImplementsQueue == Queue!Spec
=============================================================================
