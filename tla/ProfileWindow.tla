---------------------------- MODULE ProfileWindow ----------------------------
(***************************************************************************)
(* The profiler of src/integration/esp_profiling.cpp above its rings: the  *)
(* export task drains every core's ring, folds identical stacks into       *)
(* counts, and once per window exports the table and starts a new one,     *)
(* while the timer interrupts go on filling the rings.  Each core's timer  *)
(* is armed by a task of its own, before or after the export task began.   *)
(*                                                                         *)
(* A ring is the queue that LossyQueue describes and SampleRing is shown   *)
(* to implement.  A sample is the record [core, name, rest, has_span,      *)
(* span, pcs]: name and pcs are sequences of bytes, `rest' is what         *)
(* strlcpy() leaves in the name's buffer after its terminator, and `span'  *)
(* is stale when has_span is false.  Time is left to DrainTiming: here a   *)
(* window may end after any drain.                                         *)
(***************************************************************************)
EXTENDS Naturals, Sequences, FiniteSets

CONSTANTS
    NumCores,           \* portNUM_PROCESSORS
    RingBound,          \* kRingCapacity - 1
    MaxUniqueStacks,    \* kMaxUniqueStacks
    SamplesOf(_),       \* the samples sample_stack() can write on a core
    MaxInterrupts       \* bounds the timer interrupts

ASSUME CoresAssumption  == NumCores \in Nat /\ NumCores >= 1
ASSUME BoundsAssumption ==
    RingBound \in Nat /\ MaxUniqueStacks \in Nat /\ MaxInterrupts \in Nat

Cores == 0 .. NumCores - 1

Sample == [core : Cores, name : Seq(Nat), rest : Seq(Nat),
           has_span : BOOLEAN, span : Nat, pcs : Seq(Nat)]

ASSUME SamplesAssumption == \A c \in Cores : SamplesOf(c) \subseteq Sample

VARIABLES
    armed,      \* the cores whose timer runs
    queue,      \* each core's ring
    total,      \* g_total_samples
    uncounted,  \* the cores whose interrupt has published a sample and not counted it yet
    task,       \* the export task's program counter
    core, left, \* drain_rings(): the core it drains, the samples left to its snapshot
    agg,        \* g_agg[0 .. g_agg_count - 1]
    index,      \* g_agg_index: pairs of a key and a position in agg
    interrupts, \* history: how many samples were offered
    window,     \* history: the samples drained in this window, oldest first
    exported,   \* history: the samples counted in exported documents
    lost,       \* history: the samples of windows that were not exported
    leftOut     \* history: the drained samples a full table had no room for

sampler == <<armed, queue, total, uncounted>>
table   == <<agg, index>>
vars    == <<sampler, task, core, left, table, interrupts, window, exported, lost, leftOut>>

Init ==
    /\ armed = {} /\ total = [c \in Cores |-> 0] /\ uncounted = {}
    /\ queue = [c \in Cores |-> <<>>]
    /\ task = "delay" /\ core = 0 /\ left = 0
    /\ agg = <<>> /\ index = {}
    /\ interrupts = 0 /\ window = <<>>
    /\ exported = 0 /\ lost = 0 /\ leftOut = 0

\* start_timer_on_core, which runs once; an error aborts the program.
ArmTimer(c) ==
    /\ c \notin armed
    /\ armed' = armed \cup {c}
    /\ UNCHANGED <<queue, total, uncounted, task, core, left, table, interrupts, window,
                   exported, lost, leftOut>>

\* on_timer on core c, up to the store of ring.head: a full ring drops the
\* sample.  The interrupt does not interrupt itself.
Interrupt(c) ==
    /\ c \in armed /\ c \notin uncounted
    /\ interrupts < MaxInterrupts
    /\ interrupts' = interrupts + 1
    /\ IF Len(queue[c]) < RingBound
         THEN /\ \E s \in SamplesOf(c) : queue' = [queue EXCEPT ![c] = Append(@, s)]
              /\ uncounted' = uncounted \cup {c}
         ELSE UNCHANGED <<queue, uncounted>>
    /\ UNCHANGED <<armed, total, task, core, left, table, window, exported, lost, leftOut>>

\* The rest of it: the sample that is in the ring, or drained by now, is counted.
Count(c) ==
    /\ c \in uncounted
    /\ total' = [total EXCEPT ![c] = @ + 1]
    /\ uncounted' = uncounted \ {c}
    /\ UNCHANGED <<armed, queue, task, core, left, table, interrupts, window, exported, lost,
                   leftOut>>

\* The sum of f's values: the size of a union that has f[x] elements for x.
Units(f) == UNION {{x} \X (1 .. f[x]) : x \in DOMAIN f}
SumOf(f) == Cardinality(Units(f))

\* esp_opentelemetry_profiling_samples()
Samples == SumOf(total)

\* What total is as soon as the interrupts that run have returned.
Published == [c \in Cores |-> total[c] + IF c \in uncounted THEN 1 ELSE 0]

-----------------------------------------------------------------------------
(* aggregate *)

\* A key that takes the buffer of the name for the name.
KeyWithRest(s) ==
    <<s.core, Len(s.pcs), s.has_span>> \o (IF s.has_span THEN <<s.span>> ELSE <<>>)
        \o s.name \o s.rest \o s.pcs

\* The bytes by which g_agg_index knows a stack.
Key(s) ==
    <<s.core, Len(s.pcs), s.has_span>> \o (IF s.has_span THEN <<s.span>> ELSE <<>>)
        \o s.name \o s.pcs

Found(s) == {e \in index : e[1] = Key(s)}

\* A stack already in the table is counted; a new one is added, unless the
\* table is full.
Aggregate(s) ==
    IF Found(s) # {}
      THEN \E e \in Found(s) :
             agg' = [agg EXCEPT ![e[2]].count = @ + 1] /\ UNCHANGED index
      ELSE IF Len(agg) >= MaxUniqueStacks
        THEN UNCHANGED table
        ELSE /\ agg' = Append(agg, [sample |-> s, count |-> 1])
             /\ index' = index \cup {<<Key(s), Len(agg) + 1>>}

-----------------------------------------------------------------------------
(* drain_rings *)

\* vTaskDelay returned; core 0's head is loaded once.
BeginDrain ==
    /\ task = "delay"
    /\ task' = "drain"
    /\ core' = 0 /\ left' = Len(queue[0])
    /\ UNCHANGED <<sampler, table, interrupts, window, exported, lost, leftOut>>

DrainOne ==
    /\ task = "drain"
    /\ left > 0
    /\ Aggregate(Head(queue[core]))
    /\ window' = Append(window, Head(queue[core]))
    /\ queue' = [queue EXCEPT ![core] = Tail(@)]
    /\ left' = left - 1
    /\ leftOut' = IF agg' = agg THEN leftOut + 1 ELSE leftOut
    /\ UNCHANGED <<armed, total, uncounted, task, core, interrupts, exported, lost>>

\* The loop over the cores; after the last one the task looks at the time.
NextCore ==
    /\ task = "drain"
    /\ left = 0
    /\ IF core + 1 < NumCores
         THEN core' = core + 1 /\ left' = Len(queue[core + 1]) /\ UNCHANGED task
         ELSE task' = "check" /\ UNCHANGED <<core, left>>
    /\ UNCHANGED <<sampler, table, interrupts, window, exported, lost, leftOut>>

-----------------------------------------------------------------------------
(* export_task *)

\* mono_now < next_publish: the window goes on.
WindowContinues ==
    /\ task = "check"
    /\ task' = "delay"
    /\ UNCHANGED <<sampler, core, left, table, interrupts, window, exported, lost, leftOut>>

\* The window has ended; an empty one is not published.
WindowEnds ==
    /\ task = "check"
    /\ task' = IF agg # <<>> THEN "publish" ELSE "reset"
    /\ UNCHANGED <<sampler, core, left, table, interrupts, window, exported, lost, leftOut>>

Counts  == [i \in 1 .. Len(agg) |-> agg[i].count]
Counted == SumOf(Counts)

\* publish() and export_profiles(): the document reaches the backend, or it
\* cannot be measured, allocated, written or sent.  The task learns neither.
Publish ==
    /\ task = "publish"
    /\ \/ exported' = exported + Counted /\ UNCHANGED lost
       \/ lost' = lost + Counted /\ UNCHANGED exported
    /\ task' = "reset"
    /\ UNCHANGED <<sampler, core, left, table, interrupts, window, leftOut>>

\* A new window that keeps the index, or the table, of the old one.
ResetTableOnly ==
    /\ task = "reset"
    /\ agg' = <<>> /\ window' = <<>> /\ index' = index
    /\ task' = "delay"
    /\ UNCHANGED <<sampler, core, left, interrupts, exported, lost, leftOut>>
ResetIfExported ==
    /\ task = "reset"
    /\ window' = <<>>
    /\ IF lost > 0 THEN UNCHANGED table ELSE agg' = <<>> /\ index' = {}
    /\ task' = "delay"
    /\ UNCHANGED <<sampler, core, left, interrupts, exported, lost, leftOut>>

\* g_agg_count = 0; g_agg_index.clear(), whatever became of the document.
Reset ==
    /\ task = "reset"
    /\ agg' = <<>> /\ index' = {} /\ window' = <<>>
    /\ task' = "delay"
    /\ UNCHANGED <<sampler, core, left, interrupts, exported, lost, leftOut>>

ExportTask == BeginDrain \/ DrainOne \/ NextCore \/ WindowContinues \/ WindowEnds
                \/ Publish \/ Reset

Next == (\E c \in Cores : ArmTimer(c) \/ Interrupt(c) \/ Count(c)) \/ ExportTask

Spec == Init /\ [][Next]_vars

-----------------------------------------------------------------------------
\* What makes two samples the same stack: a reference for Key.
Identity(s) == [core |-> s.core, name |-> s.name, pcs |-> s.pcs,
                span |-> IF s.has_span THEN <<s.span>> ELSE <<>>]

Occurrences(s) == Cardinality({k \in 1 .. Len(window) : Identity(window[k]) = Identity(s)})

TypeOK ==
    /\ armed \subseteq Cores /\ total \in [Cores -> 0 .. MaxInterrupts]
    /\ uncounted \subseteq armed
    /\ \A c \in Cores : Len(queue[c]) <= RingBound
    /\ task \in {"delay", "drain", "check", "publish", "reset"}
    /\ core \in Cores /\ left \in 0 .. RingBound
    /\ Len(agg) <= MaxUniqueStacks
    /\ \A i \in 1 .. Len(agg) : agg[i].count \in Nat \ {0}
    /\ interrupts \in 0 .. MaxInterrupts
    /\ leftOut \in Nat

\* The table counts stacks exactly: each entry is a stack of this window with
\* the number of times it was sampled in it, no stack has two entries, and
\* none is missing unless the table is full.  Two samples share an entry if
\* and only if they agree in core, task, span and addresses, so the
\* concatenation of bytes that is the key confuses no two stacks and splits
\* none.
TableCountsStacks ==
    /\ TypeOK
    /\ \A i \in 1 .. Len(agg) : agg[i].count = Occurrences(agg[i].sample)
    /\ \A i, j \in 1 .. Len(agg) :
           Identity(agg[i].sample) = Identity(agg[j].sample) => i = j
    /\ \A k \in 1 .. Len(window) :
           \/ Len(agg) = MaxUniqueStacks
           \/ \E i \in 1 .. Len(agg) : Identity(agg[i].sample) = Identity(window[k])

\* The index finds every entry of the table at its place and nothing else:
\* aggregate() writes g_agg at the position it finds without a check.
IndexMatchesTable ==
    index = {<<Key(agg[i].sample), i>> : i \in 1 .. Len(agg)}

Lengths == [c \in Cores |-> Len(queue[c])]

\* Over all windows and cores, every sample is accounted for once: it waits in a
\* ring, is counted in the table, in one exported document or in one window that
\* was lost, or found the table full.  The application is told of all of them,
\* but for those whose interrupt is between its last two steps.
SamplesAreConserved ==
    /\ exported \in Nat /\ lost \in Nat
    /\ exported + lost + leftOut + (IF task = "reset" THEN 0 ELSE Counted)
         + SumOf(Lengths) = SumOf(Published)
    /\ uncounted = {} => SumOf(Published) = Samples
=============================================================================
