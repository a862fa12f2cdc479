-------------------------- MODULE SampleRing_proofs --------------------------
(***************************************************************************)
(* Proofs about SampleRing, for every capacity, counter width, number of   *)
(* interrupts and set of samples.                                          *)
(***************************************************************************)
EXTENDS SampleRing, SequenceTheorems, FiniteSetTheorems, TLAPS

-----------------------------------------------------------------------------
(* The inductive invariant.  DeliveredInOrder and NoDataRace are not       *)
(* inductive: they rest on what the slots between tail and head hold, on   *)
(* the task's snapshot lying between them, and on the interrupt having     *)
(* found room.                                                             *)

\* The distance between the indices is the number of samples in the ring.
Occupancy ==
    /\ Len(drained) <= Len(published)
    /\ Dist(tail, head) = Len(published) - Len(drained)

\* The slots from tail to head hold the samples published but not drained.
Contents ==
    \A i \in Slots :
        Dist(tail, i) < Dist(tail, head) =>
            buf[i] = published[Len(drained) + Dist(tail, i) + 1]

\* While the interrupt fills its slot there is room for it.
Room == isr \in {"walk", "span", "count_spanned", "publish"} =>
            NextIndex(head) # tail

\* While the task drains, its snapshot of head is ahead of tail and not
\* ahead of head.
Snapshot == task # "delay" => tail # seen /\ Dist(tail, seen) <= Dist(tail, head)

\* What the task has read of its slot is still there.
CopyOK ==
    /\ task = "aggregate_span" => copy.stack = buf[tail].stack
    /\ task = "advance" => copy = buf[tail]

IInv == TypeOK /\ Occupancy /\ Contents /\ Room /\ Snapshot /\ CopyOK
            /\ DeliveredInOrder

-----------------------------------------------------------------------------
(* Arithmetic of the indices *)

\* The modulus of the code is a wrap-around at the last slot.
LEMMA NextIndexWraps ==
    ASSUME NEW i \in Slots
    PROVE  NextIndex(i) = IF i + 1 = Capacity THEN 0 ELSE i + 1
BY CapacityAssumption, SMT DEF NextIndex, Slots

LEMMA NextIndexInSlots ==
    ASSUME NEW i \in Slots
    PROVE  NextIndex(i) \in Slots
BY NextIndexWraps, CapacityAssumption DEF Slots

LEMMA DistFacts ==
    ASSUME NEW t \in Slots, NEW h \in Slots
    PROVE  /\ Dist(t, h) \in 0 .. Capacity - 1
           /\ Dist(t, h) = 0 <=> t = h
           /\ \A i \in Slots : Dist(t, i) = Dist(t, h) => i = h
BY CapacityAssumption DEF Dist, Slots

\* Storing head lengthens the stretch between the indices by one, ...
LEMMA DistToNext ==
    ASSUME NEW t \in Slots, NEW h \in Slots, NextIndex(h) # t
    PROVE  Dist(t, NextIndex(h)) = Dist(t, h) + 1
BY NextIndexWraps, CapacityAssumption DEF Dist, Slots

\* ... and storing tail shortens it by one.
LEMMA DistFromNext ==
    ASSUME NEW t \in Slots, NEW h \in Slots, t # h
    PROVE  Dist(NextIndex(t), h) = Dist(t, h) - 1
BY NextIndexWraps, CapacityAssumption DEF Dist, Slots

\* The one slot left empty: a ring whose next slot is tail is full.
LEMMA FullRing ==
    ASSUME NEW t \in Slots, NEW h \in Slots, NextIndex(h) = t
    PROVE  Dist(t, h) = Capacity - 1
BY NextIndexWraps, CapacityAssumption DEF Dist, Slots

-----------------------------------------------------------------------------
(* Types *)

\* The indices stay within the buffer and the counters within their width.
THEOREM TypeCorrect == Spec => []TypeOK
<1>1. Init => TypeOK
  <2> SUFFICES ASSUME Init PROVE TypeOK
    OBVIOUS
  <2>1. 0 \in Slots
    BY CapacityAssumption DEF Slots
  <2>2. 0 \in 0 .. CounterModulus - 1
    BY CounterAssumption
  <2>3. copy \in Samples
    BY ValuesAssumption DEF Init, Samples
  <2>4. published \in Seq(Samples) /\ drained \in Seq(Samples)
    BY DEF Init
  <2> QED
    BY <2>1, <2>2, <2>3, <2>4 DEF Init, TypeOK
<1>2. TypeOK /\ [Next]_vars => TypeOK'
  <2> SUFFICES ASSUME TypeOK, [Next]_vars PROVE TypeOK'
    OBVIOUS
  <2> USE DEF TypeOK, isrVars, taskVars
  <2>1. CASE OnTimer
    BY <2>1 DEF OnTimer
  <2>2. CASE WalkStack
    <3>1. PICK s \in Stacks : buf' = [buf EXCEPT ![head].stack = s]
      BY <2>2 DEF WalkStack
    <3>2. buf' \in [Slots -> Samples]
      BY <3>1 DEF Samples
    <3> QED
      BY <2>2, <3>2 DEF WalkStack
  <2>3. CASE ReadSpan
    <3>1. PICK s \in Spans : buf' = [buf EXCEPT ![head].span = s]
      BY <2>3 DEF ReadSpan
    <3>2. buf' \in [Slots -> Samples]
      BY <3>1 DEF Samples
    <3> QED
      BY <2>3, <3>2 DEF ReadSpan
  <2>4. CASE CountSpanned
    <3>1. (spanned + 1) % CounterModulus \in 0 .. CounterModulus - 1
      BY CounterAssumption
    <3> QED
      BY <2>4, <3>1 DEF CountSpanned
  <2>5. CASE Publish
    <3>1. published' \in Seq(Samples)
      BY <2>5, AppendProperties DEF Publish
    <3> QED
      BY <2>5, <3>1, NextIndexInSlots DEF Publish
  <2>6. CASE CountTotal
    <3>1. (total + 1) % CounterModulus \in 0 .. CounterModulus - 1
      BY CounterAssumption
    <3> QED
      BY <2>6, <3>1 DEF CountTotal
  <2>7. CASE BeginDrain
    BY <2>7 DEF BeginDrain
  <2>8. CASE AggregateStack
    BY <2>8 DEF AggregateStack, Samples
  <2>9. CASE AggregateSpan
    BY <2>9 DEF AggregateSpan, Samples
  <2>10. CASE Advance
    <3>1. drained' \in Seq(Samples)
      BY <2>10, AppendProperties DEF Advance
    <3> QED
      BY <2>10, <3>1, NextIndexInSlots DEF Advance
  <2>11. CASE UNCHANGED vars
    BY <2>11 DEF vars
  <2> QED
    BY <2>1, <2>2, <2>3, <2>4, <2>5, <2>6, <2>7, <2>8, <2>9, <2>10, <2>11
       DEF Next, Interrupt, Drain
<1> QED
  BY <1>1, <1>2, PTL DEF Spec

-----------------------------------------------------------------------------
(* Safety *)

\* Both indices start at 0 and both histories empty.
LEMMA InitIInv == Init => IInv
<1> SUFFICES ASSUME Init PROVE IInv
  OBVIOUS
<1>1. TypeOK
  <2>1. 0 \in Slots /\ 0 \in 0 .. CounterModulus - 1
    BY CapacityAssumption, CounterAssumption DEF Slots
  <2>2. copy \in Samples
    BY ValuesAssumption DEF Init, Samples
  <2> QED
    BY <2>1, <2>2 DEF Init, TypeOK
<1>2. Dist(tail, head) = 0
  BY <1>1, DistFacts DEF Init, TypeOK
<1>3. Len(published) = 0 /\ Len(drained) = 0
  BY DEF Init
<1>4. Occupancy
  BY <1>2, <1>3 DEF Occupancy
<1>5. Contents
  BY <1>1, <1>2, DistFacts DEF Contents, TypeOK
<1>6. DeliveredInOrder
  BY <1>3 DEF DeliveredInOrder
<1> QED
  BY <1>1, <1>4, <1>5, <1>6 DEF IInv, Init, Room, Snapshot, CopyOK

\* Filling the slot at head disturbs no slot between tail and head.
LEMMA FillKeepsIInv ==
    ASSUME IInv, TypeOK', NEW from \in {"walk", "span"},
           isr = from, isr' \in {"span", "count_spanned"},
           \A i \in Slots : i # head => buf'[i] = buf[i],
           UNCHANGED <<head, published, taskVars>>
    PROVE  IInv'
<1> USE DEF IInv, taskVars
<1>1. head \in Slots /\ tail \in Slots /\ Dist(tail, head) \in Nat
  BY DistFacts DEF TypeOK
<1>2. Occupancy' /\ DeliveredInOrder' /\ Room' /\ Snapshot'
  BY DEF Occupancy, DeliveredInOrder, Room, Snapshot, Dist
<1>3. Contents'
  <2> SUFFICES ASSUME NEW i \in Slots, Dist(tail, i) < Dist(tail, head)
               PROVE  buf'[i] = published[Len(drained) + Dist(tail, i) + 1]
    BY DEF Contents, Dist
  <2>1. i # head
    BY <1>1
  <2> QED
    BY <2>1 DEF Contents
<1>4. CopyOK'
  <2>1. CASE task = "delay"
    BY <2>1 DEF CopyOK
  <2>2. CASE task # "delay"
    <3>1. tail # head
      BY <1>1, <2>2, DistFacts DEF Snapshot, TypeOK
    <3> QED
      BY <1>1, <3>1 DEF CopyOK
  <2> QED
    BY <2>1, <2>2
<1> QED
  BY <1>2, <1>3, <1>4

LEMMA PublishKeepsIInv == IInv /\ TypeOK' /\ Publish => IInv'
<1> SUFFICES ASSUME IInv, TypeOK', Publish PROVE IInv'
  OBVIOUS
<1> USE DEF IInv, taskVars
<1>1. /\ head \in Slots /\ tail \in Slots /\ seen \in Slots
      /\ published \in Seq(Samples) /\ drained \in Seq(Samples)
      /\ buf \in [Slots -> Samples]
  BY DEF TypeOK
<1>2. head' = NextIndex(head) /\ NextIndex(head) # tail
  BY DEF Publish, Room
<1>3. Dist(tail, head') = Dist(tail, head) + 1
  BY <1>1, <1>2, DistToNext
<1>4. /\ Len(published') = Len(published) + 1
      /\ published'[Len(published) + 1] = buf[head]
      /\ \A k \in 1 .. Len(published) : published'[k] = published[k]
  BY <1>1, AppendProperties DEF Publish
<1>5. Len(published) \in Nat /\ Len(drained) \in Nat /\ Dist(tail, head) \in Nat
  BY <1>1, DistFacts
<1>6. UNCHANGED <<buf, tail, task, seen, copy, drained>> /\ isr' = "count_total"
  BY DEF Publish
<1>7. \A t, h \in Slots : Dist(t, h)' = Dist(t', h')
  BY DEF Dist
<1>8. Occupancy'
  BY <1>3, <1>4, <1>5, <1>6 DEF Occupancy, Dist
<1>9. Contents'
  <2> SUFFICES ASSUME NEW i \in Slots, Dist(tail, i) < Dist(tail, head')
               PROVE  buf[i] = published'[Len(drained) + Dist(tail, i) + 1]
    BY <1>6 DEF Contents, Dist
  <2>1. Dist(tail, i) \in Nat
    BY <1>1, DistFacts
  <2>2. CASE i = head
    BY <1>4, <1>5, <2>2 DEF Occupancy
  <2>3. CASE i # head
    <3>1. Dist(tail, i) # Dist(tail, head)
      BY <1>1, <2>3, DistFacts
    <3>2. Dist(tail, i) < Dist(tail, head)
      BY <1>3, <1>5, <2>1, <3>1
    <3>3. Len(drained) + Dist(tail, i) + 1 \in 1 .. Len(published)
      BY <1>5, <2>1, <3>2 DEF Occupancy
    <3> QED
      BY <1>4, <3>2, <3>3 DEF Contents
  <2> QED
    BY <2>2, <2>3
<1>10. DeliveredInOrder'
  BY <1>4, <1>5, <1>6 DEF DeliveredInOrder
<1>11. Snapshot'
  <2>1. Dist(tail, seen) \in Nat
    BY <1>1, DistFacts
  <2> QED
    BY <1>3, <1>5, <1>6, <2>1 DEF Snapshot, Dist
<1>12. CopyOK' /\ Room'
  BY <1>6 DEF CopyOK, Room
<1> QED
  BY <1>8, <1>9, <1>10, <1>11, <1>12

\* Storing tail frees the slot whose contents the task has copied.
LEMMA AdvanceKeepsIInv == IInv /\ TypeOK' /\ Advance => IInv'
<1> SUFFICES ASSUME IInv, TypeOK', Advance PROVE IInv'
  OBVIOUS
<1> USE DEF IInv, isrVars
<1>1. /\ head \in Slots /\ tail \in Slots /\ seen \in Slots
      /\ published \in Seq(Samples) /\ drained \in Seq(Samples)
  BY DEF TypeOK
<1>2. /\ tail # seen /\ copy = buf[tail]
      /\ Dist(tail, seen) <= Dist(tail, head)
      /\ tail' = NextIndex(tail)
      /\ UNCHANGED <<buf, seen, copy, head, isr, published>>
  BY DEF Advance, Snapshot, CopyOK
<1>3. /\ Dist(tail, seen) \in Nat /\ Dist(tail, seen) # 0
      /\ Dist(tail, head) \in Nat /\ tail # head
  BY <1>1, <1>2, DistFacts
<1>4. /\ Dist(tail', head) = Dist(tail, head) - 1
      /\ Dist(tail', seen) = Dist(tail, seen) - 1
  BY <1>1, <1>2, <1>3, DistFromNext
<1>5. /\ Len(drained') = Len(drained) + 1
      /\ drained'[Len(drained) + 1] = copy
      /\ \A k \in 1 .. Len(drained) : drained'[k] = drained[k]
  BY <1>1, AppendProperties DEF Advance, TypeOK
<1>6. Len(published) \in Nat /\ Len(drained) \in Nat
  BY <1>1
<1>7. Occupancy'
  BY <1>2, <1>3, <1>4, <1>5, <1>6 DEF Occupancy, Dist
<1>8. Contents'
  <2> SUFFICES ASSUME NEW i \in Slots, Dist(tail', i) < Dist(tail', head)
               PROVE  buf[i] = published[Len(drained') + Dist(tail', i) + 1]
    BY <1>2 DEF Contents, Dist
  <2>1. i # tail
    <3>1. tail' \in Slots /\ NextIndex(tail) \in Slots
      BY <1>1, <1>2, NextIndexInSlots
    <3>2. Dist(NextIndex(tail), tail) = Capacity - 1
      BY <1>1, NextIndexWraps, CapacityAssumption DEF Dist, Slots
    <3>3. Dist(tail', head) \in 0 .. Capacity - 1
      BY <1>1, <3>1, DistFacts
    <3> QED
      BY <1>2, <3>2, <3>3, CapacityAssumption
  <2>2. Dist(tail', i) = Dist(tail, i) - 1 /\ Dist(tail, i) \in Nat
    BY <1>1, <1>2, <2>1, DistFromNext, DistFacts
  <2>3. Dist(tail, i) < Dist(tail, head)
    BY <1>3, <1>4, <2>2
  <2>4. Len(drained') + Dist(tail', i) + 1 = Len(drained) + Dist(tail, i) + 1
    BY <1>5, <1>6, <2>2
  <2> QED
    BY <2>3, <2>4 DEF Contents
<1>9. DeliveredInOrder'
  <2>1. copy = published[Len(drained) + 1]
    <3>1. Dist(tail, tail) = 0
      BY <1>1, DistFacts
    <3>2. Dist(tail, tail) < Dist(tail, head)
      BY <1>3, <3>1, DistFacts, <1>1
    <3> QED
      BY <1>1, <1>2, <1>6, <3>1, <3>2 DEF Contents
  <2>2. Len(drained') <= Len(published)
    BY <1>3, <1>5, <1>6, <1>1, DistFacts DEF Occupancy
  <2> QED
    BY <1>2, <1>5, <1>6, <2>1, <2>2 DEF DeliveredInOrder
<1>10. Snapshot'
  <2>1. CASE NextIndex(tail) # seen
    BY <1>2, <1>3, <1>4, <2>1 DEF Snapshot, Dist
  <2>2. CASE NextIndex(tail) = seen
    BY <2>2 DEF Snapshot, Advance
  <2> QED
    BY <2>1, <2>2
<1>11. Room'
  <2>1. SUFFICES ASSUME Room, isr \in {"walk", "span", "count_spanned", "publish"}
                 PROVE  NextIndex(head) # tail'
    BY <1>2 DEF Room, NextIndex
  <2>2. ASSUME NextIndex(head) = tail' PROVE FALSE
    <3>1. tail' \in Slots
      BY <1>1, <1>2, NextIndexInSlots
    <3>2. Dist(tail', head) = Capacity - 1
      BY <1>1, <2>2, <3>1, FullRing
    <3>3. Dist(tail, head) \in 0 .. Capacity - 1
      BY <1>1, DistFacts
    <3> QED
      BY <1>4, <3>2, <3>3, CapacityAssumption
  <2> QED
    BY <2>2
<1>12. CopyOK'
  BY DEF CopyOK, Advance
<1> QED
  BY <1>7, <1>8, <1>9, <1>10, <1>11, <1>12

\* The two reads of the slot, with the snapshot and the indices left alone.
LEMMA ReadKeepsIInv ==
    IInv /\ TypeOK' /\ (AggregateStack \/ AggregateSpan) => IInv'
<1> SUFFICES ASSUME IInv, TypeOK', AggregateStack \/ AggregateSpan PROVE IInv'
  OBVIOUS
<1> USE DEF IInv, isrVars
<1>1. /\ UNCHANGED <<head, tail, buf, isr, seen, published, drained>>
      /\ task # "delay"
  BY DEF AggregateStack, AggregateSpan
<1>2. Occupancy' /\ Contents' /\ Room' /\ DeliveredInOrder' /\ Snapshot'
  BY <1>1 DEF Occupancy, Contents, Room, DeliveredInOrder, Snapshot, Dist, NextIndex
<1>3. CopyOK'
  <2>1. copy \in Samples /\ buf[tail] \in Samples
    BY DEF TypeOK
  <2>2. CASE AggregateStack
    BY <2>1, <2>2 DEF CopyOK, AggregateStack, Samples
  <2>3. CASE AggregateSpan
    <3>1. copy' = [copy EXCEPT !.span = buf[tail].span] /\ copy.stack = buf[tail].stack
      BY <2>3 DEF AggregateSpan, CopyOK
    <3>2. copy' = buf[tail]
      BY <2>1, <3>1 DEF Samples
    <3> QED
      BY <2>3, <3>2, <1>1 DEF CopyOK, AggregateSpan
  <2> QED
    BY <2>2, <2>3
<1> QED
  BY <1>2, <1>3

\* Steps that change at most the program counters, the snapshot of head and
\* the counters.
LEMMA ControlKeepsIInv ==
    ASSUME IInv, TypeOK',
           UNCHANGED <<head, tail, buf, copy, published, drained>>,
           \/ UNCHANGED <<isr, task, seen>>
           \/ OnTimer \/ CountSpanned \/ CountTotal \/ BeginDrain
    PROVE  IInv'
<1> USE DEF IInv, isrVars, taskVars
<1>1. Occupancy' /\ Contents' /\ DeliveredInOrder'
  BY DEF Occupancy, Contents, DeliveredInOrder, Dist
<1>2. Room'
  BY DEF Room, NextIndex, HasRoom, OnTimer, CountSpanned, CountTotal, BeginDrain
<1>3. Snapshot' /\ CopyOK'
  <2>1. CASE BeginDrain
    <3>1. seen' = head /\ Dist(tail, head) \in Nat
      BY <2>1, DistFacts DEF BeginDrain, TypeOK
    <3> QED
      BY <2>1, <3>1 DEF Snapshot, CopyOK, Dist, BeginDrain
  <2>2. CASE UNCHANGED <<task, seen>>
    BY <2>2 DEF Snapshot, CopyOK, Dist
  <2>3. OnTimer \/ CountSpanned \/ CountTotal => UNCHANGED <<task, seen>>
    BY DEF OnTimer, CountSpanned, CountTotal
  <2> QED
    BY <2>1, <2>2, <2>3
<1> QED
  BY <1>1, <1>2, <1>3

\* IInv is an invariant: it holds initially and every step preserves it.
THEOREM Inductive == Spec => []IInv
<1>1. IInv /\ TypeOK' /\ [Next]_vars => IInv'
  <2> SUFFICES ASSUME IInv, TypeOK', [Next]_vars PROVE IInv'
    OBVIOUS
  <2>1. CASE OnTimer
    BY <2>1, ControlKeepsIInv DEF OnTimer, taskVars
  <2>2. CASE WalkStack
    BY <2>2, FillKeepsIInv DEF WalkStack, IInv, TypeOK
  <2>3. CASE ReadSpan
    BY <2>3, FillKeepsIInv DEF ReadSpan, IInv, TypeOK
  <2>4. CASE CountSpanned
    BY <2>4, ControlKeepsIInv DEF CountSpanned, taskVars
  <2>5. CASE Publish
    BY <2>5, PublishKeepsIInv
  <2>6. CASE CountTotal
    BY <2>6, ControlKeepsIInv DEF CountTotal, taskVars
  <2>7. CASE BeginDrain
    BY <2>7, ControlKeepsIInv DEF BeginDrain, isrVars
  <2>8. CASE AggregateStack \/ AggregateSpan
    BY <2>8, ReadKeepsIInv
  <2>9. CASE Advance
    BY <2>9, AdvanceKeepsIInv
  <2>10. CASE UNCHANGED vars
    BY <2>10, ControlKeepsIInv DEF vars
  <2> QED
    BY <2>1, <2>2, <2>3, <2>4, <2>5, <2>6, <2>7, <2>8, <2>9, <2>10
       DEF Next, Interrupt, Drain
<1> QED
  BY <1>1, InitIInv, TypeCorrect, PTL DEF Spec

\* Every sample is aggregated once, whole and in order.
THEOREM Delivery == Spec => []DeliveredInOrder
<1>1. IInv => DeliveredInOrder
  BY DEF IInv
<1> QED
  BY <1>1, Inductive, PTL

\* The interrupt and the export task never touch the same slot.
THEOREM RaceFreedom == Spec => []NoDataRace
<1>1. IInv => NoDataRace
  <2> SUFFICES ASSUME IInv PROVE NoDataRace
    OBVIOUS
  <2>1. CASE Reading = {}
    BY <2>1 DEF NoDataRace, IInv
  <2>2. CASE Reading # {}
    <3>1. task # "delay" /\ Reading = {tail}
      BY <2>2 DEF Reading
    <3>2. /\ head \in Slots /\ tail \in Slots /\ seen \in Slots
          /\ tail # seen /\ Dist(tail, seen) <= Dist(tail, head)
      BY <3>1 DEF IInv, TypeOK, Snapshot
    <3>3. tail # head
      BY <3>2, DistFacts
    <3> QED
      BY <3>1, <3>3 DEF NoDataRace, Writing, IInv
  <2> QED
    BY <2>1, <2>2
<1> QED
  BY <1>1, Inductive, PTL

\* The ring refuses a sample only when Capacity - 1 samples wait in it.
THEOREM DropsOnlyWhenFull == Spec => DropOnlyWhenFull
<1>1. IInv /\ [Next]_vars => [dropped' # dropped => Pending = Capacity - 1]_vars
  <2> SUFFICES ASSUME IInv, Next, dropped' # dropped
               PROVE  Pending = Capacity - 1
    OBVIOUS
  <2>1. OnTimer
    BY DEF Next, Interrupt, Drain, WalkStack, ReadSpan, CountSpanned, Publish,
           CountTotal, BeginDrain, AggregateStack, AggregateSpan, Advance, isrVars
  <2>2. NextIndex(head) = tail
    BY <2>1 DEF OnTimer, HasRoom
  <2>3. Dist(tail, head) = Capacity - 1
    BY <2>2, FullRing DEF IInv, TypeOK
  <2> QED
    BY <2>3 DEF IInv, Occupancy, Pending
<1> QED
  BY <1>1, Inductive, PTL DEF Spec, DropOnlyWhenFull

-----------------------------------------------------------------------------
(* Refinement *)

\* A window on a sequence that grows at its end grows at its end.
LEMMA SuffixOfAppend ==
    ASSUME NEW S, NEW seq \in Seq(S), NEW e \in S, NEW d \in 0 .. Len(seq)
    PROVE  SubSeq(Append(seq, e), d + 1, Len(seq) + 1)
             = Append(SubSeq(seq, d + 1, Len(seq)), e)
<1> DEFINE big == Append(seq, e)
           w   == SubSeq(seq, d + 1, Len(seq))
           l   == SubSeq(big, d + 1, Len(seq) + 1)
<1>0. Len(seq) \in Nat
  OBVIOUS
<1>1. /\ big \in Seq(S) /\ Len(big) = Len(seq) + 1
      /\ \A i \in 1 .. Len(seq) : big[i] = seq[i]
      /\ big[Len(seq) + 1] = e
  BY AppendProperties
<1>2. \A i \in d + 1 .. Len(seq) : seq[i] \in S
  BY <1>0, ElementOfSeq
<1>3. \A i \in d + 1 .. Len(seq) + 1 : big[i] \in S
  BY <1>0, <1>1, ElementOfSeq
<1> HIDE DEF big
<1>4. /\ w \in Seq(S) /\ Len(w) = Len(seq) - d
      /\ \A i \in 1 .. Len(seq) - d : w[i] = seq[d + i]
  BY <1>0, <1>2, SubSeqProperties
<1>5. /\ l \in Seq(S) /\ Len(l) = Len(seq) + 1 - d
      /\ \A i \in 1 .. Len(seq) + 1 - d : l[i] = big[d + i]
  BY <1>0, <1>3, SubSeqProperties
<1> HIDE DEF w, l
<1>6. /\ Append(w, e) \in Seq(S) /\ Len(Append(w, e)) = Len(w) + 1
      /\ \A i \in 1 .. Len(w) : Append(w, e)[i] = w[i]
      /\ Append(w, e)[Len(w) + 1] = e
  BY <1>4, AppendProperties
<1>7. \A i \in 1 .. Len(l) : l[i] = Append(w, e)[i]
  <2> SUFFICES ASSUME NEW i \in 1 .. Len(l) PROVE l[i] = Append(w, e)[i]
    OBVIOUS
  <2>1. l[i] = big[d + i]
    BY <1>5
  <2>4. \/ i \in 1 .. Len(seq) - d
        \/ i = Len(seq) - d + 1
    <3>1. i \in 1 .. Len(seq) + 1 - d
      BY <1>5
    <3> HIDE DEF l
    <3> QED BY <1>0, <3>1
  <2>2. CASE i \in 1 .. Len(seq) - d
    <3>1. Append(w, e)[i] = w[i] /\ w[i] = seq[d + i]
      BY <1>4, <1>6, <2>2
    <3>2. d + i \in 1 .. Len(seq)
      BY <1>0, <2>2
    <3> QED BY <1>1, <2>1, <3>1, <3>2
  <2>3. CASE i = Len(seq) - d + 1
    <3>1. Append(w, e)[i] = e
      BY <1>4, <1>6, <2>3
    <3>2. d + i = Len(seq) + 1
      BY <1>0, <2>3
    <3> QED BY <1>1, <2>1, <3>1, <3>2
  <2> QED BY <2>2, <2>3, <2>4
<1>8. l \in Seq(S) /\ Append(w, e) \in Seq(S)
  BY <1>5, <1>6
<1>9. Len(l) = Len(Append(w, e))
  BY <1>0, <1>4, <1>5, <1>6
<1>10. l = Append(w, e)
  BY <1>7, <1>8, <1>9, SeqEqual
<1> QED
  BY <1>10 DEF l, w, big

\* The samples in the ring, seen as a queue.
LEMMA QueueLength ==
    ASSUME IInv
    PROVE  Len(SubSeq(published, Len(drained) + 1, Len(published))) = Dist(tail, head)
<1>1. /\ published \in Seq(Samples) /\ drained \in Seq(Samples)
      /\ Len(published) \in Nat /\ Len(drained) \in Nat
  BY DEF IInv, TypeOK
<1>2. \A i \in Len(drained) + 1 .. Len(published) : published[i] \in Samples
  BY <1>1, ElementOfSeq
<1> QED
  BY <1>1, <1>2, SubSeqProperties DEF IInv, Occupancy

\* Storing head hands the queue a sample, which it has room for.
LEMMA PublishAccepts == IInv /\ Publish => \E s \in Samples : Queue!Accept(s)
<1> SUFFICES ASSUME IInv, Publish PROVE Queue!Accept(buf[head])
  BY DEF IInv, TypeOK
<1> DEFINE q == SubSeq(published, Len(drained) + 1, Len(published))
<1>1. /\ head \in Slots /\ tail \in Slots /\ buf[head] \in Samples
      /\ published \in Seq(Samples) /\ drained \in Seq(Samples)
  BY DEF IInv, TypeOK
<1>2. Len(q) < Capacity - 1
  <2>1. NextIndex(head) # tail /\ NextIndex(head) \in Slots
    BY <1>1, NextIndexInSlots DEF IInv, Room, Publish
  <2>2. /\ Dist(tail, NextIndex(head)) = Dist(tail, head) + 1
        /\ Dist(tail, NextIndex(head)) \in 0 .. Capacity - 1
        /\ Dist(tail, head) \in 0 .. Capacity - 1
    BY <1>1, <2>1, DistToNext, DistFacts
  <2>3. Len(q) = Dist(tail, head)
    BY QueueLength
  <2> QED
    BY <2>2, <2>3, CapacityAssumption
<1>3. q' = Append(q, buf[head])
  <2>1. /\ published' = Append(published, buf[head]) /\ drained' = drained
        /\ Len(published') = Len(published) + 1
    BY <1>1, AppendProperties DEF Publish, taskVars
  <2>2. Len(drained) \in 0 .. Len(published)
    BY <1>1 DEF IInv, Occupancy
  <2> QED
    BY <1>1, <2>1, <2>2, SuffixOfAppend
<1>4. UNCHANGED <<drained, dropped>>
  BY DEF Publish, taskVars
<1> QED
  BY <1>2, <1>3, <1>4 DEF Queue!Accept

\* Storing tail takes the oldest sample from the queue.
LEMMA AdvanceConsumes == IInv /\ Advance => Queue!Consume
<1> SUFFICES ASSUME IInv, Advance PROVE Queue!Consume
  OBVIOUS
<1> DEFINE d == Len(drained)
           n == Len(published)
           q == SubSeq(published, d + 1, n)
<1>1. /\ head \in Slots /\ tail \in Slots /\ seen \in Slots /\ copy \in Samples
      /\ published \in Seq(Samples) /\ drained \in Seq(Samples)
      /\ d \in Nat /\ n \in Nat
  BY DEF IInv, TypeOK
<1>2. /\ copy = buf[tail] /\ drained' = Append(drained, copy)
      /\ UNCHANGED <<published, dropped>>
      /\ tail # seen /\ Dist(tail, seen) <= Dist(tail, head)
  BY DEF IInv, CopyOK, Snapshot, Advance, isrVars
<1>3. /\ Dist(tail, head) = n - d /\ Dist(tail, head) > 0
      /\ Dist(tail, tail) = 0
  BY <1>1, <1>2, DistFacts DEF IInv, Occupancy
<1>4. copy = published[d + 1]
  BY <1>1, <1>2, <1>3 DEF IInv, Contents
<1>5. Head(q) = published[d + 1] /\ Tail(q) = SubSeq(published, d + 2, n)
  <2>1. d + 1 \in 1 .. n /\ n \in d + 1 .. n /\ (d + 1) + 1 = d + 2
    BY <1>1, <1>3
  <2> QED
    BY <1>1, <2>1, HeadTailOfSubSeq
<1>6. Len(drained') = d + 1
  BY <1>1, <1>2, AppendProperties
<1>7. q' = Tail(q)
  <2>1. Len(drained') + 1 = d + 2 /\ published' = published
    BY <1>1, <1>2, <1>6
  <2>2. q' = SubSeq(published', Len(drained') + 1, Len(published'))
    OBVIOUS
  <2> QED
    BY <1>5, <2>1, <2>2
<1>8. q # <<>>
  <2>1. Len(q) = Dist(tail, head)
    BY QueueLength
  <2>2. Len(q) # 0
    BY <1>1, <1>3, <2>1
  <2> HIDE DEF q
  <2> QED
    BY <2>2, EmptySeq
<1> QED
  BY <1>2, <1>4, <1>5, <1>7, <1>8 DEF Queue!Consume

\* The ring is a bounded queue that loses a sample only by refusing it when
\* full: every step of the code is a step of the queue or none.
THEOREM Refinement == Spec => ImplementsQueue
<1>1. Init => Queue!Init
  <2> SUFFICES ASSUME Init PROVE Queue!Init
    OBVIOUS
  <2>1. SubSeq(published, Len(drained) + 1, Len(published)) = <<>>
    BY SubSeqEmpty DEF Init
  <2> QED
    BY <2>1 DEF Init, Queue!Init
<1>2. IInv /\ [Next]_vars => [Queue!Next]_(Queue!qvars)
  <2> SUFFICES ASSUME IInv, [Next]_vars PROVE [Queue!Next]_(Queue!qvars)
    OBVIOUS
  <2>1. CASE Publish
    BY <2>1, PublishAccepts DEF Queue!Next
  <2>2. CASE Advance
    BY <2>2, AdvanceConsumes DEF Queue!Next
  <2>3. CASE OnTimer /\ NextIndex(head) = tail
    <3>1. Dist(tail, head) = Capacity - 1
      BY <2>3, FullRing DEF IInv, TypeOK
    <3>2. Queue!Refuse
      BY <2>3, <3>1, QueueLength DEF OnTimer, HasRoom, Queue!Refuse, taskVars
    <3> QED
      BY <3>2 DEF Queue!Next
  <2>4. CASE OnTimer /\ NextIndex(head) # tail
    BY <2>4 DEF OnTimer, HasRoom, Queue!qvars, taskVars
  <2>5. CASE WalkStack \/ ReadSpan \/ CountSpanned \/ CountTotal
    BY <2>5 DEF WalkStack, ReadSpan, CountSpanned, CountTotal, Queue!qvars, taskVars
  <2>6. CASE BeginDrain \/ AggregateStack \/ AggregateSpan
    BY <2>6 DEF BeginDrain, AggregateStack, AggregateSpan, Queue!qvars, isrVars
  <2>7. CASE UNCHANGED vars
    BY <2>7 DEF vars, Queue!qvars
  <2> QED
    BY <2>1, <2>2, <2>3, <2>4, <2>5, <2>6, <2>7 DEF Next, Interrupt, Drain
<1> QED
  BY <1>1, <1>2, Inductive, PTL DEF Spec, ImplementsQueue, Queue!Spec
-----------------------------------------------------------------------------
(* The counters *)

LEMMA DivMod ==
    ASSUME NEW m \in Int, m > 0, NEW x \in Int
    PROVE  x % m = x - m * (x \div m) /\ x \div m \in Int /\ x % m \in 0 .. m - 1
<1>1. x % m = x - m * (x \div m)
  BY SMT
<1> QED
  BY <1>1, SMT

LEMMA Remainder ==
    ASSUME NEW m \in Int, m > 0, NEW q \in Int, NEW r \in 0 .. m - 1
    PROVE  (m * q + r) % m = r
BY SMT

\* A counter that wraps counts modulo its width.
LEMMA WrappedSuccessor ==
    ASSUME NEW m \in Int, m > 0, NEW x \in Int
    PROVE  ((x % m) + 1) % m = (x + 1) % m
<1> DEFINE q == x \div m
           r == x % m
<1>1. q \in Int /\ r \in 0 .. m - 1 /\ r = x - m * q
  BY DivMod
<1> HIDE DEF q, r
<1>2. m * q \in Int /\ m * (q + 1) = m * q + m /\ m * 0 = 0 /\ m * 1 = m
  BY <1>1
<1>3. x + 1 = m * q + (r + 1)
  BY <1>1, <1>2
<1>4. CASE r + 1 < m
  <2>1. r + 1 \in 0 .. m - 1
    BY <1>1, <1>4
  <2> DEFINE s == r + 1
  <2> HIDE DEF s
  <2>2. (m * q + s) % m = s /\ (m * 0 + s) % m = s
    <3>1. s \in 0 .. m - 1
      BY <2>1 DEF s
    <3> QED
      BY <1>1, <3>1, Remainder
  <2>3. m * 0 + s = s /\ x + 1 = m * q + s
    BY <1>1, <1>2, <1>3 DEF s
  <2> QED
    BY <2>2, <2>3 DEF r, s
<1>5. CASE r + 1 = m
  <2>1. (m * (q + 1) + 0) % m = 0 /\ (m * 1 + 0) % m = 0
    BY <1>1, Remainder
  <2>2. x + 1 = m * (q + 1) + 0 /\ r + 1 = m * 1 + 0
    BY <1>1, <1>2, <1>3, <1>5
  <2> QED
    BY <2>1, <2>2 DEF r
<1> QED
  BY <1>1, <1>4, <1>5

\* One more sample is one more spanned sample if it has a span.
LEMMA SpannedAppend ==
    ASSUME NEW seq \in Seq(Samples), NEW e \in Samples
    PROVE  /\ SpannedAmong(seq) \in Nat
           /\ SpannedAmong(Append(seq, e))
                = SpannedAmong(seq) + (IF e.span # NoSpan THEN 1 ELSE 0)
<1> DEFINE n      == Len(seq)
           old    == {k \in 1 .. n : seq[k].span # NoSpan}
           big    == Append(seq, e)
           new    == {k \in 1 .. Len(big) : big[k].span # NoSpan}
<1>1. n \in Nat /\ Len(big) = n + 1 /\ big[n + 1] = e /\ \A k \in 1 .. n : big[k] = seq[k]
  BY AppendProperties
<1>2. IsFiniteSet(1 .. n)
  BY <1>1, FS_Interval
<1>3. IsFiniteSet(old) /\ Cardinality(old) \in Nat
  BY <1>2, FS_Subset, FS_CardinalityType
<1>4. n + 1 \notin old
  BY <1>1
<1>5. new = IF e.span # NoSpan THEN old \cup {n + 1} ELSE old
  <2> HIDE DEF big
  <2>1. \A k : k \in 1 .. n + 1 <=> k \in 1 .. n \/ k = n + 1
    BY <1>1
  <2> QED
    BY <1>1, <2>1
<1>6. Cardinality(new) = Cardinality(old) + (IF e.span # NoSpan THEN 1 ELSE 0)
  <2> HIDE DEF old, new
  <2>1. Cardinality(old \cup {n + 1}) = Cardinality(old) + 1
    BY <1>3, <1>4, FS_AddElement
  <2> QED
    BY <1>3, <1>5, <2>1
<1> QED
  BY <1>3, <1>6 DEF SpannedAmong

\* The counters inside the interrupt: between the store of head and its own
\* count the total is one behind, and between its count and the store of head
\* a spanned sample is one ahead.
Counting ==
    /\ total = (Len(published) - (IF isr = "count_total" THEN 1 ELSE 0)) % CounterModulus
    /\ spanned = (SpannedAmong(published)
                    + (IF isr = "publish" /\ buf[head].span # NoSpan THEN 1 ELSE 0))
                      % CounterModulus

LEMMA CountingUnchanged ==
    ASSUME Counting, UNCHANGED <<head, buf, isr, total, spanned, published>>
    PROVE  Counting'
BY DEF Counting, SpannedAmong

LEMMA CountSpannedKeepsCounting ==
    ASSUME TypeOK, Counting, CountSpanned
    PROVE  Counting'
<1>1. SpannedAmong(published) \in Nat /\ SpannedAmong(published)' = SpannedAmong(published)
  <2>1. PICK e \in Samples : TRUE
    BY DEF TypeOK
  <2> QED
    BY <2>1, SpannedAppend DEF TypeOK, CountSpanned, SpannedAmong
<1>2. /\ total' = total /\ published' = published /\ head' = head /\ buf' = buf
      /\ isr = "count_spanned" /\ isr' = "publish"
  BY DEF CountSpanned
<1>3. total' = (Len(published) - 0) % CounterModulus /\ spanned = SpannedAmong(published) % CounterModulus
  BY <1>1, <1>2 DEF Counting
<1>4. CASE buf[head].span # NoSpan
  <2>1. spanned' = ((SpannedAmong(published) % CounterModulus) + 1) % CounterModulus
    BY <1>3, <1>4 DEF CountSpanned
  <2>2. spanned' = (SpannedAmong(published) + 1) % CounterModulus
    <3>1. CounterModulus \in Int /\ CounterModulus > 0 /\ SpannedAmong(published) \in Int
      BY <1>1, CounterAssumption
    <3> QED
      BY <2>1, <3>1, WrappedSuccessor, Zenon
  <2> QED
    BY <1>1, <1>2, <1>3, <1>4, <2>2 DEF Counting
<1>5. CASE buf[head].span = NoSpan
  <2>1. spanned' = (SpannedAmong(published) + 0) % CounterModulus
    BY <1>1, <1>3, <1>5 DEF CountSpanned
  <2> QED
    BY <1>1, <1>2, <1>3, <1>5, <2>1 DEF Counting
<1> QED
  BY <1>4, <1>5

LEMMA PublishKeepsCounting ==
    ASSUME TypeOK, Counting, Publish
    PROVE  Counting'
<1>1. buf[head] \in Samples /\ published \in Seq(Samples)
  BY DEF TypeOK
<1>2. /\ total' = total /\ spanned' = spanned /\ published' = Append(published, buf[head])
      /\ isr = "publish" /\ isr' = "count_total"
  BY DEF Publish
<1>3. Len(published) \in Nat /\ Len(published') = Len(published) + 1
  BY <1>1, <1>2, AppendProperties
<1>4. total' = (Len(published') - 1) % CounterModulus
  <2>1. total = (Len(published) - 0) % CounterModulus
    BY <1>2 DEF Counting
  <2>2. Len(published) - 0 = Len(published') - 1
    BY <1>3
  <2> QED
    BY <1>2, <2>1, <2>2
<1>5. spanned' = (SpannedAmong(published') + 0) % CounterModulus
  <2>1. /\ SpannedAmong(published')
             = SpannedAmong(published) + (IF buf[head].span # NoSpan THEN 1 ELSE 0)
        /\ SpannedAmong(published) \in Nat
    BY <1>1, <1>2, SpannedAppend
  <2>2. SpannedAmong(published') + 0 = SpannedAmong(published')
    BY <2>1
  <2> QED
    BY <1>2, <2>1, <2>2 DEF Counting
<1> QED
  BY <1>2, <1>4, <1>5 DEF Counting, SpannedAmong

LEMMA CountTotalKeepsCounting ==
    ASSUME TypeOK, Counting, CountTotal
    PROVE  Counting'
<1>1. /\ spanned' = spanned /\ published' = published /\ head' = head /\ buf' = buf
      /\ isr = "count_total" /\ isr' = "idle" /\ total' = (total + 1) % CounterModulus
  BY DEF CountTotal
<1>2. Len(published) \in Nat
  BY DEF TypeOK
<1>3. total' = (Len(published) - 0) % CounterModulus
  <2>1. total = (Len(published) - 1) % CounterModulus
    BY <1>1 DEF Counting
  <2> DEFINE k == Len(published) - 1
  <2>2. k \in Int /\ k + 1 = Len(published) - 0
    BY <1>2
  <2> HIDE DEF k
  <2>3. ((k % CounterModulus) + 1) % CounterModulus = (k + 1) % CounterModulus
    <3>1. CounterModulus \in Int /\ CounterModulus > 0
      BY CounterAssumption
    <3> QED
      BY <2>2, <3>1, WrappedSuccessor, Zenon
  <2>4. total = k % CounterModulus
    BY <2>1 DEF k
  <2> QED
    BY <1>1, <2>2, <2>3, <2>4
<1>4. spanned' = (SpannedAmong(published) + 0) % CounterModulus
  BY <1>1 DEF Counting
<1> QED
  BY <1>1, <1>3, <1>4 DEF Counting, SpannedAmong

\* Outside the interrupt both counters are exact, however often they wrapped.
THEOREM CountersAreExact == Spec => []CountersAgree
<1>1. Init => Counting
  <2> SUFFICES ASSUME Init PROVE Counting
    OBVIOUS
  <2>1. SpannedAmong(<<>>) = 0
    BY FS_EmptySet DEF SpannedAmong
  <2>2. 0 % CounterModulus = 0
    BY CounterAssumption
  <2> QED
    BY <2>1, <2>2 DEF Init, Counting
<1>2. TypeOK /\ Counting /\ [Next]_vars => Counting'
  <2> SUFFICES ASSUME TypeOK, Counting, [Next]_vars PROVE Counting'
    OBVIOUS
  <2>1. CASE OnTimer \/ WalkStack \/ ReadSpan
    <3>1. /\ isr \notin {"publish", "count_total"} /\ isr' \notin {"publish", "count_total"}
          /\ UNCHANGED <<total, spanned, published>>
      BY <2>1 DEF OnTimer, WalkStack, ReadSpan
    <3> QED
      BY <3>1 DEF Counting, SpannedAmong
  <2>2. CASE CountSpanned
    BY <2>2, CountSpannedKeepsCounting
  <2>3. CASE Publish
    BY <2>3, PublishKeepsCounting
  <2>4. CASE CountTotal
    BY <2>4, CountTotalKeepsCounting
  <2>5. CASE Drain \/ UNCHANGED vars
    BY <2>5, CountingUnchanged
       DEF Drain, BeginDrain, AggregateStack, AggregateSpan, Advance, isrVars, vars
  <2> QED
    BY <2>1, <2>2, <2>3, <2>4, <2>5 DEF Next, Interrupt
<1>3. TypeOK /\ Counting => CountersAgree
  <2> SUFFICES ASSUME TypeOK, Counting, isr = "idle" PROVE CountersAgree
    BY DEF CountersAgree
  <2>1. PICK e \in Samples : TRUE
    BY DEF TypeOK
  <2>2. Len(published) - 0 = Len(published)
        /\ SpannedAmong(published) + 0 = SpannedAmong(published)
    BY <2>1, SpannedAppend DEF TypeOK
  <2> QED
    BY <2>2 DEF Counting, CountersAgree
<1> QED
  BY <1>1, <1>2, <1>3, TypeCorrect, PTL DEF Spec
=============================================================================
