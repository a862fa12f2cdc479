--------------------------- MODULE SpanSlot_proofs ---------------------------
(***************************************************************************)
(* Proofs about SpanSlot, for every set of tasks, contexts and spans, every *)
(* depth of nesting and every width of the sequence number.                *)
(***************************************************************************)
EXTENDS SpanSlot, SequenceTheorems, TLAPS

\* The sequence number alternates between even and odd, over its wrap too.
LEMMA SeqAlternates ==
    ASSUME NEW n \in 0 .. SeqModulus - 1
    PROVE  /\ NextSeq(n) \in 0 .. SeqModulus - 1
           /\ n % 2 = 0 => NextSeq(n) % 2 = 1
           /\ n % 2 = 1 => NextSeq(n) % 2 = 0
<1>1. CASE n + 1 < SeqModulus
  <2>1. NextSeq(n) = n + 1
    BY <1>1, ModulusAssumption DEF NextSeq
  <2> QED
    BY <1>1, <2>1, ModulusAssumption
<1>2. CASE n + 1 = SeqModulus
  <2>1. NextSeq(n) = 0
    BY <1>2, ModulusAssumption DEF NextSeq
  <2> QED
    BY <1>2, <2>1, ModulusAssumption
<1> QED
  BY <1>1, <1>2, ModulusAssumption

\* The span of any stack of contexts is a span or none.
LEMMA CurrentSpanType ==
    ASSUME NEW t \in Tasks, stack[t] \in Seq(Contexts)
    PROVE  CurrentSpan(t) \in SpanOrNone
<1>1. CASE stack[t] = <<>>
  BY <1>1 DEF CurrentSpan, SpanOrNone
<1>2. CASE stack[t] # <<>>
  <2>1. Len(stack[t]) \in 1 .. Len(stack[t])
    BY <1>2, EmptySeq
  <2>2. stack[t][Len(stack[t])] \in Contexts
    BY <2>1, ElementOfSeq
  <2> QED
    BY <1>2, <2>2, SpanOfAssumption DEF CurrentSpan, SpanOrNone
<1> QED
  BY <1>1, <1>2

\* Detach leaves a stack of contexts.
LEMMA PoppedType ==
    ASSUME NEW s \in Seq(Contexts), NEW c, NEW p \in Popped(s, c)
    PROVE  p \in Seq(Contexts)
<1>1. CASE \A i \in 1 .. Len(s) : s[i] # c
  BY <1>1 DEF Popped
<1>2. CASE ~ \A i \in 1 .. Len(s) : s[i] # c
  <2>1. PICK i \in 1 .. Len(s) : p = SubSeq(s, 1, i - 1)
    BY <1>2 DEF Popped
  <2>2. \A j \in 1 .. i - 1 : s[j] \in Contexts
    BY <2>1, ElementOfSeq
  <2> QED
    BY <2>1, <2>2, SubSeqProperties
<1> QED
  BY <1>1, <1>2

LEMMA FreshSlotType == FreshSlot \in SlotRecords /\ FreshSlot.seq % 2 = 0
BY ModulusAssumption DEF FreshSlot, SlotRecords, SpanOrNone

-----------------------------------------------------------------------------
(* Types *)

LEMMA InitType == Init => TypeOK
BY FreshSlotType DEF Init, TypeOK, SpanOrNone

LEMMA AttachType ==
    ASSUME TypeOK, NEW t \in Tasks, NEW c \in Contexts, Attach(t, c)
    PROVE  TypeOK'
<1>1. stack[t] \in Seq(Contexts) /\ CurrentSpan(t) \in SpanOrNone
  BY CurrentSpanType DEF TypeOK
<1>2. Append(stack[t], c) \in Seq(Contexts)
  BY <1>1, AppendProperties
<1> QED
  BY <1>1, <1>2 DEF TypeOK, Attach, history

LEMMA DetachType ==
    ASSUME TypeOK, NEW t \in Tasks, NEW c \in Contexts, Detach(t, c)
    PROVE  TypeOK'
<1>1. stack[t] \in Seq(Contexts) /\ CurrentSpan(t) \in SpanOrNone
  BY CurrentSpanType DEF TypeOK
<1>2. PICK s \in Popped(stack[t], c) : stack' = [stack EXCEPT ![t] = s]
  BY DEF Detach
<1>3. s \in Seq(Contexts)
  BY <1>1, PoppedType
<1> QED
  BY <1>1, <1>2, <1>3 DEF TypeOK, Detach, history

LEMMA StampType ==
    ASSUME TypeOK, NEW t \in Tasks, Stamp(t)
    PROVE  TypeOK'
<1> DEFINE span == CurrentSpan(t)
<1>1. span \in SpanOrNone
  BY CurrentSpanType DEF TypeOK
<1>2. CASE UNCHANGED <<slotted, slot, history>>
  BY <1>2 DEF TypeOK, Stamp, history
<1>3. CASE StampKey /\ span # NoSpan /\ StampSpan(t, span)
  <2>1. slotted' \in SUBSET Tasks
    BY <1>3 DEF StampSpan, TypeOK
  <2>2. slot' \in [Tasks -> SlotRecords]
    <3>1. slot[t] \in SlotRecords
      BY DEF TypeOK
    <3>2. CASE slot' = slot
      BY <3>2 DEF TypeOK
    <3>3. CASE slot' = [slot EXCEPT ![t].last = span]
      BY <1>1, <3>1, <3>3 DEF TypeOK, SlotRecords
    <3> QED
      BY <1>3, <3>2, <3>3 DEF StampSpan
  <2>3. CASE UNCHANGED history
    BY <2>1, <2>2, <2>3 DEF TypeOK, Stamp, history
  <2>4. CASE \E found \in BOOLEAN : SetAttribute(t, span, found)
    <3>1. span \in Spans
      BY <1>1, <1>3 DEF SpanOrNone
    <3>2. PICK found \in BOOLEAN : SetAttribute(t, span, found)
      BY <2>4
    <3>3. stamped' \in SUBSET Spans /\ lastSet' \in [Tasks -> SpanOrNone]
      BY <1>1, <3>1, <3>2 DEF SetAttribute, TypeOK
    <3>4. sets' \in [Tasks -> {0, 1}]
      <4>1. sets' = [sets EXCEPT ![t] = 1 - @]
        BY <3>2, Zenon DEF SetAttribute
      <4>2. sets \in [Tasks -> {0, 1}] /\ sets[t] \in {0, 1}
        BY Zenon DEF TypeOK
      <4>3. 1 - sets[t] \in {0, 1}
        BY <4>2
      <4> QED
        BY <4>1, <4>2, <4>3, Zenon
    <3>5. forgot' \in SUBSET Tasks
      BY <3>2 DEF SetAttribute, TypeOK
    <3> QED
      BY <2>1, <2>2, <3>3, <3>4, <3>5 DEF TypeOK, Stamp
  <2> QED
    BY <1>3, <2>3, <2>4 DEF StampSpan, FindsSlot
<1> QED
  BY <1>2, <1>3 DEF Stamp

LEMMA BeginUpdateType ==
    ASSUME TypeOK, NEW t \in Tasks, BeginUpdate(t)
    PROVE  TypeOK'
<1>1. slot' \in [Tasks -> SlotRecords]
  <2>1. slot[t] \in SlotRecords /\ NextSeq(slot[t].seq) \in 0 .. SeqModulus - 1
    BY SeqAlternates DEF TypeOK, SlotRecords
  <2>2. CASE slot' = slot
    BY <2>2 DEF TypeOK
  <2>3. CASE slot' = [slot EXCEPT ![t].seq = NextSeq(@)]
    BY <2>1, <2>3 DEF TypeOK, SlotRecords
  <2> QED
    BY <2>2, <2>3 DEF BeginUpdate, Started
<1>2. todo' \in [Tasks -> SUBSET {"hi", "lo", "valid"}]
  <2>1. PICK f \in SUBSET {"hi", "lo", "valid"} :
          todo' = todo \/ todo' = [todo EXCEPT ![t] = f]
    <3>1. {"hi", "lo", "valid"} \in SUBSET {"hi", "lo", "valid"}
          /\ {"valid"} \in SUBSET {"hi", "lo", "valid"}
      OBVIOUS
    <3> QED
      BY <3>1, Zenon DEF BeginUpdate
  <2> QED
    BY <2>1, Zenon DEF TypeOK
<1>3. slotted' \in SUBSET Tasks
  BY DEF BeginUpdate, TypeOK
<1>4. pc' \in [Tasks -> {"idle", "stamp", "update", "write"}]
  <2>1. pc' = [pc EXCEPT ![t] = "write"] \/ pc' = [pc EXCEPT ![t] = "idle"]
    BY Zenon DEF BeginUpdate
  <2> QED
    BY <2>1 DEF TypeOK
<1> QED
  BY <1>1, <1>2, <1>3, <1>4 DEF TypeOK, BeginUpdate, history

LEMMA WriteType ==
    ASSUME TypeOK, NEW t \in Tasks, WriteField(t) \/ EndUpdate(t)
    PROVE  TypeOK'
<1>1. slot[t] \in SlotRecords /\ CurrentSpan(t) \in SpanOrNone
  BY CurrentSpanType DEF TypeOK
<1>2. slot' \in [Tasks -> SlotRecords]
  <2>1. CASE slot' = [slot EXCEPT ![t].hi = CurrentSpan(t)]
    BY <1>1, <2>1 DEF TypeOK, SlotRecords
  <2>2. CASE slot' = [slot EXCEPT ![t].lo = CurrentSpan(t)]
    BY <1>1, <2>2 DEF TypeOK, SlotRecords
  <2>3. CASE slot' = [slot EXCEPT ![t].valid = CurrentSpan(t) # NoSpan]
    BY <1>1, <2>3 DEF TypeOK, SlotRecords
  <2>4. CASE slot' = [slot EXCEPT ![t].seq = NextSeq(@)]
    <3>1. NextSeq(slot[t].seq) \in 0 .. SeqModulus - 1
      BY <1>1, SeqAlternates DEF SlotRecords
    <3> QED
      BY <1>1, <2>4, <3>1 DEF TypeOK, SlotRecords
  <2> QED
    BY <2>1, <2>2, <2>3, <2>4 DEF WriteField, EndUpdate
<1>3. todo' \in [Tasks -> SUBSET {"hi", "lo", "valid"}]
  <2>1. PICK f : todo' = todo \/ todo' = [todo EXCEPT ![t] = @ \ {f}]
    BY Zenon DEF WriteField, EndUpdate
  <2>2. todo[t] \ {f} \in SUBSET {"hi", "lo", "valid"}
    BY Zenon DEF TypeOK
  <2> QED
    BY <2>1, <2>2, Zenon DEF TypeOK
<1>4. pc' \in [Tasks -> {"idle", "stamp", "update", "write"}]
  BY DEF TypeOK, WriteField, EndUpdate
<1> QED
  BY <1>2, <1>3, <1>4 DEF TypeOK, WriteField, EndUpdate, history

\* Every variable keeps its type; the sequence number keeps its width.
THEOREM TypeCorrect == Spec => []TypeOK
<1>1. TypeOK /\ [Next]_vars => TypeOK'
  <2> SUFFICES ASSUME TypeOK, [Next]_vars PROVE TypeOK'
    OBVIOUS
  <2>1. CASE UNCHANGED vars
    BY <2>1 DEF TypeOK, vars, history
  <2>2. ASSUME NEW t \in Tasks, Exit(t) PROVE TypeOK'
    BY <2>2, FreshSlotType DEF TypeOK, Exit, SpanOrNone
  <2> QED
    BY <2>1, <2>2, AttachType, DetachType, StampType, BeginUpdateType, WriteType
       DEF Next
<1> QED
  BY <1>1, InitType, PTL DEF Spec

-----------------------------------------------------------------------------
(* The inductive invariant: what each task's slot holds at each point of   *)
(* Attach and Detach.                                                      *)

\* A readable slot that shows this span or nothing.
Shows(t, span) ==
    /\ slot[t].seq % 2 = 0
    /\ slot[t].valid => span # NoSpan /\ slot[t].hi = span /\ slot[t].lo = span

\* The fields already written of an update in progress.
Written(t) ==
    /\ CurrentSpan(t) # NoSpan => /\ "hi" \notin todo[t] => slot[t].hi = CurrentSpan(t)
                                  /\ "lo" \notin todo[t] => slot[t].lo = CurrentSpan(t)
                                  /\ "valid" \notin todo[t] => slot[t].valid
    /\ CurrentSpan(t) = NoSpan /\ "valid" \notin todo[t] => ~slot[t].valid

TaskInv(t) ==
    /\ t \notin slotted => ~slot[t].valid
    /\ pc[t] = "idle" => /\ Shows(t, CurrentSpan(t))
                         /\ t \in slotted /\ CurrentSpan(t) # NoSpan => slot[t].valid
    /\ pc[t] \in {"stamp", "update"} => Shows(t, before[t])
    /\ pc[t] = "write" => t \in slotted /\ slot[t].seq % 2 = 1 /\ Written(t)

IInv == TypeOK /\ \A t \in Tasks : TaskInv(t)

\* A step of another task leaves this one's invariant alone.
LEMMA Locality ==
    ASSUME NEW u \in Tasks, TaskInv(u),
           stack'[u] = stack[u], slot'[u] = slot[u], pc'[u] = pc[u],
           todo'[u] = todo[u], before'[u] = before[u], u \in slotted' <=> u \in slotted
    PROVE  TaskInv(u)'
BY DEF TaskInv, Shows, Written, CurrentSpan

LEMMA InitIInv == Init => IInv
<1> SUFFICES ASSUME Init, NEW t \in Tasks PROVE TaskInv(t)
  BY InitType DEF IInv
<1>1. slot[t].seq % 2 = 0 /\ ~slot[t].valid /\ pc[t] = "idle" /\ t \notin slotted
  BY FreshSlotType DEF Init, FreshSlot
<1> QED
  BY <1>1 DEF TaskInv, Shows

\* The slot still shows the span that was current when the call began.
LEMMA CallInv ==
    ASSUME IInv, NEW t \in Tasks, NEW c \in Contexts, Attach(t, c) \/ Detach(t, c)
    PROVE  TaskInv(t)'
<1>1. TaskInv(t) /\ pc[t] = "idle"
  BY DEF IInv, Attach, Detach
<1>2. slot' = slot /\ slotted' = slotted /\ before'[t] = CurrentSpan(t)
  BY DEF Attach, Detach, IInv, TypeOK
<1>3. pc'[t] \in {"stamp", "update"}
  BY DEF Attach, Detach, IInv, TypeOK
<1> QED
  BY <1>1, <1>2, <1>3 DEF TaskInv, Shows

\* Stamping touches the slot only in the field the interrupt never reads.
LEMMA StampInv ==
    ASSUME IInv, NEW t \in Tasks, Stamp(t)
    PROVE  TaskInv(t)'
<1>1. TaskInv(t) /\ pc[t] = "stamp" /\ pc'[t] = "update" /\ before' = before
  BY DEF IInv, TypeOK, Stamp
<1>2. slot[t] \in SlotRecords
  BY DEF IInv, TypeOK
<1>3. /\ slot'[t].seq = slot[t].seq /\ slot'[t].valid = slot[t].valid
      /\ slot'[t].hi = slot[t].hi /\ slot'[t].lo = slot[t].lo
  <2>1. CASE slot' = slot
    BY <2>1
  <2>2. CASE slot' = [slot EXCEPT ![t].last = CurrentSpan(t)]
    BY <1>2, <2>2 DEF IInv, TypeOK, SlotRecords
  <2> QED
    BY <2>1, <2>2 DEF Stamp, StampSpan
<1>4. t \in slotted => t \in slotted'
  BY DEF Stamp, StampSpan
<1> QED
  BY <1>1, <1>3, <1>4 DEF TaskInv, Shows

LEMMA BeginUpdateInv ==
    ASSUME IInv, NEW t \in Tasks, BeginUpdate(t)
    PROVE  TaskInv(t)'
<1>1. TaskInv(t) /\ pc[t] = "update" /\ UNCHANGED <<stack, before>>
  BY DEF IInv, TypeOK, BeginUpdate
<1>2. slot[t] \in SlotRecords /\ t \in DOMAIN slot /\ t \in DOMAIN todo /\ t \in DOMAIN pc
  BY DEF IInv, TypeOK
<1>3. CurrentSpan(t)' = CurrentSpan(t)
  BY <1>1 DEF CurrentSpan
\* With a slot: nothing is written yet.
<1>4. CASE /\ slotted' = slotted \cup {t}
           /\ slot' = [slot EXCEPT ![t].seq = Started(@)]
           /\ todo' = [todo EXCEPT ![t] = IF CurrentSpan(t) # NoSpan
                         THEN {"hi", "lo", "valid"} ELSE {"valid"}]
           /\ pc' = [pc EXCEPT ![t] = "write"]
  <2>1. slot'[t].seq = NextSeq(slot[t].seq) /\ slot'[t].valid = slot[t].valid
    BY <1>2, <1>4 DEF Started, SlotRecords
  <2>2. slot[t].seq % 2 = 0
    BY <1>1 DEF TaskInv, Shows
  <2>3. slot'[t].seq % 2 = 1
    BY <1>2, <2>1, <2>2, SeqAlternates DEF SlotRecords
  <2>4. /\ CurrentSpan(t) # NoSpan => todo'[t] = {"hi", "lo", "valid"}
        /\ CurrentSpan(t) = NoSpan => todo'[t] = {"valid"}
    BY <1>2, <1>4
  <2>5. Written(t)'
    BY <1>3, <2>4 DEF Written
  <2>6. t \in slotted' /\ pc'[t] = "write"
    BY <1>2, <1>4
  <2> QED
    BY <2>3, <2>5, <2>6 DEF TaskInv
\* Without one there is nothing to read.
<1>5. CASE t \notin slotted /\ UNCHANGED <<slotted, slot, todo>> /\ pc'[t] = "idle"
  BY <1>1, <1>3, <1>5 DEF TaskInv, Shows
<1> QED
  BY <1>2, <1>4, <1>5 DEF BeginUpdate, FindsSlot

LEMMA WriteInv ==
    ASSUME IInv, NEW t \in Tasks, WriteField(t)
    PROVE  TaskInv(t)'
<1>1. /\ TaskInv(t) /\ pc[t] = "write"
      /\ UNCHANGED <<stack, slotted, pc, before>>
  BY DEF IInv, TypeOK, WriteField
<1>2. slot[t] \in SlotRecords /\ t \in DOMAIN slot /\ t \in DOMAIN todo
  BY DEF IInv, TypeOK
<1>3. CurrentSpan(t)' = CurrentSpan(t)
  BY <1>1 DEF CurrentSpan
<1>4. slot'[t].seq = slot[t].seq /\ Written(t)'
  <2>0. Written(t)
    BY <1>1 DEF TaskInv
  <2>1. CASE /\ slot' = [slot EXCEPT ![t].hi = CurrentSpan(t)]
             /\ todo' = [todo EXCEPT ![t] = @ \ {"hi"}]
    <3>1. /\ slot'[t].hi = CurrentSpan(t) /\ slot'[t].lo = slot[t].lo
          /\ slot'[t].valid = slot[t].valid /\ slot'[t].seq = slot[t].seq
          /\ todo'[t] = todo[t] \ {"hi"}
      BY <1>2, <2>1 DEF SlotRecords
    <3> QED
      BY <1>3, <2>0, <3>1 DEF Written
  <2>2. CASE /\ slot' = [slot EXCEPT ![t].lo = CurrentSpan(t)]
             /\ todo' = [todo EXCEPT ![t] = @ \ {"lo"}]
    <3>1. /\ slot'[t].lo = CurrentSpan(t) /\ slot'[t].hi = slot[t].hi
          /\ slot'[t].valid = slot[t].valid /\ slot'[t].seq = slot[t].seq
          /\ todo'[t] = todo[t] \ {"lo"}
      BY <1>2, <2>2 DEF SlotRecords
    <3> QED
      BY <1>3, <2>0, <3>1 DEF Written
  <2>3. CASE /\ slot' = [slot EXCEPT ![t].valid = CurrentSpan(t) # NoSpan]
             /\ todo' = [todo EXCEPT ![t] = @ \ {"valid"}]
    <3>1. /\ slot'[t].lo = slot[t].lo /\ slot'[t].hi = slot[t].hi
          /\ slot'[t].valid <=> CurrentSpan(t) # NoSpan
          /\ slot'[t].seq = slot[t].seq
          /\ todo'[t] = todo[t] \ {"valid"}
      BY <1>2, <2>3 DEF SlotRecords
    <3> QED
      BY <1>3, <2>0, <3>1 DEF Written
  <2> QED
    BY <2>1, <2>2, <2>3 DEF WriteField
<1> QED
  BY <1>1, <1>4 DEF TaskInv

LEMMA EndUpdateInv ==
    ASSUME IInv, NEW t \in Tasks, EndUpdate(t)
    PROVE  TaskInv(t)'
<1>1. /\ TaskInv(t) /\ pc[t] = "write" /\ todo[t] = {} /\ pc'[t] = "idle"
      /\ UNCHANGED <<stack, slotted, before>>
      /\ slot' = [slot EXCEPT ![t].seq = NextSeq(@)]
  BY DEF IInv, TypeOK, EndUpdate
<1>2. slot[t] \in SlotRecords /\ t \in DOMAIN slot
  BY DEF IInv, TypeOK
<1>3. CurrentSpan(t)' = CurrentSpan(t)
  BY <1>1 DEF CurrentSpan
<1>4. /\ slot'[t].seq = NextSeq(slot[t].seq) /\ slot'[t].valid = slot[t].valid
      /\ slot'[t].hi = slot[t].hi /\ slot'[t].lo = slot[t].lo
  BY <1>1, <1>2 DEF SlotRecords
<1>5. slot'[t].seq % 2 = 0
  BY <1>1, <1>2, <1>4, SeqAlternates DEF SlotRecords, TaskInv
<1>6. t \in slotted /\ Written(t)
  BY <1>1 DEF TaskInv
<1> QED
  BY <1>1, <1>3, <1>4, <1>5, <1>6 DEF TaskInv, Shows, Written

LEMMA ExitInv ==
    ASSUME IInv, NEW t \in Tasks, Exit(t)
    PROVE  TaskInv(t)'
<1>1. /\ slot'[t] = FreshSlot /\ t \notin slotted' /\ pc'[t] = "idle"
      /\ stack'[t] = <<>>
  BY DEF IInv, TypeOK, Exit
<1>2. FreshSlot.seq % 2 = 0 /\ ~FreshSlot.valid
  BY FreshSlotType DEF FreshSlot
<1> QED
  BY <1>1, <1>2 DEF TaskInv, Shows

THEOREM Inductive == Spec => []IInv
<1>1. IInv /\ TypeOK' /\ [Next]_vars => IInv'
  <2> SUFFICES ASSUME IInv, TypeOK', [Next]_vars, NEW u \in Tasks PROVE TaskInv(u)'
    BY DEF IInv
  <2>0. TaskInv(u)
    BY DEF IInv
  <2>1. CASE UNCHANGED vars
    BY <2>0, <2>1, Locality DEF vars
  <2>2. CASE Next
    <3>1. PICK t \in Tasks :
            \/ \E c \in Contexts : Attach(t, c) \/ Detach(t, c)
            \/ Stamp(t) \/ BeginUpdate(t) \/ WriteField(t) \/ EndUpdate(t) \/ Exit(t)
      BY <2>2 DEF Next
    <3>2. CASE u = t
      BY <3>1, <3>2, CallInv, StampInv, BeginUpdateInv, WriteInv, EndUpdateInv, ExitInv
    <3>3. CASE u # t
      <4>1. stack'[u] = stack[u] /\ pc'[u] = pc[u] /\ before'[u] = before[u]
        BY <3>1, <3>3 DEF IInv, TypeOK, Attach, Detach, Stamp, BeginUpdate,
                          WriteField, EndUpdate, Exit
      <4>2. slot'[u] = slot[u]
        BY <3>1, <3>3 DEF IInv, TypeOK, Attach, Detach, Stamp, StampSpan, BeginUpdate,
                          WriteField, EndUpdate, Exit
      <4>3. todo'[u] = todo[u]
        BY <3>1, <3>3 DEF IInv, TypeOK, Attach, Detach, Stamp, BeginUpdate,
                          WriteField, EndUpdate, Exit
      <4>4. u \in slotted' <=> u \in slotted
        BY <3>1, <3>3 DEF Attach, Detach, Stamp, StampSpan, BeginUpdate,
                          WriteField, EndUpdate, Exit
      <4> QED
        BY <2>0, <4>1, <4>2, <4>3, <4>4, Locality
    <3> QED
      BY <3>2, <3>3
  <2> QED
    BY <2>1, <2>2
<1> QED
  BY <1>1, InitIInv, TypeCorrect, PTL DEF Spec

\* The interrupt links a sample to no span but a current one, whole.
THEOREM SampledSpan == Spec => []SampledSpanIsActive
<1>1. IInv => SampledSpanIsActive
  <2> SUFFICES ASSUME IInv, NEW t \in Tasks, ActiveSpanId(t) # NoSpan
               PROVE  \/ ActiveSpanId(t) = IdOf(CurrentSpan(t))
                      \/ pc[t] # "idle" /\ ActiveSpanId(t) = IdOf(before[t])
    BY DEF SampledSpanIsActive
  <2>1. /\ TaskInv(t) /\ t \in slotted /\ slot[t].seq % 2 # 1 /\ slot[t].valid
        /\ ActiveSpanId(t) = <<slot[t].hi, slot[t].lo>>
    BY DEF IInv, ActiveSpanId
  <2>2. pc[t] # "write"
    BY <2>1 DEF TaskInv
  <2>3. CASE pc[t] = "idle"
    BY <2>1, <2>3 DEF TaskInv, Shows, IdOf
  <2>4. CASE pc[t] \in {"stamp", "update"}
    BY <2>1, <2>4 DEF TaskInv, Shows, IdOf
  <2> QED
    BY <2>2, <2>3, <2>4 DEF IInv, TypeOK
<1> QED
  BY <1>1, Inductive, PTL

\* Outside Attach and Detach a slot shows its task's current span.
THEOREM SettledSlot == Spec => []SettledSlotIsExact
<1>1. IInv => SettledSlotIsExact
  <2> SUFFICES ASSUME IInv, NEW t \in Tasks, pc[t] = "idle", t \in slotted
               PROVE  ActiveSpanId(t) = IdOf(CurrentSpan(t))
    BY DEF SettledSlotIsExact, IInv
  <2>1. TaskInv(t)
    BY DEF IInv
  <2> QED
    BY <2>1 DEF TaskInv, Shows, ActiveSpanId, IdOf
<1> QED
  BY <1>1, Inductive, PTL

-----------------------------------------------------------------------------
(* A second invariant: which spans have been stamped, and what a task's    *)
(* slot remembers of its own stamps.                                       *)

Marked(span) == span = NoSpan \/ span \in stamped

\* Unless memory ran out, the slot remembers the task's last stamp.
Remembers(t) ==
    lastSet[t] # NoSpan /\ t \notin forgot => t \in slotted /\ slot[t].last = lastSet[t]

\* The spans of the task's contexts are stamped, but for the one Attach has
\* just pushed.
StackMarked(t) ==
    \A k \in 1 .. Len(stack[t]) :
        k < Len(stack[t]) \/ pc[t] # "stamp" => Marked(SpanOf[stack[t][k]])

StampInvOf(t) ==
    /\ Remembers(t)
    /\ Marked(slot[t].last)
    /\ StampKey => StackMarked(t) /\ Marked(slot[t].hi)

SInv == TypeOK /\ \A t \in Tasks : StampInvOf(t)

\* Nothing is ever unstamped, so another task's step leaves a task's part of
\* the invariant alone.
LEMMA StampLocality ==
    ASSUME NEW u \in Tasks, StampInvOf(u), stamped \subseteq stamped',
           stack'[u] = stack[u], slot'[u] = slot[u], pc'[u] = pc[u],
           lastSet'[u] = lastSet[u],
           u \in slotted' <=> u \in slotted, u \in forgot' <=> u \in forgot
    PROVE  StampInvOf(u)'
BY DEF StampInvOf, Remembers, StackMarked, Marked

LEMMA InitSInv == Init => SInv
<1> SUFFICES ASSUME Init, NEW t \in Tasks PROVE StampInvOf(t)
  BY InitType DEF SInv
<1>1. lastSet[t] = NoSpan /\ slot[t] = FreshSlot /\ stack[t] = <<>>
  BY DEF Init
<1> QED
  BY <1>1 DEF StampInvOf, Remembers, StackMarked, Marked, FreshSlot

\* Between calls every context on the stack is marked, and so is the current
\* span.
LEMMA CurrentMarked ==
    ASSUME SInv, NEW t \in Tasks, StampKey, pc[t] # "stamp"
    PROVE  Marked(CurrentSpan(t))
<1>1. stack[t] \in Seq(Contexts) /\ StackMarked(t)
  BY DEF SInv, TypeOK, StampInvOf
<1>2. CASE stack[t] = <<>>
  BY <1>2 DEF CurrentSpan, Marked
<1>3. CASE stack[t] # <<>>
  <2>1. Len(stack[t]) \in 1 .. Len(stack[t])
    BY <1>1, <1>3
  <2> QED
    BY <1>1, <1>3, <2>1 DEF CurrentSpan, StackMarked
<1> QED
  BY <1>2, <1>3

LEMMA AttachMarked ==
    ASSUME SInv, NEW t \in Tasks, NEW c \in Contexts, Attach(t, c)
    PROVE  StampInvOf(t)'
<1>1. /\ StampInvOf(t) /\ pc[t] = "idle" /\ pc'[t] = "stamp"
      /\ stack'[t] = Append(stack[t], c) /\ stack[t] \in Seq(Contexts)
      /\ UNCHANGED <<slotted, slot, stamped, lastSet, forgot>>
  BY DEF SInv, TypeOK, Attach, history
<1>2. StampKey => StackMarked(t)'
  <2> SUFFICES ASSUME StampKey, NEW k \in 1 .. Len(stack'[t]), k < Len(stack'[t])
               PROVE  Marked(SpanOf[stack[t][k]])'
    BY <1>1 DEF StackMarked
  <2>1. k \in 1 .. Len(stack[t]) /\ stack'[t][k] = stack[t][k]
    BY <1>1
  <2> QED
    BY <1>1, <2>1 DEF StampInvOf, StackMarked, Marked
<1> QED
  BY <1>1, <1>2 DEF StampInvOf, Remembers, Marked

\* What is left of a popped stack is a prefix of it.
LEMMA DetachMarked ==
    ASSUME SInv, NEW t \in Tasks, NEW c \in Contexts, Detach(t, c)
    PROVE  StampInvOf(t)'
<1>1. /\ StampInvOf(t) /\ pc[t] = "idle" /\ pc'[t] = "update"
      /\ stack'[t] \in Popped(stack[t], c) /\ stack[t] \in Seq(Contexts)
      /\ UNCHANGED <<slotted, slot, stamped, lastSet, forgot>>
  BY DEF SInv, TypeOK, Detach, history
<1>2. StampKey => StackMarked(t)'
  <2> SUFFICES ASSUME StampKey, NEW k \in 1 .. Len(stack'[t])
               PROVE  Marked(SpanOf[stack[t][k]])'
    BY <1>1 DEF StackMarked
  <2>1. k \in 1 .. Len(stack[t]) /\ stack'[t][k] = stack[t][k]
    <3>1. CASE stack'[t] = stack[t]
      BY <3>1
    <3>2. CASE \E i \in 1 .. Len(stack[t]) : stack'[t] = SubSeq(stack[t], 1, i - 1)
      BY <1>1, <3>2
    <3> QED
      BY <1>1, <3>1, <3>2 DEF Popped
  <2> QED
    BY <1>1, <2>1 DEF StampInvOf, StackMarked, Marked
<1> QED
  BY <1>1, <1>2 DEF StampInvOf, Remembers, Marked

\* A span that is skipped is the remembered one, which was stamped.
LEMMA StampMarked ==
    ASSUME SInv, NEW t \in Tasks, Stamp(t)
    PROVE  StampInvOf(t)'
<1> DEFINE span == CurrentSpan(t)
<1>1. /\ StampInvOf(t) /\ pc[t] = "stamp" /\ pc'[t] = "update"
      /\ stack' = stack /\ stack[t] \in Seq(Contexts)
      /\ slot[t] \in SlotRecords /\ t \in DOMAIN slot /\ t \in DOMAIN lastSet
  BY DEF SInv, TypeOK, Stamp
<1>2. /\ stamped \subseteq stamped' /\ slot'[t].hi = slot[t].hi
      /\ StampKey => span = NoSpan \/ span \in stamped'
      /\ Remembers(t)' /\ Marked(slot[t].last)'
  <2>1. CASE ~(StampKey /\ span # NoSpan)
    BY <1>1, <2>1 DEF Stamp, StampInvOf, Remembers, Marked, history
  <2>2. CASE StampKey /\ span # NoSpan
    <3>1. PICK found \in FindsSlot(t) :
            /\ slotted' = IF found THEN slotted \cup {t} ELSE slotted
            /\ IF found /\ slot[t].last = span
                 THEN UNCHANGED <<slot, history>>
                 ELSE /\ slot' = IF found THEN [slot EXCEPT ![t].last = span] ELSE slot
                      /\ SetAttribute(t, span, found)
      BY <2>2 DEF Stamp, StampSpan
    <3>2. CASE found /\ slot[t].last = span
      BY <1>1, <2>2, <3>1, <3>2 DEF StampInvOf, Remembers, Marked, history
    <3>3. CASE found /\ slot[t].last # span
      <4>1. /\ slot'[t].last = span /\ slot'[t].hi = slot[t].hi
            /\ t \in slotted' /\ SetAttribute(t, span, TRUE)
        BY <1>1, <3>1, <3>3 DEF SlotRecords
      <4>2. lastSet'[t] = span /\ stamped' = stamped \cup {span}
        BY <1>1, <4>1 DEF SetAttribute
      <4> QED
        BY <4>1, <4>2 DEF Remembers, Marked
    <3>4. CASE ~found
      <4>1. slot' = slot /\ t \in forgot' /\ stamped' = stamped \cup {span}
        BY <3>1, <3>4 DEF SetAttribute
      <4> QED
        BY <1>1, <4>1 DEF StampInvOf, Remembers, Marked
    <3> QED
      BY <3>2, <3>3, <3>4
  <2> QED
    BY <2>1, <2>2
<1>3. StampKey => StackMarked(t)'
  <2> SUFFICES ASSUME StampKey, NEW k \in 1 .. Len(stack[t])
               PROVE  Marked(SpanOf[stack[t][k]])'
    BY <1>1 DEF StackMarked
  <2>1. CASE k < Len(stack[t])
    BY <1>1, <1>2, <2>1 DEF StampInvOf, StackMarked, Marked
  <2>2. CASE k = Len(stack[t])
    <3>1. SpanOf[stack[t][k]] = span
      BY <1>1, <2>2 DEF CurrentSpan
    <3> QED
      BY <1>1, <1>2, <3>1 DEF Marked
  <2> QED
    BY <1>1, <2>1, <2>2
<1> QED
  BY <1>1, <1>2, <1>3 DEF StampInvOf, Marked

\* An update copies the current span, which is marked, into the slot.
LEMMA UpdateMarked ==
    ASSUME SInv, NEW t \in Tasks, BeginUpdate(t) \/ WriteField(t) \/ EndUpdate(t)
    PROVE  StampInvOf(t)'
<1>1. /\ StampInvOf(t) /\ pc[t] # "stamp" /\ stack' = stack
      /\ UNCHANGED <<stamped, lastSet, forgot>>
      /\ t \in slotted => t \in slotted'
      /\ slot[t] \in SlotRecords /\ t \in DOMAIN slot
  BY DEF SInv, TypeOK, BeginUpdate, WriteField, EndUpdate, history
<1>2. slot'[t].last = slot[t].last /\ slot'[t].hi \in {slot[t].hi, CurrentSpan(t)}
  <2>1. CASE slot' = slot
    BY <2>1
  <2>2. CASE \E n : slot' = [slot EXCEPT ![t].seq = n]
    BY <1>1, <2>2 DEF SlotRecords
  <2>3. CASE \/ slot' = [slot EXCEPT ![t].hi = CurrentSpan(t)]
             \/ slot' = [slot EXCEPT ![t].lo = CurrentSpan(t)]
    BY <1>1, <2>3 DEF SlotRecords
  <2>4. CASE slot' = [slot EXCEPT ![t].valid = CurrentSpan(t) # NoSpan]
    BY <1>1, <2>4 DEF SlotRecords
  <2> QED
    BY <2>1, <2>2, <2>3, <2>4 DEF BeginUpdate, WriteField, EndUpdate
<1>3. StampKey => Marked(CurrentSpan(t))
  BY <1>1, CurrentMarked
<1>4. StampKey => StackMarked(t)'
  BY <1>1 DEF StampInvOf, StackMarked, Marked
<1>5. Remembers(t)' /\ Marked(slot[t].last)' /\ (StampKey => Marked(slot[t].hi)')
  <2>1. Remembers(t) /\ Marked(slot[t].last) /\ (StampKey => Marked(slot[t].hi))
    BY <1>1 DEF StampInvOf
  <2> QED
    BY <1>1, <1>2, <1>3, <2>1 DEF Remembers, Marked
<1> QED
  BY <1>4, <1>5 DEF StampInvOf

LEMMA ExitMarked ==
    ASSUME SInv, NEW t \in Tasks, Exit(t)
    PROVE  StampInvOf(t)'
<1>1. lastSet'[t] = NoSpan /\ slot'[t] = FreshSlot /\ stack'[t] = <<>>
  BY DEF SInv, TypeOK, Exit
<1> QED
  BY <1>1 DEF StampInvOf, Remembers, StackMarked, Marked, FreshSlot

THEOREM StampsAreKept == Spec => []SInv
<1>1. SInv /\ TypeOK' /\ [Next]_vars => SInv'
  <2> SUFFICES ASSUME SInv, TypeOK', [Next]_vars, NEW u \in Tasks PROVE StampInvOf(u)'
    BY DEF SInv
  <2>0. StampInvOf(u)
    BY DEF SInv
  <2>1. CASE UNCHANGED vars
    BY <2>0, <2>1, StampLocality DEF vars, history
  <2>2. CASE Next
    <3>1. PICK t \in Tasks :
            \/ \E c \in Contexts : Attach(t, c) \/ Detach(t, c)
            \/ Stamp(t) \/ BeginUpdate(t) \/ WriteField(t) \/ EndUpdate(t) \/ Exit(t)
      BY <2>2 DEF Next
    <3>2. CASE u = t
      BY <3>1, <3>2, AttachMarked, DetachMarked, StampMarked, UpdateMarked, ExitMarked
    <3>3. CASE u # t
      <4>1. stack'[u] = stack[u] /\ pc'[u] = pc[u]
        BY <3>1, <3>3 DEF SInv, TypeOK, Attach, Detach, Stamp, BeginUpdate,
                          WriteField, EndUpdate, Exit
      <4>2. slot'[u] = slot[u]
        BY <3>1, <3>3 DEF SInv, TypeOK, Attach, Detach, Stamp, StampSpan, BeginUpdate,
                          WriteField, EndUpdate, Exit
      <4>3. u \in slotted' <=> u \in slotted
        BY <3>1, <3>3 DEF Attach, Detach, Stamp, StampSpan, BeginUpdate,
                          WriteField, EndUpdate, Exit
      <4>4. /\ stamped \subseteq stamped' /\ lastSet'[u] = lastSet[u]
            /\ u \in forgot' <=> u \in forgot
        BY <3>1, <3>3 DEF SInv, TypeOK, Attach, Detach, Stamp, StampSpan, SetAttribute,
                          BeginUpdate, WriteField, EndUpdate, Exit, history
      <4> QED
        BY <2>0, <4>1, <4>2, <4>3, <4>4, StampLocality
    <3> QED
      BY <3>2, <3>3
  <2> QED
    BY <2>1, <2>2
<1> QED
  BY <1>1, InitSInv, TypeCorrect, PTL DEF Spec

\* Every span a sample can be linked to carries the profile attribute.
THEOREM SampledSpanStamped == Spec => []SampledSpanIsStamped
<1>1. SInv => SampledSpanIsStamped
  <2> SUFFICES ASSUME SInv, StampKey, NEW t \in Tasks, NEW s \in Spans,
                      ActiveSpanId(t) = IdOf(s)
               PROVE  s \in stamped
    BY DEF SampledSpanIsStamped
  <2>1. IdOf(s) = <<s, s>> /\ IdOf(s) # NoSpan
    BY SpansAssumption, IdsAssumption DEF IdOf
  <2>2. slot[t].hi = s
    BY <2>1 DEF ActiveSpanId
  <2> QED
    BY <2>2, SpansAssumption DEF SInv, StampInvOf, Marked
<1> QED
  BY <1>1, StampsAreKept, PTL

\* No task stamps the same span twice in a row while its slot remembers.
THEOREM NoStampTwice == Spec => NoRepeatedStamp
<1> DEFINE Fresh(t) == sets'[t] # sets[t] => lastSet'[t] # lastSet[t] \/ t \in forgot
<1>1. SInv /\ [Next]_vars => [\A t \in Tasks : Fresh(t)]_vars
  <2> SUFFICES ASSUME SInv, Next, NEW t \in Tasks, sets'[t] # sets[t],
                      lastSet'[t] = lastSet[t], t \notin forgot
               PROVE  FALSE
    OBVIOUS
  <2>1. PICK u \in Tasks :
          \/ \E c \in Contexts : Attach(u, c) \/ Detach(u, c)
          \/ Stamp(u) \/ BeginUpdate(u) \/ WriteField(u) \/ EndUpdate(u) \/ Exit(u)
    BY DEF Next
  <2>2. Stamp(u) /\ ~UNCHANGED history
    BY <2>1 DEF Attach, Detach, BeginUpdate, WriteField, EndUpdate, Exit, history
  <2>3. CurrentSpan(u) # NoSpan /\ StampSpan(u, CurrentSpan(u))
    BY <2>2 DEF Stamp
  <2>4. PICK found \in FindsSlot(u) :
          /\ ~(found /\ slot[u].last = CurrentSpan(u))
          /\ SetAttribute(u, CurrentSpan(u), found)
    BY <2>2, <2>3 DEF StampSpan
  <2>5. sets' = [sets EXCEPT ![u] = 1 - @] /\ lastSet' = [lastSet EXCEPT ![u] = CurrentSpan(u)]
    BY <2>4, Zenon DEF SetAttribute
  <2>6. u = t
    BY <2>5 DEF SInv, TypeOK
  <2>7. lastSet[t] = CurrentSpan(t)
    BY <2>5, <2>6 DEF SInv, TypeOK
  <2>8. t \in slotted /\ slot[t].last = CurrentSpan(t)
    BY <2>3, <2>6, <2>7 DEF SInv, StampInvOf, Remembers
  <2> QED
    BY <2>4, <2>6, <2>8 DEF FindsSlot
<1> QED
  BY <1>1, StampsAreKept, PTL DEF Spec, NoRepeatedStamp
=============================================================================
