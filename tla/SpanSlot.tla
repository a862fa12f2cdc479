------------------------------ MODULE SpanSlot ------------------------------
(***************************************************************************)
(* The per-task span slot of src/integration/esp_task_span_slot.cpp: each  *)
(* task mirrors the span of its current context into a record that the     *)
(* sampling interrupt reads when it interrupts that task.                  *)
(*                                                                         *)
(* A task is interrupted between any two of its writes to the slot.  The   *)
(* interrupt runs on the core of the task it samples, so the task cannot   *)
(* move while the interrupt reads: the read is a state function here, and  *)
(* its second check of seq can never differ from the first.  A span id is  *)
(* two words, so that a half-written id can be told from a whole one.      *)
(***************************************************************************)
EXTENDS Naturals, Sequences, FiniteSets

CONSTANTS
    Tasks,
    Contexts,       \* what a task may attach
    Spans,          \* valid span ids
    NoSpan,         \* the invalid (zero) span id
    SpanOf,         \* trace::GetSpan(context)->GetContext().span_id()
    StampKey,       \* whether ..._PROFILES_SPAN_ATTRIBUTE names an attribute
    MaxDepth,       \* bounds the contexts attached at a time on one task
    SeqModulus      \* 2^32, the modulus of SpanSlot::seq

ASSUME SpansAssumption    == NoSpan \notin Spans
ASSUME IdsAssumption      == \A s \in Spans : <<s, s>> # NoSpan
ASSUME SpanOfAssumption   == SpanOf \in [Contexts -> Spans \cup {NoSpan}]
ASSUME StampKeyAssumption == StampKey \in BOOLEAN
ASSUME MaxDepthAssumption == MaxDepth \in Nat
\* An even modulus: the sequence number stays even after it wraps.
ASSUME ModulusAssumption  == SeqModulus \in Nat /\ SeqModulus > 0 /\ SeqModulus % 2 = 0
VARIABLES
    stack,      \* the task's context stack (opentelemetry-cpp, external)
    slotted,    \* the tasks whose thread-local pointer is set
    slot,       \* their SpanSlots; cleared where there is none
    pc,         \* where the task is in Attach or Detach
    todo,       \* update_slot_from(): the fields it has still to write
    before,     \* history: the current span when Attach or Detach began
    stamped,    \* history: the spans that have the profile attribute
    lastSet,    \* history: the span the task last called SetAttribute on
    sets,       \* history: its SetAttribute calls, modulo 2
    forgot      \* history: the tasks whose last call no slot remembered

history == <<stamped, lastSet, sets, forgot>>
vars == <<stack, slotted, slot, pc, todo, before, history>>

SpanOrNone == Spans \cup {NoSpan}

\* GetSpan(GetCurrent()): the context on top of the stack, or the empty root
\* context.
CurrentSpan(t) == IF stack[t] = <<>> THEN NoSpan ELSE SpanOf[stack[t][Len(stack[t])]]

\* calloc(1, sizeof(SpanSlot))
FreshSlot == [seq |-> 0, valid |-> FALSE, hi |-> NoSpan, lo |-> NoSpan, last |-> NoSpan]

\* slot_for_current_task(): whether it returns a slot.  It allocates one on
\* first use, which may fail.
FindsSlot(t) == IF t \in slotted THEN {TRUE} ELSE BOOLEAN

Init ==
    /\ stack   = [t \in Tasks |-> <<>>]
    /\ slotted = {}
    /\ slot    = [t \in Tasks |-> FreshSlot]
    /\ pc      = [t \in Tasks |-> "idle"]
    /\ todo    = [t \in Tasks |-> {}]
    /\ before  = [t \in Tasks |-> NoSpan]
    /\ stamped = {}
    /\ lastSet = [t \in Tasks |-> NoSpan]
    /\ sets    = [t \in Tasks |-> 0]
    /\ forgot  = {}

-----------------------------------------------------------------------------
(* Attach and Detach *)

\* ThreadLocalContextStorage::Attach pushes the context.
Attach(t, c) ==
    /\ pc[t] = "idle"
    /\ Len(stack[t]) < MaxDepth
    /\ before' = [before EXCEPT ![t] = CurrentSpan(t)]
    /\ stack'  = [stack EXCEPT ![t] = Append(@, c)]
    /\ pc'     = [pc EXCEPT ![t] = "stamp"]
    /\ UNCHANGED <<slotted, slot, todo, history>>

\* span->SetAttribute(kAttributeKey, hex), with a slot to remember it or not.
SetAttribute(t, span, remembered) ==
    /\ stamped' = stamped \cup {span}
    /\ lastSet' = [lastSet EXCEPT ![t] = span]
    /\ sets'    = [sets EXCEPT ![t] = 1 - @]
    /\ forgot'  = IF remembered THEN forgot \ {t} ELSE forgot \cup {t}

\* StampSpan that compares with nothing, and that needs a slot.
StampSpanAlways(t, span) ==
    \E found \in FindsSlot(t) :
        /\ slotted' = IF found THEN slotted \cup {t} ELSE slotted
        /\ slot' = slot
        /\ SetAttribute(t, span, found)
StampSpanIntoSlot(t, span) ==
    \E found \in FindsSlot(t) :
        /\ slotted' = IF found THEN slotted \cup {t} ELSE slotted
        /\ IF ~found \/ slot[t].last = span
             THEN UNCHANGED <<slot, history>>
             ELSE /\ slot' = [slot EXCEPT ![t].last = span]
                  /\ SetAttribute(t, span, TRUE)

\* stamp_profile_id(), for a key and a valid span: the span the slot
\* remembers is skipped.  Without a slot the span is stamped all the same and
\* nothing remembers it.
StampSpan(t, span) ==
    \E found \in FindsSlot(t) :
        /\ slotted' = IF found THEN slotted \cup {t} ELSE slotted
        /\ IF found /\ slot[t].last = span
             THEN UNCHANGED <<slot, history>>
             ELSE /\ slot' = IF found THEN [slot EXCEPT ![t].last = span] ELSE slot
                  /\ SetAttribute(t, span, found)

\* Attach: stamp the span of the context it was given, which is now on top of
\* the stack.
Stamp(t) ==
    /\ pc[t] = "stamp"
    /\ pc' = [pc EXCEPT ![t] = "update"]
    /\ IF StampKey /\ CurrentSpan(t) # NoSpan
         THEN StampSpan(t, CurrentSpan(t))
         ELSE UNCHANGED <<slotted, slot, history>>
    /\ UNCHANGED <<stack, todo, before>>

\* The stack s popped down to, and without, the topmost occurrence of c.
Popped(s, c) ==
    IF \A i \in 1 .. Len(s) : s[i] # c
      THEN {s}
      ELSE {SubSeq(s, 1, i - 1) : i \in {i \in 1 .. Len(s) :
                s[i] = c /\ \A j \in i + 1 .. Len(s) : s[j] # c}}

\* A Detach that leaves the slot as it was.
DetachNoUpdate(t, c) ==
    /\ pc[t] = "idle"
    /\ before' = [before EXCEPT ![t] = CurrentSpan(t)]
    /\ \E s \in Popped(stack[t], c) : stack' = [stack EXCEPT ![t] = s]
    /\ UNCHANGED <<slotted, slot, pc, todo, history>>

\* ThreadLocalContextStorage::Detach pops down to the token's context, or
\* leaves the stack alone when it does not hold it; the override updates the
\* slot in both cases.
Detach(t, c) ==
    /\ pc[t] = "idle"
    /\ before' = [before EXCEPT ![t] = CurrentSpan(t)]
    /\ \E s \in Popped(stack[t], c) : stack' = [stack EXCEPT ![t] = s]
    /\ pc'     = [pc EXCEPT ![t] = "update"]
    /\ UNCHANGED <<slotted, slot, todo, history>>

-----------------------------------------------------------------------------
(* update_slot_from(GetCurrent()) *)

\* The sequence number at the start of an update that does not mark it.
StartedUnmarked(seq) == seq

NextSeq(seq) == (seq + 1) % SeqModulus
Started(seq) == NextSeq(seq)

\* seq becomes odd; without a slot there is nothing to update.
BeginUpdate(t) ==
    /\ pc[t] = "update"
    /\ \E found \in FindsSlot(t) :
         IF found
           THEN /\ slotted' = slotted \cup {t}
                /\ slot' = [slot EXCEPT ![t].seq = Started(@)]
                /\ todo' = [todo EXCEPT ![t] = IF CurrentSpan(t) # NoSpan
                              THEN {"hi", "lo", "valid"} ELSE {"valid"}]
                /\ pc' = [pc EXCEPT ![t] = "write"]
           ELSE /\ pc' = [pc EXCEPT ![t] = "idle"]
                /\ UNCHANGED <<slotted, slot, todo>>
    /\ UNCHANGED <<stack, before, history>>

\* Between the two fences the compiler orders the writes as it likes.
WriteField(t) ==
    /\ pc[t] = "write"
    /\ \/ /\ "hi" \in todo[t]
          /\ slot' = [slot EXCEPT ![t].hi = CurrentSpan(t)]
          /\ todo' = [todo EXCEPT ![t] = @ \ {"hi"}]
       \/ /\ "lo" \in todo[t]
          /\ slot' = [slot EXCEPT ![t].lo = CurrentSpan(t)]
          /\ todo' = [todo EXCEPT ![t] = @ \ {"lo"}]
       \/ /\ "valid" \in todo[t]
          /\ slot' = [slot EXCEPT ![t].valid = CurrentSpan(t) # NoSpan]
          /\ todo' = [todo EXCEPT ![t] = @ \ {"valid"}]
    /\ UNCHANGED <<stack, slotted, pc, before, history>>

\* seq becomes even again.
EndUpdate(t) ==
    /\ pc[t] = "write"
    /\ todo[t] = {}
    /\ slot' = [slot EXCEPT ![t].seq = NextSeq(@)]
    /\ pc' = [pc EXCEPT ![t] = "idle"]
    /\ UNCHANGED <<stack, slotted, todo, before, history>>

\* The task ends and its deletion callback, delete_slot(), frees the record; a
\* later task starts without one.
Exit(t) ==
    /\ pc[t] = "idle"
    /\ stack'   = [stack EXCEPT ![t] = <<>>]
    /\ slotted' = slotted \ {t}
    /\ slot'    = [slot EXCEPT ![t] = FreshSlot]
    /\ lastSet' = [lastSet EXCEPT ![t] = NoSpan]
    /\ UNCHANGED <<pc, todo, before, stamped, sets, forgot>>

Next ==
    \E t \in Tasks :
        \/ \E c \in Contexts : Attach(t, c) \/ Detach(t, c)
        \/ Stamp(t) \/ BeginUpdate(t) \/ WriteField(t) \/ EndUpdate(t) \/ Exit(t)

Spec == Init /\ [][Next]_vars

-----------------------------------------------------------------------------
(* The interrupt's read *)

\* esp_opentelemetry_active_span_id() on task t: the id it copies, or NoSpan
\* where it returns false.
ActiveSpanId(t) ==
    IF \/ t \notin slotted
       \/ slot[t].seq % 2 = 1
       \/ ~slot[t].valid
      THEN NoSpan
      ELSE <<slot[t].hi, slot[t].lo>>

IdOf(span) == IF span = NoSpan THEN NoSpan ELSE <<span, span>>

-----------------------------------------------------------------------------
SlotRecords == [seq : 0 .. SeqModulus - 1, valid : BOOLEAN, hi : SpanOrNone,
                lo : SpanOrNone, last : SpanOrNone]

TypeOK ==
    /\ stack \in [Tasks -> Seq(Contexts)]
    /\ slotted \in SUBSET Tasks
    /\ slot \in [Tasks -> SlotRecords]
    /\ pc \in [Tasks -> {"idle", "stamp", "update", "write"}]
    /\ todo \in [Tasks -> SUBSET {"hi", "lo", "valid"}]
    /\ before \in [Tasks -> SpanOrNone]
    /\ stamped \in SUBSET Spans
    /\ lastSet \in [Tasks -> SpanOrNone]
    /\ sets \in [Tasks -> {0, 1}]
    /\ forgot \in SUBSET Tasks

\* Wherever the interrupt hits a task, the span it links the sample to, if
\* any, is whole and is the task's current span or, inside Attach or Detach,
\* the one current when that call began: never a mix of two ids, never a span
\* that ended earlier.
SampledSpanIsActive ==
    \A t \in Tasks :
        ActiveSpanId(t) \in {NoSpan, IdOf(CurrentSpan(t))}
            \cup (IF pc[t] = "idle" THEN {} ELSE {IdOf(before[t])})

\* Between calls the slot, if there is one, shows exactly the current span: a
\* sample is neither linked to a span that was detached nor left unlinked.
SettledSlotIsExact ==
    TypeOK /\ \A t \in Tasks :
        pc[t] = "idle" /\ t \in slotted => ActiveSpanId(t) = IdOf(CurrentSpan(t))

\* A span that samples can be linked to carries the attribute the trace
\* backend finds them by.
SampledSpanIsStamped ==
    StampKey => \A t \in Tasks, s \in Spans : ActiveSpanId(t) = IdOf(s) => s \in stamped

\* SetAttribute appends, so a task never calls it twice in a row for the same
\* span, however often the span is activated again; only a stamp made without
\* a slot, when memory had run out, may be repeated.
NoRepeatedStamp ==
    [][\A t \in Tasks : sets'[t] # sets[t] =>
           lastSet'[t] # lastSet[t] \/ t \in forgot]_vars
=============================================================================
