----------------------------- MODULE LossyQueue -----------------------------
(***************************************************************************)
(* What the sample ring of src/integration/esp_profiling.cpp promises to   *)
(* the profiler, with no indices, slots or intermediate steps: a bounded   *)
(* FIFO queue between the timer interrupt and the export task that loses a *)
(* sample only by refusing it when it is full.                             *)
(***************************************************************************)
EXTENDS Naturals, Sequences

CONSTANTS
    Samples,    \* the samples an interrupt can take
    Bound       \* how many samples the queue holds

VARIABLES
    queue,      \* the accepted samples the export task has not consumed
    consumed,   \* every sample the export task consumed, oldest first
    refused     \* how many samples were refused

qvars == <<queue, consumed, refused>>

Init ==
    /\ queue = <<>>
    /\ consumed = <<>>
    /\ refused = 0

Accept(s) ==
    /\ Len(queue) < Bound
    /\ queue' = Append(queue, s)
    /\ UNCHANGED <<consumed, refused>>

Refuse ==
    /\ Len(queue) = Bound
    /\ refused' = refused + 1
    /\ UNCHANGED <<queue, consumed>>

Consume ==
    /\ queue # <<>>
    /\ queue' = Tail(queue)
    /\ consumed' = Append(consumed, Head(queue))
    /\ UNCHANGED refused

Next == (\E s \in Samples : Accept(s)) \/ Refuse \/ Consume

Spec == Init /\ [][Next]_qvars
=============================================================================
