------------------------------ MODULE MCProfiler ------------------------------
(* Small instances of ProfileWindow, the contents of the profiler's windows,   *)
(* and of DrainTiming, their clocks.  The two share no variable: a behaviour   *)
(* is one of either.                                                           *)
EXTENDS ProfileWindow, DrainTiming

\* Samples that only the right key tells apart, or only a wrong one does:
\* bytes that may belong to the name or to the addresses, leftovers after the
\* name, a stale span.
MCSamplesOf(c) ==
    {[core |-> c, name |-> <<1>>, rest |-> <<>>, has_span |-> FALSE, span |-> 5, pcs |-> <<2, 3>>],
     [core |-> c, name |-> <<1, 2>>, rest |-> <<>>, has_span |-> FALSE, span |-> 6, pcs |-> <<3>>],
     [core |-> c, name |-> <<1>>, rest |-> <<9>>, has_span |-> FALSE, span |-> 6, pcs |-> <<2, 3>>],
     [core |-> c, name |-> <<1>>, rest |-> <<>>, has_span |-> TRUE, span |-> 5, pcs |-> <<2, 3>>]}

MCInit == Init /\ TimingInit
MCNext ==
    \/ TimingInit /\ Next /\ UNCHANGED timingVars
    \/ Init /\ TimingNext /\ UNCHANGED vars
MCSpec == MCInit /\ [][MCNext]_<<vars, timingVars>>
=============================================================================
