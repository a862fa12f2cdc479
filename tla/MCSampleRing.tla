---------------------------- MODULE MCSampleRing ----------------------------
(* Small instances of SampleRing for TLC. *)
EXTENDS SampleRing, TLC

CONSTANTS s1, s2, a, none

MCStacks == {s1, s2}
MCSpans  == {a, none}

=============================================================================
