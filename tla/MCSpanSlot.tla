----------------------------- MODULE MCSpanSlot -----------------------------
(* Small instances of SpanSlot for TLC. *)
EXTENDS SpanSlot, TLC

CONSTANTS a, b, ca, cb, cnone

MCSpans    == {a, b}
MCContexts == {ca, cb, cnone}
MCSpanOf   == ca :> a @@ cb :> b @@ cnone :> NoSpan
=============================================================================
