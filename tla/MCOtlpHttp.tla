------------------------------ MODULE MCOtlpHttp ------------------------------
(* A small instance of OtlpHttp for TLC. *)
EXTENDS OtlpHttp

CONSTANTS traces, profiles

MCSignals == {traces}
MCMaxDocuments == [e \in {traces, profiles} |-> 2]
=============================================================================
