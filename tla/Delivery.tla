------------------------------- MODULE Delivery -------------------------------
(***************************************************************************)
(* What exporting over HTTP promises, whatever happens to the requests: an *)
(* exporter sends one document after the other, each of which the          *)
(* collector stores at most once, perhaps later than the exporter gave it  *)
(* up, and the exporter takes for delivered only what is stored.           *)
(***************************************************************************)
EXTENDS Naturals, Sequences

CONSTANTS
    Exporters,
    MaxDocuments    \* bounds the documents of each

Documents == UNION {{e} \X (1 .. MaxDocuments[e]) : e \in Exporters}

VARIABLES
    exports,    \* the number of each exporter's last document
    stored,     \* what the collector accepted, in order
    outcome     \* what the exporter knows of each document

dvars == <<exports, stored, outcome>>

DInit ==
    /\ exports = [e \in Exporters |-> 0]
    /\ stored  = <<>>
    /\ outcome = [d \in Documents |-> "unknown"]

Submitted(d) == d[2] <= exports[d[1]]
IsStored(d)  == \E k \in 1 .. Len(stored) : stored[k] = d

\* The next document, when the fate of the one before is known; it may fail at
\* once.
Submit(e) ==
    /\ exports[e] < MaxDocuments[e]
    /\ exports[e] > 0 => outcome[<<e, exports[e]>>] # "unknown"
    /\ exports' = [exports EXCEPT ![e] = @ + 1]
    /\ \/ UNCHANGED outcome
       \/ outcome' = [outcome EXCEPT ![<<e, exports[e] + 1>>] = "failed"]
    /\ UNCHANGED stored

Store(d) ==
    /\ Submitted(d) /\ ~IsStored(d)
    /\ stored' = Append(stored, d)
    /\ UNCHANGED <<exports, outcome>>

Confirm(d) ==
    /\ Submitted(d) /\ IsStored(d) /\ outcome[d] = "unknown"
    /\ outcome' = [outcome EXCEPT ![d] = "delivered"]
    /\ UNCHANGED <<exports, stored>>

GiveUp(d) ==
    /\ Submitted(d) /\ outcome[d] = "unknown"
    /\ outcome' = [outcome EXCEPT ![d] = "failed"]
    /\ UNCHANGED <<exports, stored>>

DNext ==
    \/ \E e \in Exporters : Submit(e)
    \/ \E d \in Documents : Store(d) \/ Confirm(d) \/ GiveUp(d)

DSpec == DInit /\ [][DNext]_dvars

-----------------------------------------------------------------------------
\* What an exporter takes for delivered the collector has stored.
DeliveredMeansStored == \A d \in Documents : outcome[d] = "delivered" => IsStored(d)

\* No document is stored twice, and a document that a later one of its exporter
\* overtakes is one that the exporter has given up.
OnceAndInOrder ==
    \A i, j \in 1 .. Len(stored) :
        i < j =>
            /\ stored[i] # stored[j]
            /\ stored[i][1] = stored[j][1] /\ stored[i][2] > stored[j][2] =>
                   outcome[stored[j]] = "failed"
=============================================================================
