------------------------------- MODULE OtlpHttp -------------------------------
(***************************************************************************)
(* The way of a document from the device to the collector over HTTP.       *)
(*                                                                         *)
(* The exporters of the SDK's signals use the component's HTTP client      *)
(* (src/integration/esp_http_client_transport.cpp) through the SDK's       *)
(* OtlpHttpClient and send to the collector; the profiles exporter         *)
(* (src/integration/esp_otlp_http_exporters.cpp) posts by itself and sends *)
(* to the symbolizer (tools/symbolizer/src/symbolizer/__main__.py), which  *)
(* forwards.  Every hop may be given up on a timeout while the other side  *)
(* still works on the request.                                             *)
(*                                                                         *)
(* A document is its exporter and the number of the export.  URLs, headers *)
(* and bodies are left out, except that a body may be cut off.             *)
(***************************************************************************)
EXTENDS Naturals, Sequences

CONSTANTS
    Signals,        \* the exporters that use an EspSession
    Profiles,       \* the profiles exporter
    MaxDocuments    \* bounds the exports of each

ASSUME ProfilesAssumption     == Profiles \notin Signals

Exporters == Signals \cup {Profiles}

ASSUME MaxDocumentsAssumption == MaxDocuments \in [Exporters -> Nat]

Documents == UNION {{e} \X (1 .. MaxDocuments[e]) : e \in Exporters}

VARIABLES
    pc,         \* where an exporter's task is
    exports,    \* how many exports it began: the number of its document
    request,    \* the session's request_ is there
    active,     \* the session's active_
    client,     \* an esp_http_client handle is held
    told,       \* the events the session's handler was told in this export
    shut,       \* the exporters that were shut down
    posts,      \* the requests an exporter sent, oldest first (see Post)
    stored,     \* the documents the collector accepted, in order
    outcome     \* what the exporter knows of each document

device == <<pc, exports, request, active, client, told, shut, outcome>>
vars   == <<device, posts, stored>>

\* The status of a request that was not answered, and three answers; any
\* status below 300 is a success to the exporters and the symbolizer alike.
Waiting     == 0
Ok          == 200
Malformed   == 400
Unavailable == 502
Statuses    == {Waiting, Ok, Malformed, Unavailable}
Success(status) == status < 300

\* A request on its way: the document, whether its body is whole, the answer,
\* and of the symbolizer's own request whether it was sent and its answer.
Post(d) == [doc |-> d, whole |-> TRUE, status |-> Waiting,
            forwarded |-> FALSE, reply |-> Waiting]

Init ==
    /\ pc      = [e \in Exporters |-> "idle"]
    /\ exports = [e \in Exporters |-> 0]
    /\ request = [e \in Exporters |-> FALSE]
    /\ active  = [e \in Exporters |-> FALSE]
    /\ client  = [e \in Exporters |-> FALSE]
    /\ told    = [e \in Exporters |-> <<>>]
    /\ shut    = {}
    /\ posts   = [e \in Exporters |-> <<>>]
    /\ stored  = <<>>
    /\ outcome = [d \in Documents |-> "unknown"]

Doc(e)        == <<e, exports[e]>>
Last(e)       == posts[e][Len(posts[e])]
Goto(e, step) == pc' = [pc EXCEPT ![e] = step]
Tell(e, what) == told' = [told EXCEPT ![e] = Append(@, what)]
Know(d, what) == outcome' = [outcome EXCEPT ![d] = what]

-----------------------------------------------------------------------------
(* esp_http_client (ESP-IDF, external) *)

\* The request is sent: perform waits for its answer.
Open(e) ==
    /\ client' = [client EXCEPT ![e] = TRUE]
    /\ posts' = [posts EXCEPT ![e] = Append(@, Post(Doc(e)))]

\* Perform gives up, at any time: refused, reset or timed out.  The other side
\* may have all of the request, a part of it, or be answering it.
GiveUp(e) ==
    \/ UNCHANGED posts
    \/ /\ Last(e).status = Waiting /\ ~Last(e).forwarded
       /\ posts' = [posts EXCEPT ![e][Len(posts[e])].whole = FALSE]

Close(e) == client' = [client EXCEPT ![e] = FALSE]

-----------------------------------------------------------------------------
(* EspSession, in the task of a signal's exporter *)

\* OtlpHttpExporter::Export; after Shutdown it fails at once.  OtlpHttpClient
\* (external) then creates the session and, if it keeps to the usual order of
\* calls, its request.
Begin(e) ==
    /\ e \in Signals /\ pc[e] = "idle" /\ exports[e] < MaxDocuments[e]
    /\ exports' = [exports EXCEPT ![e] = @ + 1]
    /\ IF e \in shut
         THEN /\ outcome' = [outcome EXCEPT ![<<e, exports[e] + 1>>] = "failed"]
              /\ UNCHANGED <<pc, request>>
         ELSE /\ Goto(e, "send")
              /\ \E r \in BOOLEAN : request' = [request EXCEPT ![e] = r]
              /\ UNCHANGED outcome
    /\ UNCHANGED <<active, client, told, shut, posts, stored>>

\* SendRequest
SendRequest(e) ==
    /\ pc[e] = "send"
    /\ IF request[e]
         THEN /\ active' = [active EXCEPT ![e] = TRUE]
              /\ Goto(e, "init")
              /\ UNCHANGED told
         ELSE /\ Tell(e, "CreateFailed")
              /\ Goto(e, "wait")
              /\ UNCHANGED active
    /\ UNCHANGED <<exports, request, client, shut, posts, stored, outcome>>

\* What the handler hears of a null handle; the variant only returns.
NoClientSilently(e) == UNCHANGED told
NoClient(e)         == Tell(e, "CreateFailed")

\* PerformSync up to esp_http_client_perform.
OpenSession(e) ==
    /\ pc[e] = "init"
    /\ \/ Open(e) /\ Goto(e, "perform") /\ UNCHANGED told
       \/ NoClient(e) /\ Goto(e, "return") /\ UNCHANGED <<client, posts>>
    /\ UNCHANGED <<exports, request, active, shut, stored, outcome>>

\* Where PerformSync goes after an error: the variant returns at once.
ReturnAtOnce(e) == "return"
AfterError(e)   == "cleanup"

SessionFails(e) ==
    /\ e \in Signals /\ pc[e] = "perform"
    /\ GiveUp(e)
    /\ Tell(e, "NetworkError")
    /\ Goto(e, AfterError(e))
    /\ UNCHANGED <<exports, request, active, client, shut, stored, outcome>>

\* OnResponse, whose body is what could be read, and OnEvent.
SessionAnswered(e) ==
    /\ e \in Signals /\ pc[e] = "perform"
    /\ Last(e).status # Waiting
    /\ told' = [told EXCEPT ![e] = @ \o <<"OnResponse", "Response">>]
    /\ Goto(e, "cleanup")
    /\ UNCHANGED <<exports, request, active, client, shut, posts, stored, outcome>>

CleanUp(e) ==
    /\ pc[e] = "cleanup"
    /\ Close(e)
    /\ Goto(e, "return")
    /\ UNCHANGED <<exports, request, active, told, shut, posts, stored, outcome>>

\* SendRequest returns.
Return(e) ==
    /\ pc[e] = "return"
    /\ active' = [active EXCEPT ![e] = FALSE]
    /\ Goto(e, "wait")
    /\ UNCHANGED <<exports, request, client, told, shut, posts, stored, outcome>>

\* WaitForResponse (external): it waits for the handler to be told an end.
\* The exporter logs the result, the processor is told kSuccess either way,
\* and the session ends.
Told(e, what) == \E k \in 1 .. Len(told[e]) : told[e][k] = what
Finish(e) ==
    /\ pc[e] = "wait" /\ told[e] # <<>>
    /\ Know(Doc(e), IF Told(e, "Response") /\ Success(Last(e).status)
                      THEN "delivered" ELSE "failed")
    /\ told' = [told EXCEPT ![e] = <<>>]
    /\ request' = [request EXCEPT ![e] = FALSE]
    /\ Goto(e, "idle")
    /\ UNCHANGED <<exports, active, client, shut, posts, stored>>

\* Shutdown, from any task.  The CancelSession, FinishSession,
\* CancelAllSessions and FinishAllSessions it may call stop nothing.
Shutdown(e) ==
    /\ e \in Signals
    /\ shut' = shut \cup {e}
    /\ UNCHANGED <<pc, exports, request, active, client, told, posts, stored, outcome>>

-----------------------------------------------------------------------------
(* OtlpHttpProfilesExporter::Export, in the profiler's export task *)

BeginProfiles(e) ==
    /\ e = Profiles /\ pc[e] = "idle" /\ exports[e] < MaxDocuments[e]
    /\ exports' = [exports EXCEPT ![e] = @ + 1]
    /\ Goto(e, "open")
    /\ UNCHANGED <<request, active, client, told, shut, posts, stored, outcome>>

OpenProfiles(e) ==
    /\ pc[e] = "open"
    /\ \/ Open(e) /\ Goto(e, "perform") /\ UNCHANGED outcome
       \/ Know(Doc(e), "failed") /\ Goto(e, "idle") /\ UNCHANGED <<client, posts>>
    /\ UNCHANGED <<exports, request, active, told, shut, stored>>

ProfilesFail(e) ==
    /\ e = Profiles /\ pc[e] = "perform"
    /\ GiveUp(e)
    /\ Know(Doc(e), "failed")
    /\ Goto(e, "close")
    /\ UNCHANGED <<exports, request, active, client, told, shut, stored>>

ProfilesAnswered(e) ==
    /\ e = Profiles /\ pc[e] = "perform"
    /\ Last(e).status # Waiting
    /\ Know(Doc(e), IF Success(Last(e).status) THEN "delivered" ELSE "failed")
    /\ Goto(e, "close")
    /\ UNCHANGED <<exports, request, active, client, told, shut, posts, stored>>

\* Export returns to publish(), which goes on with the next window.
CloseProfiles(e) ==
    /\ pc[e] = "close"
    /\ Close(e)
    /\ Goto(e, "idle")
    /\ UNCHANGED <<exports, request, active, told, shut, posts, stored, outcome>>

-----------------------------------------------------------------------------
(* The symbolizer: a thread for each request *)

\* The request and its answer.
Answer(e, k, status) == posts' = [posts EXCEPT ![e][k].status = status]
Unanswered(e, k)     == k \in 1 .. Len(posts[e]) /\ posts[e][k].status = Waiting

\* do_POST up to _forward: a body that is cut off is no JSON; one that cannot
\* be symbolized is forwarded as it is.
Receive(k) ==
    /\ Unanswered(Profiles, k) /\ ~posts[Profiles][k].forwarded
    /\ IF posts[Profiles][k].whole
         THEN posts' = [posts EXCEPT ![Profiles][k].forwarded = TRUE]
         ELSE Answer(Profiles, k, Malformed)
    /\ UNCHANGED <<device, stored>>

\* What the device is told of the collector's answer.
Relayed(reply)    == IF Success(reply) THEN reply ELSE Unavailable

Relay(k) ==
    /\ Unanswered(Profiles, k) /\ posts[Profiles][k].reply # Waiting
    /\ Answer(Profiles, k, Relayed(posts[Profiles][k].reply))
    /\ UNCHANGED <<device, stored>>

\* _forward after its timeout or a lost connection: the answer may be on its
\* way.  The variant tries again.
ForwardAgain(k)     == posts' = [posts EXCEPT ![Profiles][k].reply = Waiting]
ReportCollector(k)  == Answer(Profiles, k, Unavailable)

ForwardFails(k) ==
    /\ Unanswered(Profiles, k) /\ posts[Profiles][k].forwarded
    /\ ReportCollector(k)
    /\ UNCHANGED <<device, stored>>

-----------------------------------------------------------------------------
(* The collector (external) *)

\* A request of a signal's exporter.
Collect(e, k) ==
    /\ e \in Signals /\ Unanswered(e, k)
    /\ \/ /\ posts[e][k].whole
          /\ stored' = Append(stored, posts[e][k].doc) /\ Answer(e, k, Ok)
       \/ Answer(e, k, IF posts[e][k].whole THEN Unavailable ELSE Malformed)
            /\ UNCHANGED stored
    /\ UNCHANGED device

\* A request of the symbolizer, whether or not it still waits.
CollectForwarded(k) ==
    /\ k \in 1 .. Len(posts[Profiles])
    /\ posts[Profiles][k].forwarded /\ posts[Profiles][k].reply = Waiting
    /\ \E reply \in {Ok, Unavailable} :
         /\ posts' = [posts EXCEPT ![Profiles][k].reply = reply]
         /\ stored' = IF reply = Ok THEN Append(stored, posts[Profiles][k].doc) ELSE stored
    /\ UNCHANGED device

-----------------------------------------------------------------------------
\* One step of an export in progress.
Proceed(e) ==
    \/ SendRequest(e) \/ OpenSession(e) \/ SessionFails(e) \/ SessionAnswered(e)
    \/ CleanUp(e) \/ Return(e) \/ Finish(e)
    \/ OpenProfiles(e) \/ ProfilesFail(e) \/ ProfilesAnswered(e) \/ CloseProfiles(e)

Host(k) == Receive(k) \/ Relay(k) \/ ForwardFails(k) \/ CollectForwarded(k)

Next ==
    \/ \E e \in Exporters : Begin(e) \/ BeginProfiles(e) \/ Proceed(e) \/ Shutdown(e)
    \/ \E k \in 1 .. Len(posts[Profiles]) : Host(k)
    \/ \E e \in Signals : \E k \in 1 .. Len(posts[e]) : Collect(e, k)

\* An exporter's task runs on, and esp_http_client_perform returns by the
\* timeout at the latest.  Nothing makes a host answer.
Fairness == \A e \in Exporters : WF_vars(Proceed(e))

Spec     == Init /\ [][Next]_vars
FairSpec == Spec /\ Fairness

-----------------------------------------------------------------------------
Steps == {"idle", "send", "init", "perform", "cleanup", "return", "wait", "open", "close"}

Requests == [doc : Documents, whole : BOOLEAN, status : Statuses,
             forwarded : BOOLEAN, reply : Statuses]

TypeOK ==
    /\ pc \in [Exporters -> Steps]
    /\ \A e \in Exporters : exports[e] \in 0 .. MaxDocuments[e]
    /\ request \in [Exporters -> BOOLEAN]
    /\ active \in [Exporters -> BOOLEAN]
    /\ client \in [Exporters -> BOOLEAN]
    /\ told \in [Exporters -> Seq({"CreateFailed", "NetworkError", "OnResponse", "Response"})]
    /\ shut \subseteq Signals
    /\ posts \in [Exporters -> Seq(Requests)]
    /\ stored \in Seq(Documents)
    /\ outcome \in [Documents -> {"unknown", "delivered", "failed"}]

Ends(e) == {k \in 1 .. Len(told[e]) : told[e][k] # "OnResponse"}

\* Whichever way a request ends - no request object, no client, an error, an
\* answer - its handler is told of exactly one end, before SendRequest
\* returns, the client's handle is given back, and the session is not left
\* active.
OneEndPerRequest ==
    /\ TypeOK
    /\ \A e \in Exporters :
        /\ pc[e] \in {"send", "init", "perform"} => Ends(e) = {}
        /\ pc[e] \in {"cleanup", "return", "wait"} =>
               \E k \in Ends(e) : Ends(e) = {k}
        /\ pc[e] \in {"idle", "wait"} => ~active[e] /\ ~client[e]

D == INSTANCE Delivery

\* The exporters, the symbolizer and the collector deliver as Delivery promises,
\* although the symbolizer answers for the collector and any of them may give
\* a request up while the next still works on it: a document is stored at most
\* once, possibly after its exporter gave it up, and what an exporter takes for
\* delivered is stored.
ImplementsDelivery == D!DSpec

\* Every export returns, whether or not a host ever answers.
EveryExportReturns == \A e \in Exporters : pc[e] # "idle" ~> pc[e] = "idle"
=============================================================================
