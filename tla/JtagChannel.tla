----------------------------- MODULE JtagChannel -----------------------------
(***************************************************************************)
(* The shared writer of src/integration/esp_jtag_channel.cpp and the       *)
(* exporters of src/integration/esp_jtag_exporters.cpp: the tasks that     *)
(* export spans, logs, metrics and profiles write whole documents to the   *)
(* one app-trace channel, in chunks, under one lock.                       *)
(*                                                                         *)
(* A document is a record of the number of bytes of its body and of the    *)
(* newlines its serialiser left at its end.  The channel is the pair of    *)
(* blocks the comments of that file and examples/jtag/README.md describe:  *)
(* the target fills one while the host reads the other.  Without a host it *)
(* is in post-mortem mode, in which the blocks are recycled unread.        *)
(***************************************************************************)
EXTENDS Naturals, Sequences, FiniteSets

CONSTANTS
    Tasks,          \* the tasks that export a signal
    Profiler,       \* the one that exports profiles
    Documents,      \* the [body, trailing] documents they write
    MaxDocuments,   \* bounds the documents of each task
    ChunkSize,      \* CONFIG_ESP_OPENTELEMETRY_JTAG_CHUNK_SIZE, in bytes
    BlockSize,      \* what one app-trace block holds, in bytes
    Newline,        \* the byte that ends a line
    NoTask, NoLock  \* the lock is free; the lock could not be created

ASSUME DocumentsAssumption ==
    \A d \in Documents : d.body \in Nat /\ d.trailing \in Nat
ASSUME ProfilerAssumption == Profiler \in Tasks
\* "Each chunk has to fit": a chunk is never larger than an empty block.
ASSUME ChunkAssumption ==
    ChunkSize \in Nat /\ BlockSize \in Nat /\ 1 <= ChunkSize /\ ChunkSize <= BlockSize
ASSUME MaxDocumentsAssumption == MaxDocuments \in Nat
ASSUME LockAssumption == NoTask \notin Tasks /\ NoLock \notin Tasks /\ NoLock # NoTask

VARIABLES
    lock,       \* DocumentLock(): its holder, NoTask or NoLock
    pc,         \* where the task is in WriteDocument
    doc,        \* the document it writes
    offset,     \* WriteChunked: how much of it is written
    ok,         \* whether WriteChunked wrote all of it
    filling,    \* the block the target fills
    exposed,    \* the block the host has not read yet
    gone,       \* every byte that has left the blocks, read by the host or recycled
    connected,  \* whether a host is connected
    calls,      \* history: how many documents the task was given
    returned,   \* history: the documents an exporter returned true or false for
    unended,    \* history: the documents whose newline was not written
    unread,     \* history: the documents of which bytes were recycled unread
    attended    \* history: a host was connected ever since the profiler's last call

blocks   == <<filling, exposed, gone, unread>>
presence == <<connected, attended>>
channel  == <<blocks, presence>>
vars == <<lock, pc, doc, offset, ok, channel, calls, returned, unended>>

Ids == Tasks \X (1 .. MaxDocuments)
\* No byte of a document is taken for a newline: a body's own are escaped.
ASSUME NewlineAssumption == Newline \notin Ids \X Nat

Current(t) == <<t, calls[t]>>

\* A document's size without its trailing newlines.
Size(d) == d.body

\* The i-th byte of the task's document: of its body, or a newline.
Byte(t, i) == IF i <= doc[t].body THEN <<Current(t), i>> ELSE Newline
Bytes(t, from, n) == [i \in 1 .. n |-> Byte(t, from + i)]

Init ==
    /\ lock \in {NoTask, NoLock}        \* xSemaphoreCreateMutex may fail
    /\ pc       = [t \in Tasks |-> "idle"]
    /\ doc      \in [Tasks -> {[body |-> 0, trailing |-> 0]}]
    /\ offset   = [t \in Tasks |-> 0]
    /\ ok       = [t \in Tasks |-> FALSE]
    /\ filling  = <<>> /\ exposed = <<>> /\ gone = <<>>
    /\ calls    = [t \in Tasks |-> 0]
    /\ returned = {}
    /\ unended  = {} /\ unread = {}
    /\ connected \in BOOLEAN /\ attended = FALSE

-----------------------------------------------------------------------------
(* The app-trace channel (ESP-IDF, external) *)

\* The blocks can be swapped when the host has read the other one, or when
\* there is no host to wait for.
CanSwap == exposed = <<>> \/ ~connected

\* A write fits the block being filled, or the blocks are swapped.  Otherwise it
\* waits and finally fails.
HasSpace(n) == Len(filling) + n <= BlockSize \/ CanSwap

DocumentsIn(block) == {b[1] : b \in {block[i] : i \in 1 .. Len(block)} \ {Newline}}

\* The other block is filled anew, with `next'; what it held is overwritten.
Swap(next) ==
    /\ exposed' = filling /\ filling' = next
    /\ gone' = gone \o exposed
    /\ unread' = unread \cup DocumentsIn(exposed)

Put(bytes) ==
    /\ HasSpace(Len(bytes))
    /\ IF Len(filling) + Len(bytes) <= BlockSize
         THEN filling' = filling \o bytes /\ UNCHANGED <<exposed, gone, unread>>
         ELSE Swap(bytes)
    /\ UNCHANGED presence

\* esp_apptrace_flush hands over the block being filled, or times out when the
\* host still has the other one.
FlushChannel ==
    /\ IF CanSwap THEN Swap(<<>>) ELSE UNCHANGED blocks
    /\ UNCHANGED presence

\* OpenOCD reads the exposed block.
HostRead ==
    /\ connected /\ exposed # <<>>
    /\ gone' = gone \o exposed
    /\ exposed' = <<>>
    /\ UNCHANGED <<lock, pc, doc, offset, ok, filling, unread, presence, calls, returned, unended>>

\* OpenOCD is started, and stopped, at any time.
HostComes ==
    /\ ~connected
    /\ connected' = TRUE
    /\ UNCHANGED <<lock, pc, doc, offset, ok, blocks, attended, calls, returned, unended>>
HostLeaves ==
    /\ connected
    /\ connected' = FALSE /\ attended' = FALSE
    /\ UNCHANGED <<lock, pc, doc, offset, ok, blocks, calls, returned, unended>>

-----------------------------------------------------------------------------
(* WriteDocument *)

\* The tasks whose exporters share the AppTraceAppender.
Signals == Tasks \ {Profiler}

\* JtagProfilesExporter::Export returns WriteDocument's result; the appender
\* drops it, and the SDK's exporter (external) reports success.
Answer(t, result) == t \in Signals \/ result

Return(t, id, result) ==
    /\ pc' = [pc EXCEPT ![t] = "idle"]
    /\ returned' = returned \cup {<<id, Answer(t, result)>>}

\* An exporter's Export.  Nothing but newlines is a success that writes nothing; without a lock the
\* document is dropped.
Call(t, d) ==
    /\ pc[t] = "idle"
    /\ calls[t] < MaxDocuments
    /\ calls' = [calls EXCEPT ![t] = @ + 1]
    /\ doc' = [doc EXCEPT ![t] = d]
    /\ \/ Size(d) = 0 /\ Return(t, <<t, calls[t] + 1>>, TRUE)
       \/ Size(d) > 0 /\ lock = NoLock /\ Return(t, <<t, calls[t] + 1>>, FALSE)
       \/ /\ Size(d) > 0 /\ lock # NoLock
          /\ pc' = [pc EXCEPT ![t] = "take"]
          /\ UNCHANGED returned
    /\ attended' = IF t = Profiler THEN connected ELSE attended
    /\ UNCHANGED <<lock, offset, ok, blocks, connected, unended>>

\* A writer that does not wait for the lock's holder.
TakeAnyway(t) ==
    /\ pc[t] = "take"
    /\ lock' = t
    /\ offset' = [offset EXCEPT ![t] = 0]
    /\ pc' = [pc EXCEPT ![t] = "chunk"]
    /\ UNCHANGED <<doc, ok, channel, calls, returned, unended>>

\* xSemaphoreTake(lock, portMAX_DELAY)
Take(t) ==
    /\ pc[t] = "take"
    /\ lock = NoTask
    /\ lock' = t
    /\ offset' = [offset EXCEPT ![t] = 0]
    /\ pc' = [pc EXCEPT ![t] = "chunk"]
    /\ UNCHANGED <<doc, ok, channel, calls, returned, unended>>

Chunk(t) == LET left == Size(doc[t]) - offset[t]
            IN  IF left < ChunkSize THEN left ELSE ChunkSize

\* WriteChunked: one chunk; after the last one the document is whole.
WriteChunk(t) ==
    /\ pc[t] = "chunk"
    /\ Put(Bytes(t, offset[t], Chunk(t)))
    /\ offset' = [offset EXCEPT ![t] = @ + Chunk(t)]
    /\ IF offset'[t] = Size(doc[t])
         THEN pc' = [pc EXCEPT ![t] = "newline"] /\ ok' = [ok EXCEPT ![t] = TRUE]
         ELSE UNCHANGED <<pc, ok>>
    /\ UNCHANGED <<lock, doc, calls, returned, unended>>

\* What WriteDocument does after a failed chunk: end the line it began.
NeverEnd(t)     == "give"
AfterFailure(t) == IF offset[t] > 0 THEN "newline" ELSE "give"

\* WriteChunked: the host did not make room within the timeout.
ChunkFails(t) ==
    /\ pc[t] = "chunk"
    /\ ~HasSpace(Chunk(t))
    /\ ok' = [ok EXCEPT ![t] = FALSE]
    /\ pc' = [pc EXCEPT ![t] = AfterFailure(t)]
    /\ UNCHANGED <<lock, doc, offset, channel, calls, returned, unended>>

AfterNewline(t) == pc' = [pc EXCEPT ![t] = IF ok[t] THEN "flush" ELSE "give"]

WriteNewline(t) ==
    /\ pc[t] = "newline"
    /\ Put(<<Newline>>)
    /\ AfterNewline(t)
    /\ UNCHANGED <<lock, doc, offset, ok, calls, returned, unended>>

\* The newline's own result is ignored.
NewlineFails(t) ==
    /\ pc[t] = "newline"
    /\ ~HasSpace(1)
    /\ AfterNewline(t)
    /\ unended' = unended \cup {Current(t)}
    /\ UNCHANGED <<lock, doc, offset, ok, channel, calls, returned>>

\* The flush's result is logged.
FlushDocument(t) ==
    /\ pc[t] = "flush"
    /\ FlushChannel
    /\ pc' = [pc EXCEPT ![t] = "give"]
    /\ UNCHANGED <<lock, doc, offset, ok, calls, returned, unended>>

\* A writer that leaves with the lock when its document was cut short.
GiveOnSuccess(t) ==
    /\ pc[t] = "give"
    /\ lock' = IF ok[t] THEN NoTask ELSE lock
    /\ Return(t, Current(t), ok[t])
    /\ UNCHANGED <<doc, offset, ok, channel, calls, unended>>

\* A writer that reports the call it made, not the one that failed.
GiveReportingWritten(t) ==
    /\ pc[t] = "give"
    /\ lock' = NoTask
    /\ Return(t, Current(t), offset[t] > 0)
    /\ UNCHANGED <<doc, offset, ok, channel, calls, unended>>

Give(t) ==
    /\ pc[t] = "give"
    /\ lock' = NoTask
    /\ Return(t, Current(t), ok[t])
    /\ UNCHANGED <<doc, offset, ok, channel, calls, unended>>

\* Flush(), without the lock.
Flush == FlushChannel

\* AppTraceAppender::ForceFlush and ::Shutdown, from any task.
ForceFlush ==
    /\ Flush
    /\ UNCHANGED <<lock, pc, doc, offset, ok, calls, returned, unended>>

Write(t) == Take(t) \/ WriteChunk(t) \/ ChunkFails(t) \/ WriteNewline(t)
                \/ NewlineFails(t) \/ FlushDocument(t) \/ Give(t)

Next ==
    \/ \E t \in Tasks : (\E d \in Documents : Call(t, d)) \/ Write(t)
    \/ ForceFlush
    \/ HostRead \/ HostComes \/ HostLeaves

\* A task inside WriteDocument runs, and waits for the lock for ever if need
\* be; each of its waits for the channel is bounded by a timeout.  Nothing
\* makes the host come or read.
Fairness == \A t \in Tasks : WF_vars(Write(t))

Spec     == Init /\ [][Next]_vars
FairSpec == Spec /\ Fairness

-----------------------------------------------------------------------------
\* Everything the channel accepted, in order.
Stream == gone \o exposed \o filling

TypeOK ==
    /\ lock \in Tasks \cup {NoTask, NoLock}
    /\ pc \in [Tasks -> {"idle", "take", "chunk", "newline", "flush", "give"}]
    /\ \A t \in Tasks : offset[t] <= Size(doc[t]) \/ pc[t] \in {"idle", "take"}
    /\ ok \in [Tasks -> BOOLEAN]
    /\ Len(filling) <= BlockSize /\ Len(exposed) <= BlockSize
    /\ calls \in [Tasks -> 0 .. MaxDocuments]
    /\ returned \in SUBSET (Ids \X BOOLEAN)
    /\ unended \in SUBSET Ids /\ unread \in SUBSET Ids
    /\ connected \in BOOLEAN /\ attended \in BOOLEAN

IsBodyByte(k) == Stream[k] # Newline

\* The bytes of a document lie side by side in the stream, in order and from
\* the first on, whatever the other tasks write and whichever write fails:
\* documents never interleave.
DocumentsAreContiguous ==
    /\ TypeOK
    /\ \A k \in 1 .. Len(Stream) :
        IsBodyByte(k) =>
            LET id == Stream[k][1]
                i  == Stream[k][2]
            IN  /\ i > 1 => k > 1 /\ Stream[k - 1] = <<id, i - 1>>
                /\ \A j \in 1 .. k - 1 : Stream[j] # Stream[k]

\* "data, then exactly one newline (a newline already at the end of data is
\* not doubled)": no line is empty, and two documents share one only where the
\* newline of the first could not be written, so that every document begun is
\* ended unless even that write failed.
ExactlyOneNewline ==
    \A k \in 1 .. Len(Stream) :
        /\ Stream[k] = Newline => k > 1 /\ IsBodyByte(k - 1)
        /\ k > 1 /\ IsBodyByte(k) /\ IsBodyByte(k - 1) /\ Stream[k][1] # Stream[k - 1][1] =>
               Stream[k - 1][1] \in unended

Written(id) == {i \in 1 .. Len(Stream) : IsBodyByte(i) /\ Stream[i][1] = id}

\* The profiler, the only caller that is told a result, is told TRUE if and only
\* if the channel accepted every byte of its document.  That says nothing of a
\* host: without one the blocks are recycled.  But as long as a host has been
\* connected since the call, no byte of the document was lost unread.
ResultTellsWhatWasWritten ==
    LET id == Current(Profiler)
    IN  pc[Profiler] = "idle" /\ calls[Profiler] > 0 =>
            /\ <<id, TRUE>> \in returned <=> Cardinality(Written(id)) = doc[Profiler].body
            /\ attended => id \notin unread

\* Every call returns, whether or not the host ever reads: no task is left
\* waiting for a lock that was not given back.
EveryCallReturns == \A t \in Tasks : pc[t] # "idle" ~> pc[t] = "idle"

\* examples/jtag/README.md: "a line is always one complete request body,
\* never a mix".
LineIsNeverAMix ==
    \A k \in 2 .. Len(Stream) :
        IsBodyByte(k) /\ IsBodyByte(k - 1) => Stream[k][1] = Stream[k - 1][1]
=============================================================================
