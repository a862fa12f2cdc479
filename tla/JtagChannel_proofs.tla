-------------------------- MODULE JtagChannel_proofs --------------------------
(***************************************************************************)
(* Of JtagChannel, for any number of tasks, any documents and any sizes of *)
(* chunk and block: documents never interleave in the stream, each begun   *)
(* line is ended or known not to be, and the results tell what was         *)
(* written.                                                                *)
(***************************************************************************)
EXTENDS JtagChannel, SequenceTheorems, FiniteSetTheorems, TLAPS

(* The stream is what all blocks hold together; the steps of the channel   *)
(* itself move bytes between blocks and leave it alone, so that the        *)
(* invariant is about the stream and the task that holds the lock.         *)

Elements == {Newline} \cup (Ids \X (Nat \ {0}))
Empty    == [body |-> 0, trailing |-> 0]
Held     == {"chunk", "newline", "flush", "give"}

Types ==
    /\ lock \in Tasks \cup {NoTask, NoLock}
    /\ pc \in [Tasks -> {"idle", "take"} \cup Held]
    /\ doc \in [Tasks -> Documents \cup {Empty}]
    /\ offset \in [Tasks -> Nat]
    /\ ok \in [Tasks -> BOOLEAN]
    /\ filling \in Seq(Elements) /\ exposed \in Seq(Elements) /\ gone \in Seq(Elements)
    /\ Len(filling) <= BlockSize /\ Len(exposed) <= BlockSize
    /\ calls \in [Tasks -> 0 .. MaxDocuments]
    /\ returned \subseteq Ids \X BOOLEAN
    /\ unended \subseteq Ids

\* The lock: its holder, and nobody else, is between taking and giving it.
Mutex == \A t \in Tasks : pc[t] \in Held <=> lock = t

\* A call under way is counted; the document it writes is not empty, and what
\* WriteChunked did so far agrees with where the task is.
Progress(t) ==
    /\ pc[t] # "idle" => calls[t] > 0 /\ doc[t].body > 0
    /\ pc[t] \in Held => offset[t] <= doc[t].body
    /\ pc[t] = "chunk" => offset[t] < doc[t].body
    /\ pc[t] = "newline" => offset[t] > 0
    /\ pc[t] = "flush" => ok[t]
    /\ pc[t] \in {"newline", "flush", "give"} => (ok[t] <=> offset[t] = doc[t].body)

\* The stream holds bytes of documents that were given to a task, and results
\* are of calls that have returned.
StreamIsOfCalls ==
    \A k \in 1 .. Len(Stream) :
        IsBodyByte(k) => Stream[k][1][2] <= calls[Stream[k][1][1]]
ResultsAreOfCalls ==
    \A t \in Tasks, n \in 1 .. MaxDocuments, b \in BOOLEAN :
        <<<<t, n>>, b>> \in returned => n <= calls[t] /\ (n = calls[t] => pc[t] = "idle")

\* The bytes of a task's last document that are in the stream: n of them, from
\* position p + 1 on, in order.
Lies(t, p, n) ==
    /\ p + n <= Len(Stream)
    /\ \A k \in 1 .. Len(Stream) :
         IF k \in p + 1 .. p + n THEN Stream[k] = <<Current(t), k - p>>
                                 ELSE IsBodyByte(k) => Stream[k][1] # Current(t)

\* How many they are at each step of a call, and what its result says of them.
Counts(t, n) ==
    /\ pc[t] = "take" => n = 0
    /\ pc[t] \in Held => n = offset[t]
    /\ pc[t] = "idle" =>
         (<<Current(t), TRUE>> \in returned <=> t \in Signals \/ n = doc[t].body)

Laid(t) == calls[t] > 0 => \E p \in Nat, n \in 0 .. doc[t].body : Lies(t, p, n) /\ Counts(t, n)

\* The task that writes a document appends to the bytes it has written ...
AtEnd(t) ==
    pc[t] \in {"chunk", "newline"} /\ offset[t] > 0 =>
        Len(Stream) > 0 /\ Stream[Len(Stream)] = <<Current(t), offset[t]>>

\* ... and otherwise the stream ends with a newline, or with the document whose
\* newline could not be written.
LineIsEnded ==
    Len(Stream) > 0 /\ IsBodyByte(Len(Stream)) =>
        \/ Stream[Len(Stream)][1] \in unended
        \/ \E t \in Tasks : /\ pc[t] \in {"chunk", "newline"} /\ offset[t] > 0
                            /\ Stream[Len(Stream)][1] = Current(t)

\* DocumentsAreContiguous without its type invariant.
Contiguous ==
    \A k \in 1 .. Len(Stream) :
        IsBodyByte(k) =>
            /\ Stream[k][2] > 1 => k > 1 /\ Stream[k - 1] = <<Stream[k][1], Stream[k][2] - 1>>
            /\ \A j \in 1 .. k - 1 : Stream[j] # Stream[k]

IInv ==
    /\ Types /\ Mutex
    /\ \A t \in Tasks : Progress(t) /\ Laid(t) /\ AtEnd(t)
    /\ StreamIsOfCalls /\ ResultsAreOfCalls
    /\ LineIsEnded /\ Contiguous /\ ExactlyOneNewline

-----------------------------------------------------------------------------
(* The stream *)

LEMMA StreamType == ASSUME Types PROVE Stream \in Seq(Elements) /\ Len(Stream) \in Nat
BY ConcatProperties, LenProperties DEF Types, Stream

\* What a byte of a document is.
LEMMA ByteFacts ==
    ASSUME Types, NEW k \in 1 .. Len(Stream), IsBodyByte(k)
    PROVE  /\ Stream[k] \in Ids \X (Nat \ {0})
           /\ Stream[k] = <<Stream[k][1], Stream[k][2]>>
           /\ Stream[k][1] \in Ids /\ Stream[k][2] \in Nat \ {0}
           /\ Stream[k][1][1] \in Tasks /\ Stream[k][1][2] \in 1 .. MaxDocuments
           /\ Stream[k][1] = <<Stream[k][1][1], Stream[k][1][2]>>
<1>1. Stream[k] \in Elements
  BY StreamType, ElementOfSeq
<1> QED BY <1>1 DEF Elements, IsBodyByte, Ids

LEMMA BodyIsNat == ASSUME Types, NEW t \in Tasks PROVE doc[t].body \in Nat
<1>1. doc[t] \in Documents \cup {Empty}
  BY DEF Types
<1> QED BY <1>1, DocumentsAssumption DEF Empty

LEMMA NewlineIsNoByte == \A e \in Ids \X Nat : e # Newline
BY NewlineAssumption

LEMMA Associative ==
    ASSUME NEW s \in Seq(Elements), NEW t \in Seq(Elements), NEW u \in Seq(Elements)
    PROVE  s \o (t \o u) = (s \o t) \o u
BY ConcatAssociative, SMTT(30)

\* A write to the channel, wherever it goes, lengthens the stream.
LEMMA PutGrows ==
    ASSUME Types, NEW b \in Seq(Elements), Len(b) <= BlockSize, Put(b)
    PROVE  /\ Stream' = Stream \o b
           /\ filling' \in Seq(Elements) /\ exposed' \in Seq(Elements) /\ gone' \in Seq(Elements)
           /\ Len(filling') <= BlockSize /\ Len(exposed') <= BlockSize
<1> USE DEF Types
<1>1. CASE Len(filling) + Len(b) <= BlockSize
  <2>1. filling' = filling \o b /\ exposed' = exposed /\ gone' = gone
    BY <1>1 DEF Put
  <2>2. /\ filling \o b \in Seq(Elements) /\ Len(filling \o b) = Len(filling) + Len(b)
        /\ gone \o exposed \in Seq(Elements) /\ filling \in Seq(Elements)
    BY ConcatProperties
  <2>3. (gone \o exposed) \o (filling \o b) = ((gone \o exposed) \o filling) \o b
    <3> HIDE DEF Types
    <3> QED BY <2>2, Associative, Zenon
  <2> QED BY <2>1, <2>2, <2>3, <1>1 DEF Stream
<1>2. CASE ~(Len(filling) + Len(b) <= BlockSize)
  <2>1. exposed' = filling /\ filling' = b /\ gone' = gone \o exposed
    BY <1>2 DEF Put, Swap
  <2>2. gone \o exposed \in Seq(Elements)
    BY ConcatProperties
  <2> QED BY <2>1, <2>2 DEF Stream
<1> QED BY <1>1, <1>2

\* A flush and the gone's reading move blocks on.
LEMMA MovesKeep ==
    ASSUME Types, FlushChannel \/ HostRead \/ UNCHANGED blocks
    PROVE  /\ Stream' = Stream
           /\ filling' \in Seq(Elements) /\ exposed' \in Seq(Elements) /\ gone' \in Seq(Elements)
           /\ Len(filling') <= BlockSize /\ Len(exposed') <= BlockSize
<1> USE DEF Types
<1>0. /\ <<>> \in Seq(Elements) /\ Len(<<>>) = 0 /\ BlockSize \in Nat
      /\ gone \o <<>> = gone /\ gone \o exposed \in Seq(Elements)
      /\ (gone \o exposed) \o <<>> = gone \o exposed
      /\ (gone \o filling) \o <<>> = gone \o filling
  <2>1. gone \o exposed \in Seq(Elements) /\ gone \o filling \in Seq(Elements)
    BY ConcatProperties
  <2> QED BY <2>1, ConcatEmptySeq, EmptySeq, ChunkAssumption
<1>1. CASE FlushChannel
  <2>1. CASE CanSwap
    <3>1. exposed' = filling /\ filling' = <<>> /\ gone' = gone \o exposed
      BY <1>1, <2>1 DEF FlushChannel, Swap
    <3>2. gone \o exposed \in Seq(Elements) /\ ((gone \o exposed) \o filling) \o <<>> = (gone \o exposed) \o filling
      <4>1. (gone \o exposed) \o filling \in Seq(Elements)
        BY <1>0, ConcatProperties
      <4> QED BY <1>0, <4>1, ConcatEmptySeq
    <3> QED BY <1>0, <3>1, <3>2 DEF Stream
  <2>2. CASE ~CanSwap
    BY <1>1, <2>2 DEF FlushChannel, blocks, Stream
  <2> QED BY <2>1, <2>2
<1>2. CASE HostRead
  BY <1>0, <1>2 DEF HostRead, Stream
<1>3. CASE UNCHANGED blocks
  BY <1>3 DEF blocks, Stream
<1> QED BY <1>1, <1>2, <1>3

\* What is in the longer stream.
LEMMA Grown ==
    ASSUME Types, NEW b \in Seq(Elements), Stream' = Stream \o b
    PROVE  /\ Len(Stream) \in Nat /\ Len(b) \in Nat
           /\ Len(Stream') = Len(Stream) + Len(b)
           /\ \A k \in 1 .. Len(Stream) : Stream'[k] = Stream[k]
           /\ \A k \in Len(Stream) + 1 .. Len(Stream') : Stream'[k] = b[k - Len(Stream)]
BY StreamType, ConcatProperties, LenProperties

-----------------------------------------------------------------------------
(* What a step does to the tasks that do not take it *)

Same(u) ==
    /\ pc'[u] = pc[u] /\ doc'[u] = doc[u] /\ offset'[u] = offset[u] /\ ok'[u] = ok[u]
    /\ calls'[u] = calls[u]
    /\ <<Current(u), TRUE>> \in returned' <=> <<Current(u), TRUE>> \in returned

\* Bytes of another document change nothing about where a task's own lie.
LEMMA LiesOn ==
    ASSUME Types, NEW u, NEW b \in Seq(Elements), Stream' = Stream \o b, calls'[u] = calls[u],
           \A j \in 1 .. Len(b) : b[j] # Newline => b[j][1] # Current(u),
           NEW p \in Nat, NEW n \in Nat, Lies(u, p, n)
    PROVE  Lies(u, p, n)'
<1>1. /\ Len(Stream) \in Nat /\ Len(b) \in Nat /\ Len(Stream') = Len(Stream) + Len(b)
      /\ \A k \in 1 .. Len(Stream) : Stream'[k] = Stream[k]
      /\ \A k \in Len(Stream) + 1 .. Len(Stream') : Stream'[k] = b[k - Len(Stream)]
  BY Grown
<1>2. Current(u)' = Current(u)
  BY DEF Current
<1>3. p + n <= Len(Stream')
  BY <1>1 DEF Lies
<1>4. ASSUME NEW k \in 1 .. Len(Stream')
      PROVE  IF k \in p + 1 .. p + n THEN Stream'[k] = <<Current(u), k - p>>
                                      ELSE Stream'[k] # Newline => Stream'[k][1] # Current(u)
  <2>1. CASE k \in 1 .. Len(Stream)
    BY <2>1, <1>1 DEF Lies, IsBodyByte
  <2>2. CASE k \in Len(Stream) + 1 .. Len(Stream')
    <3>1. k - Len(Stream) \in 1 .. Len(b) /\ ~(k \in p + 1 .. p + n)
      BY <2>2, <1>1 DEF Lies
    <3> QED BY <3>1, <2>2, <1>1
  <2> QED BY <2>1, <2>2, <1>1
<1> QED BY <1>2, <1>3, <1>4 DEF Lies, IsBodyByte

LEMMA OthersStay ==
    ASSUME Types, NEW u \in Tasks, Same(u), Progress(u), Laid(u), AtEnd(u),
           NEW b \in Seq(Elements), Stream' = Stream \o b,
           \A j \in 1 .. Len(b) : b[j] # Newline => b[j][1] # Current(u),
           b = <<>> \/ pc[u] \notin {"chunk", "newline"}
    PROVE  Progress(u)' /\ Laid(u)' /\ AtEnd(u)'
<1>1. Progress(u)'
  BY DEF Same, Progress
<1>2. Laid(u)'
  <2> SUFFICES ASSUME calls'[u] > 0
               PROVE  \E p \in Nat, n \in 0 .. doc'[u].body : Lies(u, p, n)' /\ Counts(u, n)'
    BY DEF Laid
  <2>1. PICK p \in Nat, n \in 0 .. doc[u].body : Lies(u, p, n) /\ Counts(u, n)
    BY DEF Laid, Same
  <2>2. Lies(u, p, n)'
    <3>1. n \in Nat
      BY BodyIsNat
    <3> QED BY <2>1, <3>1, LiesOn DEF Same
  <2>3. Counts(u, n)'
    BY <2>1 DEF Counts, Same, Current
  <2> QED BY <2>1, <2>2, <2>3 DEF Same
<1>3. AtEnd(u)'
  <2>1. CASE b = <<>>
    <3>1. Stream' = Stream
      BY <2>1, StreamType, ConcatEmptySeq
    <3> QED BY <3>1 DEF AtEnd, Same, Current
  <2>2. CASE pc[u] \notin {"chunk", "newline"}
    BY <2>2 DEF AtEnd, Same
  <2> QED BY <2>1, <2>2
<1> QED BY <1>1, <1>2, <1>3

\* A step of t that writes nothing to the channel.  The end of the line stays
\* t's as long as t has it to end.
Keeps(t) ==
    pc[t] \in {"chunk", "newline"} /\ offset[t] > 0 =>
        \/ pc'[t] \in {"chunk", "newline"} /\ offset'[t] = offset[t] /\ calls'[t] = calls[t]
        \/ Current(t) \in unended'

LEMMA QuietStream ==
    ASSUME IInv, NEW t \in Tasks, Stream' = Stream, unended \subseteq unended',
           calls[t] <= calls'[t], \A u \in Tasks \ {t} : Same(u), Keeps(t), Types'
    PROVE  StreamIsOfCalls' /\ LineIsEnded' /\ Contiguous' /\ ExactlyOneNewline'
<1> USE DEF IInv
<1>1. Contiguous' /\ ExactlyOneNewline'
  BY DEF Contiguous, ExactlyOneNewline, IsBodyByte
<1>2. StreamIsOfCalls'
  <2> SUFFICES ASSUME NEW k \in 1 .. Len(Stream), IsBodyByte(k)
               PROVE  Stream[k][1][2] <= calls'[Stream[k][1][1]]
    BY DEF StreamIsOfCalls, IsBodyByte
  <2>1. Stream[k][1][1] \in Tasks /\ Stream[k][1][2] \in 1 .. MaxDocuments
    BY ByteFacts
  <2>2. Stream[k][1][2] <= calls[Stream[k][1][1]]
    BY DEF StreamIsOfCalls
  <2>3. \A u \in Tasks : calls[u] \in Nat /\ calls'[u] \in Nat
    BY DEF Types
  <2>4. CASE Stream[k][1][1] = t
    BY <2>1, <2>2, <2>3, <2>4
  <2>5. CASE Stream[k][1][1] # t
    BY <2>1, <2>2, <2>5 DEF Same
  <2> QED BY <2>4, <2>5
<1>3. LineIsEnded'
  <2> SUFFICES ASSUME Len(Stream) > 0, IsBodyByte(Len(Stream)),
                      Stream[Len(Stream)][1] \notin unended'
               PROVE  \E u \in Tasks : /\ pc'[u] \in {"chunk", "newline"} /\ offset'[u] > 0
                                       /\ Stream[Len(Stream)][1] = Current(u)'
    BY DEF LineIsEnded, IsBodyByte
  <2>1. PICK u \in Tasks : /\ pc[u] \in {"chunk", "newline"} /\ offset[u] > 0
                           /\ Stream[Len(Stream)][1] = Current(u)
    BY DEF LineIsEnded
  <2>2. CASE u = t
    BY <2>1, <2>2 DEF Keeps, Current
  <2>3. CASE u # t
    BY <2>1, <2>3 DEF Same, Current
  <2> QED BY <2>2, <2>3
<1> QED BY <1>1, <1>2, <1>3

LEMMA QuietStep ==
    ASSUME IInv, NEW t \in Tasks, Stream' = Stream, unended \subseteq unended',
           calls[t] <= calls'[t], \A u \in Tasks \ {t} : Same(u), Keeps(t),
           Types', Mutex', Progress(t)', Laid(t)', AtEnd(t)', ResultsAreOfCalls'
    PROVE  IInv'
<1>1. StreamIsOfCalls' /\ LineIsEnded' /\ Contiguous' /\ ExactlyOneNewline'
  BY QuietStream
<1>2. ASSUME NEW u \in Tasks \ {t} PROVE Progress(u)' /\ Laid(u)' /\ AtEnd(u)'
  <2>1. <<>> \in Seq(Elements) /\ Len(<<>>) = 0 /\ Stream' = Stream \o <<>>
    BY StreamType, ConcatEmptySeq, EmptySeq DEF IInv
  <2>2. Same(u) /\ Types /\ Progress(u) /\ Laid(u) /\ AtEnd(u)
    BY DEF IInv
  <2>3. \A j \in 1 .. Len(<<>>) : <<>>[j] # Newline => <<>>[j][1] # Current(u)
    BY <2>1
  <2> QED BY <2>1, <2>2, <2>3, OthersStay
<1> QED BY <1>1, <1>2 DEF IInv

-----------------------------------------------------------------------------
(* The steps that write nothing *)

\* A step that leaves a task's stream and counters alone leaves its bytes.
LEMMA LaidStays ==
    ASSUME NEW t \in Tasks, Laid(t), Stream' = Stream, calls'[t] = calls[t], doc'[t] = doc[t],
           \A n \in 0 .. doc[t].body : Counts(t, n) => Counts(t, n)'
    PROVE  Laid(t)'
<1> SUFFICES ASSUME calls[t] > 0
             PROVE  \E p \in Nat, n \in 0 .. doc[t].body : Lies(t, p, n)' /\ Counts(t, n)'
  BY DEF Laid
<1>1. PICK p \in Nat, n \in 0 .. doc[t].body : Lies(t, p, n) /\ Counts(t, n)
  BY DEF Laid
<1>2. Lies(t, p, n)'
  BY <1>1 DEF Lies, Current, IsBodyByte
<1> QED BY <1>1, <1>2

LEMMA TakeIInv == ASSUME IInv, NEW t \in Tasks, Take(t) PROVE IInv'
<1> USE DEF IInv, Take
<1>1. Types'
  BY DEF Types, Held, channel, blocks
<1>2. Stream' = Stream
  BY DEF Stream, channel, blocks
<1>3. \A u \in Tasks \ {t} : Same(u)
  BY DEF Types, Same
<1>4. Mutex'
  BY LockAssumption DEF Mutex, Types, Held
<1>5. Progress(t)'
  BY BodyIsNat DEF Types, Progress, Held
<1>6. Laid(t)'
  <2>1. \A n \in 0 .. doc[t].body : Counts(t, n) => Counts(t, n)'
    BY DEF Types, Counts, Held
  <2> QED BY <1>2, <2>1, LaidStays
<1>7. AtEnd(t)' /\ Keeps(t)
  BY DEF Types, AtEnd, Keeps
<1>8. ResultsAreOfCalls'
  BY DEF Types, ResultsAreOfCalls
<1>9. calls[t] <= calls'[t] /\ unended \subseteq unended'
  BY DEF Types
<1> HIDE DEF IInv, Take
<1> QED BY <1>1, <1>2, <1>3, <1>4, <1>5, <1>6, <1>7, <1>8, <1>9, QuietStep

LEMMA ChunkFailsIInv == ASSUME IInv, NEW t \in Tasks, ChunkFails(t) PROVE IInv'
<1> USE DEF IInv, ChunkFails
<1>0. AfterFailure(t) = IF offset[t] > 0 THEN "newline" ELSE "give"
  BY DEF AfterFailure
<1>1. Types'
  BY <1>0 DEF Types, Held, channel, blocks
<1>2. Stream' = Stream
  BY DEF Stream, channel, blocks
<1>3. \A u \in Tasks \ {t} : Same(u)
  BY DEF Types, Same
<1>4. Mutex'
  BY <1>0 DEF Mutex, Types, Held
<1>5. Progress(t)'
  BY <1>0, BodyIsNat DEF Types, Progress, Held
<1>6. Laid(t)'
  <2>1. \A n \in 0 .. doc[t].body : Counts(t, n) => Counts(t, n)'
    BY <1>0 DEF Types, Counts, Held
  <2> QED BY <1>2, <2>1, LaidStays
<1>7. AtEnd(t)' /\ Keeps(t)
  BY <1>0, <1>2 DEF Types, AtEnd, Keeps, Current
<1>8. ResultsAreOfCalls'
  BY <1>0 DEF Types, ResultsAreOfCalls
<1>9. calls[t] <= calls'[t] /\ unended \subseteq unended'
  BY DEF Types
<1> HIDE DEF IInv, ChunkFails
<1> QED BY <1>1, <1>2, <1>3, <1>4, <1>5, <1>6, <1>7, <1>8, <1>9, QuietStep

LEMMA CurrentIsId == ASSUME Types, NEW t \in Tasks, calls[t] > 0 PROVE Current(t) \in Ids
BY DEF Types, Current, Ids

LEMMA NewlineFailsIInv == ASSUME IInv, NEW t \in Tasks, NewlineFails(t) PROVE IInv'
<1> USE DEF IInv, NewlineFails, AfterNewline
<1>0. pc'[t] \in {"flush", "give"} /\ (pc'[t] = "flush" => ok[t])
  BY DEF Types
<1>1. Types'
  <2>1. Current(t) \in Ids
    BY CurrentIsId DEF Progress
  <2> QED BY <2>1 DEF Types, Held, channel, blocks
<1>2. Stream' = Stream
  BY DEF Stream, channel, blocks
<1>3. \A u \in Tasks \ {t} : Same(u)
  BY DEF Types, Same
<1>4. Mutex'
  BY DEF Mutex, Types, Held
<1>5. Progress(t)'
  BY <1>0, BodyIsNat DEF Types, Progress, Held
<1>6. Laid(t)'
  <2>1. \A n \in 0 .. doc[t].body : Counts(t, n) => Counts(t, n)'
    BY <1>0 DEF Types, Counts, Held
  <2> QED BY <1>2, <2>1, LaidStays
<1>7. AtEnd(t)' /\ Keeps(t)
  BY <1>0 DEF AtEnd, Keeps
<1>8. ResultsAreOfCalls'
  BY <1>0 DEF Types, ResultsAreOfCalls
<1>9. calls[t] <= calls'[t] /\ unended \subseteq unended'
  BY DEF Types
<1> HIDE DEF IInv, NewlineFails, AfterNewline
<1> QED BY <1>1, <1>2, <1>3, <1>4, <1>5, <1>6, <1>7, <1>8, <1>9, QuietStep

LEMMA FlushDocumentIInv == ASSUME IInv, NEW t \in Tasks, FlushDocument(t) PROVE IInv'
<1> USE DEF IInv, FlushDocument
<1>0. pc'[t] = "give"
  BY DEF Types
<1>1. Types'
  <2>1. /\ filling' \in Seq(Elements) /\ exposed' \in Seq(Elements) /\ gone' \in Seq(Elements)
        /\ Len(filling') <= BlockSize /\ Len(exposed') <= BlockSize
    BY MovesKeep
  <2> QED BY <2>1 DEF Types, Held
<1>2. Stream' = Stream
  BY MovesKeep
<1>3. \A u \in Tasks \ {t} : Same(u)
  BY DEF Types, Same
<1>4. Mutex'
  BY DEF Mutex, Types, Held
<1>5. Progress(t)'
  BY <1>0, BodyIsNat DEF Types, Progress, Held
<1>6. Laid(t)'
  <2>1. \A n \in 0 .. doc[t].body : Counts(t, n) => Counts(t, n)'
    BY <1>0 DEF Types, Counts, Held
  <2> QED BY <1>2, <2>1, LaidStays
<1>7. AtEnd(t)' /\ Keeps(t)
  BY <1>0 DEF AtEnd, Keeps
<1>8. ResultsAreOfCalls'
  BY <1>0 DEF Types, ResultsAreOfCalls
<1>9. calls[t] <= calls'[t] /\ unended \subseteq unended'
  BY DEF Types
<1> HIDE DEF IInv, FlushDocument
<1> QED BY <1>1, <1>2, <1>3, <1>4, <1>5, <1>6, <1>7, <1>8, <1>9, QuietStep

\* What Return does to the results.
LEMMA ReturnFacts ==
    ASSUME Types, ResultsAreOfCalls, NEW t \in Tasks, NEW n \in 1 .. MaxDocuments, NEW result \in BOOLEAN,
           Return(t, <<t, n>>, result), calls'[t] = n, calls[t] <= n,
           \A u \in Tasks \ {t} : calls'[u] = calls[u] /\ pc'[u] = pc[u],
           pc[t] # "idle" \/ calls[t] # n
    PROVE  /\ pc' \in [Tasks -> {"idle", "take"} \cup Held] /\ pc'[t] = "idle"
           /\ returned' \subseteq Ids \X BOOLEAN
           /\ <<<<t, n>>, TRUE>> \in returned' <=> t \in Signals \/ result
           /\ \A u \in Tasks \ {t} :
                  <<Current(u), TRUE>> \in returned' <=> <<Current(u), TRUE>> \in returned
           /\ ResultsAreOfCalls'
<1>1. /\ pc' = [pc EXCEPT ![t] = "idle"]
      /\ returned' = returned \cup {<<<<t, n>>, Answer(t, result)>>}
  BY DEF Return
<1>2. Answer(t, result) \in BOOLEAN /\ (Answer(t, result) = TRUE <=> t \in Signals \/ result)
  BY DEF Answer
<1>3. <<<<t, n>>, TRUE>> \notin returned
  <2> SUFFICES ASSUME <<<<t, n>>, TRUE>> \in returned PROVE FALSE
    OBVIOUS
  <2>1. calls[t] \in Nat /\ n \in Nat
    BY MaxDocumentsAssumption DEF Types
  <2>2. n <= calls[t] /\ (n = calls[t] => pc[t] = "idle")
    BY DEF ResultsAreOfCalls
  <2> QED BY <2>1, <2>2
<1>4. ResultsAreOfCalls'
  <2> SUFFICES ASSUME NEW u \in Tasks, NEW m \in 1 .. MaxDocuments, NEW b \in BOOLEAN,
                      <<<<u, m>>, b>> \in returned'
               PROVE  m <= calls'[u] /\ (m = calls'[u] => pc'[u] = "idle")
    BY DEF ResultsAreOfCalls
  <2>1. pc'[t] = "idle" /\ calls[t] \in Nat
    BY <1>1 DEF Types
  <2>2. CASE <<<<u, m>>, b>> \in returned
    <3>1. m <= calls[u] /\ (m = calls[u] => pc[u] = "idle")
      BY <2>2 DEF ResultsAreOfCalls
    <3> QED BY <3>1, <2>1
  <2>3. CASE <<<<u, m>>, b>> = <<<<t, n>>, Answer(t, result)>>
    BY <2>1, <2>3
  <2> QED BY <1>1, <2>2, <2>3
<1>5. returned' \subseteq Ids \X BOOLEAN
  BY <1>1, <1>2 DEF Types, Ids
<1>6. \A u \in Tasks \ {t} :
          <<Current(u), TRUE>> \in returned' <=> <<Current(u), TRUE>> \in returned
  BY <1>1 DEF Current
<1>7. pc' \in [Tasks -> {"idle", "take"} \cup Held] /\ pc'[t] = "idle"
  BY <1>1 DEF Types
<1>8. <<<<t, n>>, TRUE>> \in returned' <=> t \in Signals \/ result
  <2>1. <<<<t, n>>, TRUE>> \in returned' <=> Answer(t, result) = TRUE
    BY <1>1, <1>3
  <2> QED BY <2>1, <1>2
<1> QED BY <1>4, <1>5, <1>6, <1>7, <1>8

LEMMA GiveIInv == ASSUME IInv, NEW t \in Tasks, Give(t) PROVE IInv'
<1> USE DEF IInv, Give
<1>0. /\ pc' \in [Tasks -> {"idle", "take"} \cup Held] /\ pc'[t] = "idle"
      /\ returned' \subseteq Ids \X BOOLEAN
      /\ <<Current(t), TRUE>> \in returned' <=> t \in Signals \/ ok[t]
      /\ \A u \in Tasks \ {t} :
             <<Current(u), TRUE>> \in returned' <=> <<Current(u), TRUE>> \in returned
      /\ ResultsAreOfCalls'
  <2>0. pc[t] # "idle" /\ calls' = calls /\ Progress(t)
    OBVIOUS
  <2>1. calls[t] \in 1 .. MaxDocuments /\ ok[t] \in BOOLEAN /\ calls[t] <= calls[t]
    BY <2>0, MaxDocumentsAssumption DEF Types, Progress
  <2>2. Return(t, <<t, calls[t]>>, ok[t]) /\ \A u \in Tasks \ {t} : pc'[u] = pc[u]
    BY DEF Types, Current, Return
  <2>3. Types /\ ResultsAreOfCalls
    OBVIOUS
  <2> HIDE DEF IInv, Give
  <2> QED BY <2>0, <2>1, <2>2, <2>3, ReturnFacts DEF Current
<1>1. Types'
  BY <1>0 DEF Types, channel, blocks
<1>2. Stream' = Stream
  BY DEF Stream, channel, blocks
<1>3. \A u \in Tasks \ {t} : Same(u)
  BY <1>0 DEF Types, Same, Return
<1>4. Mutex'
  BY LockAssumption, <1>0 DEF Mutex, Types, Held, Return
<1>5. Progress(t)'
  BY <1>0 DEF Types, Progress, Held
<1>6. Laid(t)'
  <2>1. \A n \in 0 .. doc[t].body : Counts(t, n) => Counts(t, n)'
    BY <1>0 DEF Counts, Held, Progress, Current
  <2> QED BY <1>2, <2>1, LaidStays
<1>7. AtEnd(t)' /\ Keeps(t)
  BY <1>0 DEF AtEnd, Keeps
<1>9. calls[t] <= calls'[t] /\ unended \subseteq unended'
  BY DEF Types
<1> HIDE DEF IInv, Give
<1> QED BY <1>0, <1>1, <1>2, <1>3, <1>4, <1>5, <1>6, <1>7, <1>9, QuietStep

LEMMA CallCases ==
    ASSUME NEW t \in Tasks, NEW d, d.body \in Nat, Call(t, d)
    PROVE  \/ d.body = 0 /\ Return(t, <<t, calls[t] + 1>>, TRUE)
           \/ d.body > 0 /\ lock = NoLock /\ Return(t, <<t, calls[t] + 1>>, FALSE)
           \/ d.body > 0 /\ lock # NoLock /\ pc' = [pc EXCEPT ![t] = "take"] /\ returned' = returned
BY Zenon DEF Call, Size

\* A new call: nothing of its document is in the stream yet, and an immediate
\* return says so.
LEMMA CallIInv == ASSUME IInv, NEW t \in Tasks, NEW d \in Documents, Call(t, d) PROVE IInv'
<1> DEFINE n == calls[t] + 1
<1> USE DEF IInv
<1>0. /\ pc[t] = "idle" /\ n \in 1 .. MaxDocuments /\ calls[t] \in Nat
      /\ calls' = [calls EXCEPT ![t] = n] /\ doc' = [doc EXCEPT ![t] = d]
      /\ d.body \in Nat /\ UNCHANGED <<lock, offset, ok, blocks, unended>>
  BY MaxDocumentsAssumption, DocumentsAssumption DEF Call, Types
<1> DEFINE Outcome ==
      /\ pc' \in [Tasks -> {"idle", "take"} \cup Held] /\ pc'[t] \in {"idle", "take"}
      /\ pc'[t] = "take" => d.body > 0
      /\ returned' \subseteq Ids \X BOOLEAN
      /\ pc'[t] = "idle" =>
            (<<<<t, n>>, TRUE>> \in returned' <=> t \in Signals \/ d.body = 0)
      /\ \A u \in Tasks \ {t} : /\ pc'[u] = pc[u] /\ calls'[u] = calls[u]
                                /\ <<Current(u), TRUE>> \in returned' <=> <<Current(u), TRUE>> \in returned
      /\ ResultsAreOfCalls'
<1>1. Outcome
  <2>0. /\ Types /\ ResultsAreOfCalls /\ calls'[t] = n /\ calls[t] <= n /\ calls[t] # n
        /\ \A u \in Tasks \ {t} : calls'[u] = calls[u]
    BY <1>0 DEF Types
  <2>1. ASSUME NEW result \in BOOLEAN, Return(t, <<t, n>>, result), result = TRUE <=> d.body = 0
        PROVE  Outcome
    <3>1. \A u \in Tasks \ {t} : pc'[u] = pc[u]
      BY <2>1 DEF Return, Types
    <3> HIDE DEF IInv, n
    <3>2. /\ pc' \in [Tasks -> {"idle", "take"} \cup Held] /\ pc'[t] = "idle"
          /\ returned' \subseteq Ids \X BOOLEAN
          /\ <<<<t, n>>, TRUE>> \in returned' <=> t \in Signals \/ result
          /\ \A u \in Tasks \ {t} :
                 <<Current(u), TRUE>> \in returned' <=> <<Current(u), TRUE>> \in returned
          /\ ResultsAreOfCalls'
      BY <2>0, <2>1, <3>1, <1>0, ReturnFacts
    <3> QED BY <2>0, <2>1, <3>1, <3>2
  <2>2. CASE d.body = 0 /\ Return(t, <<t, n>>, TRUE)
    <3> HIDE DEF IInv, n, Outcome
    <3> QED BY <2>1, <2>2, Zenon
  <2>3. CASE d.body > 0 /\ lock = NoLock /\ Return(t, <<t, n>>, FALSE)
    <3> HIDE DEF IInv, n, Outcome
    <3>1. d.body # 0
      BY <2>3, <1>0
    <3> QED BY <2>1, <2>3, <3>1, Zenon
  <2>4. CASE d.body > 0 /\ lock # NoLock /\ pc' = [pc EXCEPT ![t] = "take"] /\ returned' = returned
    <3>1. ResultsAreOfCalls'
      <4> SUFFICES ASSUME NEW u \in Tasks, NEW m \in 1 .. MaxDocuments, NEW b \in BOOLEAN,
                          <<<<u, m>>, b>> \in returned
                   PROVE  m <= calls'[u] /\ (m = calls'[u] => pc'[u] = "idle")
        BY <2>4 DEF ResultsAreOfCalls
      <4>1. m <= calls[u] /\ (m = calls[u] => pc[u] = "idle")
        BY <2>0 DEF ResultsAreOfCalls
      <4>2. CASE u = t
        BY <4>1, <4>2, <2>0, <1>0
      <4>3. CASE u # t
        <5>1. pc'[u] = pc[u] /\ calls'[u] = calls[u]
          BY <4>3, <2>4, <2>0 DEF Types
        <5> QED BY <4>1, <5>1
      <4> QED BY <4>2, <4>3
    <3>2. /\ pc' \in [Tasks -> {"idle", "take"} \cup Held] /\ pc'[t] = "take"
          /\ \A u \in Tasks \ {t} : pc'[u] = pc[u]
      BY <2>4, <2>0 DEF Types
    <3>3. returned' = returned /\ returned \subseteq Ids \X BOOLEAN
      BY <2>4, <2>0 DEF Types
    <3> HIDE DEF IInv, n
    <3> QED BY <2>0, <2>4, <3>1, <3>2, <3>3
  <2> QED
    <3> HIDE DEF IInv, Outcome
    <3> QED BY <1>0, <2>2, <2>3, <2>4, CallCases
<1> HIDE DEF n
<1>2. Types'
  <2>1. n \in 0 .. MaxDocuments
    BY <1>0
  <2> QED BY <1>0, <1>1, <2>1 DEF Types, channel, blocks
<1>3. Stream' = Stream
  BY <1>0 DEF Stream, channel, blocks
<1>4. \A u \in Tasks \ {t} : Same(u)
  BY <1>0, <1>1 DEF Types, Same
<1>5. Mutex'
  BY <1>0, <1>1 DEF Mutex, Types, Held
<1>6. calls'[t] = n /\ doc'[t] = d /\ n > 0 /\ n = calls[t] + 1
  BY <1>0 DEF Types, n
<1>7. Progress(t)'
  BY <1>1, <1>6 DEF Progress, Held
<1>8. Laid(t)'
  <2>1. Lies(t, 0, 0)'
    <3> SUFFICES ASSUME NEW k \in 1 .. Len(Stream), IsBodyByte(k) PROVE Stream[k][1] # <<t, n>>
      BY <1>3, <1>6, StreamType DEF Lies, IsBodyByte, Current
    <3>1. Stream[k][1][2] <= calls[Stream[k][1][1]]
      BY DEF StreamIsOfCalls
    <3> QED BY <3>1, <1>0, <1>6
  <2>2. Counts(t, 0)'
    BY <1>1, <1>6 DEF Counts, Held, Current
  <2> QED BY <2>1, <2>2, <1>0, <1>6 DEF Laid
<1>9. AtEnd(t)' /\ Keeps(t)
  BY <1>0, <1>1 DEF AtEnd, Keeps
<1>10. calls[t] <= calls'[t] /\ unended \subseteq unended'
  BY <1>0, <1>6
<1> HIDE DEF IInv
<1> QED BY <1>1, <1>2, <1>3, <1>4, <1>5, <1>7, <1>8, <1>9, <1>10, QuietStep

\* The host reads, a task flushes without the lock, or nothing happens.
LEMMA MoveIInv ==
    ASSUME IInv, FlushChannel \/ HostRead \/ UNCHANGED blocks,
           UNCHANGED <<lock, pc, doc, offset, ok, calls, returned, unended>>
    PROVE  IInv'
<1>1. /\ Stream' = Stream
      /\ filling' \in Seq(Elements) /\ exposed' \in Seq(Elements) /\ gone' \in Seq(Elements)
      /\ Len(filling') <= BlockSize /\ Len(exposed') <= BlockSize
  BY MovesKeep DEF IInv
<1>2. Types'
  BY <1>1 DEF IInv, Types
<1>3. ASSUME NEW u \in Tasks PROVE Progress(u)' /\ Laid(u)' /\ AtEnd(u)' /\ Same(u) /\ Keeps(u)
  <2>1. <<>> \in Seq(Elements) /\ Len(<<>>) = 0 /\ Stream' = Stream \o <<>>
    BY <1>1, StreamType, ConcatEmptySeq, EmptySeq DEF IInv
  <2>2. Same(u) /\ Types /\ Progress(u) /\ Laid(u) /\ AtEnd(u) /\ Keeps(u)
    BY DEF IInv, Same, Keeps
  <2>3. \A j \in 1 .. Len(<<>>) : <<>>[j] # Newline => <<>>[j][1] # Current(u)
    BY <2>1
  <2> QED BY <2>1, <2>2, <2>3, OthersStay
<1>4. StreamIsOfCalls' /\ LineIsEnded' /\ Contiguous' /\ ExactlyOneNewline'
  <2>1. Profiler \in Tasks /\ calls[Profiler] <= calls'[Profiler]
    BY ProfilerAssumption, MaxDocumentsAssumption DEF IInv, Types
  <2> QED BY <1>1, <1>2, <1>3, <2>1, QuietStream
<1>5. Mutex' /\ ResultsAreOfCalls'
  BY DEF IInv, Mutex, ResultsAreOfCalls
<1> QED BY <1>2, <1>3, <1>4, <1>5 DEF IInv

-----------------------------------------------------------------------------
(* The steps that write: a chunk, and the newline *)

\* The bytes of the next chunk, which continue the document.
LEMMA ChunkFacts ==
    ASSUME Types, NEW t \in Tasks, pc[t] = "chunk", Progress(t)
    PROVE  LET b == Bytes(t, offset[t], Chunk(t))
           IN  /\ Chunk(t) \in 1 .. doc[t].body - offset[t]
               /\ b \in Seq(Elements) /\ Len(b) = Chunk(t) /\ Len(b) <= BlockSize
               /\ \A j \in 1 .. Chunk(t) : b[j] = <<Current(t), offset[t] + j>> /\ b[j] # Newline
<1> DEFINE b == Bytes(t, offset[t], Chunk(t))
<1>1. /\ offset[t] \in Nat /\ doc[t].body \in Nat /\ offset[t] < doc[t].body
      /\ ChunkSize \in Nat /\ 1 <= ChunkSize /\ ChunkSize <= BlockSize /\ BlockSize \in Nat
  BY BodyIsNat, ChunkAssumption DEF Types, Progress
<1>2. Chunk(t) \in 1 .. doc[t].body - offset[t] /\ Chunk(t) <= BlockSize
  BY <1>1 DEF Chunk, Size
<1>3. Current(t) \in Ids
  BY CurrentIsId, MaxDocumentsAssumption DEF Types, Progress
<1>4. ASSUME NEW j \in 1 .. Chunk(t)
      PROVE  /\ Byte(t, offset[t] + j) = <<Current(t), offset[t] + j>>
             /\ Byte(t, offset[t] + j) \in Elements /\ Byte(t, offset[t] + j) # Newline
  <2>1. offset[t] + j \in Nat \ {0} /\ offset[t] + j <= doc[t].body
    BY <1>1, <1>2
  <2>2. Byte(t, offset[t] + j) = <<Current(t), offset[t] + j>>
    BY <2>1 DEF Byte
  <2>3. <<Current(t), offset[t] + j>> \in Ids \X (Nat \ {0})
    BY <1>3, <2>1
  <2> QED BY <2>2, <2>3, NewlineAssumption DEF Elements
<1>5. b = [j \in 1 .. Chunk(t) |-> Byte(t, offset[t] + j)]
  BY DEF Bytes
<1>6. b \in [1 .. Chunk(t) -> Elements] /\ Chunk(t) \in Nat
  BY <1>1, <1>2, <1>4, <1>5
<1>7. b \in Seq(Elements) /\ Len(b) = Chunk(t)
  BY <1>6
<1> QED BY <1>2, <1>4, <1>5, <1>7

\* Where the bytes of the document lie with the chunk.
LEMMA ChunkLies ==
    ASSUME Types, NEW t \in Tasks, AtEnd(t), pc[t] = "chunk", calls[t] > 0, calls' = calls,
           NEW b \in Seq(Elements), Stream' = Stream \o b,
           \A j \in 1 .. Len(b) : b[j] = <<Current(t), offset[t] + j>> /\ b[j] # Newline,
           NEW p \in Nat, Lies(t, p, offset[t]),
           NEW n \in Nat, n = offset[t] + Len(b)
    PROVE  \E q \in Nat : Lies(t, q, n)'
<1>1. /\ Len(Stream) \in Nat /\ Len(b) \in Nat /\ Len(Stream') = Len(Stream) + Len(b)
      /\ \A k \in 1 .. Len(Stream) : Stream'[k] = Stream[k]
      /\ \A k \in Len(Stream) + 1 .. Len(Stream') : Stream'[k] = b[k - Len(Stream)]
      /\ offset[t] \in Nat /\ Current(t)' = Current(t)
  BY Grown DEF Types, Current
<1>2. offset[t] > 0 => p + offset[t] = Len(Stream)
  <2> SUFFICES ASSUME offset[t] > 0 PROVE p + offset[t] = Len(Stream)
    OBVIOUS
  <2>1. Len(Stream) > 0 /\ Stream[Len(Stream)] = <<Current(t), offset[t]>>
    BY DEF AtEnd
  <2>2. Stream[Len(Stream)] # Newline
    <3>1. <<Current(t), offset[t]>> \in Ids \X Nat
      BY <1>1, CurrentIsId
    <3> QED BY <3>1, <2>1, NewlineAssumption
  <2>3. Len(Stream) \in 1 .. Len(Stream) /\ Stream[Len(Stream)][1] = Current(t)
    BY <1>1, <2>1
  <2>4. /\ Len(Stream) \in p + 1 .. p + offset[t]
        /\ Stream[Len(Stream)] = <<Current(t), Len(Stream) - p>>
    BY <2>2, <2>3 DEF Lies, IsBodyByte
  <2>5. offset[t] = Len(Stream) - p
    BY <2>1, <2>4
  <2> QED BY <1>1, <2>5
<1>3. PICK q \in Nat : q + offset[t] = Len(Stream) /\ (offset[t] > 0 => q = p)
  <2>1. p + offset[t] <= Len(Stream)
    BY DEF Lies
  <2>2. CASE offset[t] > 0
    BY <1>2, <2>2
  <2>3. CASE offset[t] = 0
    BY <1>1, <2>3
  <2> QED BY <1>1, <2>2, <2>3
<1>0. /\ Len(Stream) \in Nat /\ Len(b) \in Nat /\ offset[t] \in Nat
      /\ n = offset[t] + Len(b) /\ q + offset[t] = Len(Stream)
      /\ Len(Stream') = Len(Stream) + Len(b)
  BY <1>1, <1>3
<1>4. ASSUME NEW k \in 1 .. Len(Stream')
      PROVE  IF k \in q + 1 .. q + n THEN Stream'[k] = <<Current(t), k - q>>
                                    ELSE Stream'[k] # Newline => Stream'[k][1] # Current(t)
  <2>1. CASE k \in 1 .. Len(Stream)
    <3>1. IF k \in p + 1 .. p + offset[t] THEN Stream[k] = <<Current(t), k - p>>
                                          ELSE Stream[k] # Newline => Stream[k][1] # Current(t)
      BY <2>1 DEF Lies, IsBodyByte
    <3>2. CASE offset[t] > 0
      <4>1. q = p /\ (k \in q + 1 .. q + n <=> k \in p + 1 .. p + offset[t])
        BY <2>1, <3>2, <1>0, <1>3
      <4> QED BY <3>1, <4>1, <2>1, <1>1
    <3>3. CASE offset[t] = 0
      <4>1. ~(k \in p + 1 .. p + offset[t]) /\ ~(k \in q + 1 .. q + n)
        BY <2>1, <3>3, <1>0
      <4> QED BY <3>1, <4>1, <2>1, <1>1
    <3>4. offset[t] > 0 \/ offset[t] = 0
      BY <1>0
    <3> QED BY <3>2, <3>3, <3>4, Zenon
  <2>2. CASE k \in Len(Stream) + 1 .. Len(Stream')
    <3>1. /\ k - Len(Stream) \in 1 .. Len(b) /\ offset[t] + (k - Len(Stream)) = k - q
          /\ k \in q + 1 .. q + n
      <4> DEFINE L == Len(Stream)  B == Len(b)  o == offset[t]
      <4>1. L \in Nat /\ B \in Nat /\ o \in Nat /\ n = o + B /\ q + o = L /\ k \in L + 1 .. L + B
        BY <2>2, <1>0
      <4> HIDE DEF L, B, o
      <4>2. k - L \in 1 .. B /\ o + (k - L) = k - q /\ k \in q + 1 .. q + n
        BY <4>1
      <4> QED BY <4>2 DEF L, B, o
    <3>2. Stream'[k] = b[k - Len(Stream)]
      BY <2>2, <1>1
    <3> QED BY <3>1, <3>2
  <2>3. k \in 1 .. Len(Stream) \/ k \in Len(Stream) + 1 .. Len(Stream')
    BY <1>0
  <2> QED BY <2>1, <2>2, <2>3, Zenon
<1>5. q + n <= Len(Stream')
  BY <1>0
<1>6. Lies(t, q, n)'
  BY <1>1, <1>4, <1>5 DEF Lies, IsBodyByte
<1> QED BY <1>6

\* What a chunk does to the stream as a whole: the lock's holder is the only
\* one in the middle of a document.
LEMMA ChunkStream ==
    ASSUME IInv, NEW t \in Tasks, pc[t] = "chunk", calls' = calls, unended' = unended,
           NEW b \in Seq(Elements), Stream' = Stream \o b,
           \A j \in 1 .. Len(b) : b[j] = <<Current(t), offset[t] + j>> /\ b[j] # Newline
    PROVE  StreamIsOfCalls' /\ Contiguous' /\ ExactlyOneNewline'
<1> DEFINE L == Len(Stream)
<1>1. /\ L \in Nat /\ Len(b) \in Nat /\ Len(Stream') = L + Len(b) /\ offset[t] \in Nat
      /\ \A k \in 1 .. L : Stream'[k] = Stream[k]
      /\ \A k \in L + 1 .. L + Len(b) :
             Stream'[k] = <<Current(t), offset[t] + (k - L)>> /\ Stream'[k] # Newline
  <2>1. /\ L \in Nat /\ Len(b) \in Nat /\ Len(Stream') = L + Len(b) /\ offset[t] \in Nat
        /\ \A k \in 1 .. L : Stream'[k] = Stream[k]
        /\ \A k \in L + 1 .. Len(Stream') : Stream'[k] = b[k - L]
    BY Grown DEF IInv, Types
  <2>2. ASSUME NEW k \in L + 1 .. L + Len(b) PROVE k - L \in 1 .. Len(b)
    <3> HIDE DEF L
    <3> QED BY <2>1
  <2> QED BY <2>1, <2>2
<1>2. Mutex /\ AtEnd(t) /\ Laid(t) /\ Progress(t) /\ Types
  BY DEF IInv
<1>3. calls[t] > 0
  BY <1>2 DEF Progress
<1>4. PICK p \in Nat : Lies(t, p, offset[t])
  BY <1>2, <1>3 DEF Laid, Counts, Held
<1>5. ASSUME NEW k \in 1 .. L, Stream[k] # Newline, Stream[k][1] = Current(t)
      PROVE  Stream[k][2] <= offset[t]
  <2>1. k \in p + 1 .. p + offset[t] /\ Stream[k] = <<Current(t), k - p>>
    BY <1>4, <1>5 DEF Lies, IsBodyByte
  <2>2. k \in Nat /\ offset[t] \in Nat /\ k - p <= offset[t]
    BY <2>1, <1>1
  <2> QED BY <2>1, <2>2
<1>6. offset[t] > 0 => L > 0 /\ Stream[L] = <<Current(t), offset[t]>>
  BY <1>2 DEF AtEnd
<1>7. offset[t] = 0 /\ L > 0 /\ Stream[L] # Newline => Stream[L][1] \in unended
  <2> SUFFICES ASSUME offset[t] = 0, L > 0, Stream[L] # Newline,
                      NEW u \in Tasks, pc[u] \in {"chunk", "newline"}, offset[u] > 0
               PROVE  FALSE
    BY DEF IInv, LineIsEnded, IsBodyByte
  <2>1. lock = u /\ lock = t
    BY <1>2 DEF Mutex, Held
  <2> QED BY <2>1
<1> HIDE DEF L
<1>8. \A k \in 1 .. Len(Stream') : k \in 1 .. L \/ k \in L + 1 .. L + Len(b)
  BY <1>1
<1>12. /\ \A k \in L + 1 .. L + Len(b) :
              Stream'[k][1] = Current(t) /\ Stream'[k][2] = offset[t] + (k - L)
       /\ \A k \in L + 2 .. L + Len(b) :
              /\ k > 1 /\ k - 1 \in L + 1 .. L + Len(b)
              /\ Stream'[k - 1] = <<Current(t), (offset[t] + (k - L)) - 1>>
  <2> DEFINE S == Stream'  c == Current(t)  o == offset[t]  n == Len(b)
  <2>1. L \in Nat /\ n \in Nat /\ o \in Nat /\ \A k \in L + 1 .. L + n : S[k] = <<c, o + (k - L)>>
    BY <1>1
  <2> HIDE DEF S, c, o, n
  <2>2. ASSUME NEW k \in L + 1 .. L + n PROVE S[k][1] = c /\ S[k][2] = o + (k - L)
    BY <2>1
  <2>3. ASSUME NEW k \in L + 2 .. L + n
        PROVE  k > 1 /\ k - 1 \in L + 1 .. L + n /\ S[k - 1] = <<c, (o + (k - L)) - 1>>
    <3>1. k - 1 \in L + 1 .. L + n /\ k > 1 /\ o + ((k - 1) - L) = (o + (k - L)) - 1
      BY <2>1
    <3> QED BY <2>1, <3>1
  <2> QED BY <2>2, <2>3 DEF S, c, o, n
<1>9. StreamIsOfCalls'
  <2> SUFFICES ASSUME NEW k \in 1 .. Len(Stream'), Stream'[k] # Newline
               PROVE  Stream'[k][1][2] <= calls[Stream'[k][1][1]]
    BY DEF StreamIsOfCalls, IsBodyByte
  <2>1. CASE k \in 1 .. L
    BY <2>1, <1>1 DEF IInv, StreamIsOfCalls, IsBodyByte, L
  <2>2. CASE k \in L + 1 .. L + Len(b)
    <3>1. Stream'[k][1] = Current(t)
      BY <2>2, <1>12
    <3>2. Current(t)[1] = t /\ Current(t)[2] = calls[t] /\ calls[t] \in Nat
      BY <1>2 DEF Current, Types
    <3>3. Stream'[k][1][1] = t /\ Stream'[k][1][2] = calls[t]
      BY <3>1, <3>2, Zenon
    <3> QED BY <3>2, <3>3
  <2> QED BY <1>8, <2>1, <2>2
<1>10. Contiguous'
  <2> SUFFICES ASSUME NEW k \in 1 .. Len(Stream'), Stream'[k] # Newline
               PROVE  /\ Stream'[k][2] > 1 =>
                             k > 1 /\ Stream'[k - 1] = <<Stream'[k][1], Stream'[k][2] - 1>>
                      /\ \A j \in 1 .. k - 1 : Stream'[j] # Stream'[k]
    BY DEF Contiguous, IsBodyByte
  <2>1. CASE k \in 1 .. L
    <3>1. /\ Stream[k][2] > 1 => k > 1 /\ Stream[k - 1] = <<Stream[k][1], Stream[k][2] - 1>>
          /\ \A j \in 1 .. k - 1 : Stream[j] # Stream[k]
      BY <2>1, <1>1 DEF IInv, Contiguous, IsBodyByte, L
    <3>2. \A j \in 1 .. k - 1 : j \in 1 .. L
      BY <2>1, <1>1
    <3>3. k > 1 => k - 1 \in 1 .. L
      BY <2>1, <1>1
    <3> QED BY <3>1, <3>2, <3>3, <2>1, <1>1
  <2>2. CASE k \in L + 1 .. L + Len(b)
    <3>1. Stream'[k] = <<Current(t), offset[t] + (k - L)>>
      BY <2>2, <1>1
    <3>2. offset[t] + (k - L) > 1 => k > 1 /\ Stream'[k - 1] = <<Current(t), (offset[t] + (k - L)) - 1>>
      <4>1. CASE k = L + 1
        <5>1. offset[t] + (k - L) > 1 => offset[t] > 0
          <6> DEFINE o == offset[t]
          <6>1. o \in Nat /\ L \in Nat /\ k = L + 1
            BY <4>1, <1>1
          <6> HIDE DEF o
          <6>2. o + (k - L) > 1 => o > 0
            BY <6>1
          <6> QED BY <6>2 DEF o
        <5> SUFFICES ASSUME offset[t] > 0
                     PROVE  k > 1 /\ Stream'[k - 1] = <<Current(t), (offset[t] + (k - L)) - 1>>
          BY <5>1
        <5>2. L > 0 /\ Stream[L] = <<Current(t), offset[t]>>
          BY <1>6
        <5>3. k - 1 = L /\ k > 1 /\ L \in 1 .. L /\ (offset[t] + (k - L)) - 1 = offset[t]
          <6> DEFINE o == offset[t]
          <6>1. o \in Nat /\ L \in Nat /\ L > 0 /\ k = L + 1
            BY <4>1, <1>1, <5>2
          <6> HIDE DEF o
          <6>2. k - 1 = L /\ k > 1 /\ L \in 1 .. L /\ (o + (k - L)) - 1 = o
            BY <6>1
          <6> QED BY <6>2 DEF o
        <5> QED BY <5>2, <5>3, <1>1
      <4>2. CASE k # L + 1
        <5>1. k \in L + 2 .. L + Len(b)
          BY <2>2, <4>2, <1>1
        <5> QED BY <5>1, <1>12
      <4> QED BY <4>1, <4>2
    <3>3. ASSUME NEW j \in 1 .. k - 1 PROVE Stream'[j] # Stream'[k]
      <4>1. j \in 1 .. L \/ j \in L + 1 .. L + Len(b)
        BY <2>2, <1>1
      <4>2. CASE j \in 1 .. L
        <5>1. Stream[j] = Stream'[j]
          BY <4>2, <1>1
        <5>2. offset[t] + (k - L) > offset[t] /\ offset[t] + (k - L) \in Nat
          BY <2>2, <1>1
        <5> SUFFICES ASSUME Stream[j] = Stream'[k] PROVE FALSE
          BY <5>1
        <5>3. Stream[j] # Newline /\ Stream[j][1] = Current(t) /\ Stream[j][2] = offset[t] + (k - L)
          BY <3>1
        <5>4. Stream[j][2] <= offset[t]
          BY <5>3, <4>2, <1>5 DEF L
        <5> QED BY <5>2, <5>3, <5>4, <1>1
      <4>3. CASE j \in L + 1 .. L + Len(b)
        <5>1. offset[t] + (j - L) # offset[t] + (k - L)
          BY <2>2, <4>3, <1>1
        <5> QED BY <5>1, <3>1, <4>3, <1>1, SMTT(30)
      <4> QED BY <4>1, <4>2, <4>3
    <3>4. Stream'[k][1] = Current(t) /\ Stream'[k][2] = offset[t] + (k - L)
      BY <2>2, <1>12
    <3> DEFINE i == offset[t] + (k - L)
    <3>5. i > 1 => k > 1 /\ Stream'[k - 1] = <<Current(t), i - 1>>
      BY <3>2
    <3>6. Stream'[k][1] = Current(t) /\ Stream'[k][2] = i
      BY <3>4
    <3> HIDE DEF i
    <3> QED BY <3>3, <3>5, <3>6, Zenon
  <2> QED BY <1>8, <2>1, <2>2
<1>11. ExactlyOneNewline'
  <2> SUFFICES ASSUME NEW k \in 1 .. Len(Stream')
               PROVE  /\ Stream'[k] = Newline => k > 1 /\ Stream'[k - 1] # Newline
                      /\ k > 1 /\ Stream'[k] # Newline /\ Stream'[k - 1] # Newline
                           /\ Stream'[k][1] # Stream'[k - 1][1] => Stream'[k - 1][1] \in unended
    BY DEF ExactlyOneNewline, IsBodyByte
  <2>1. CASE k \in 1 .. L
    <3>1. /\ Stream[k] = Newline => k > 1 /\ Stream[k - 1] # Newline
          /\ k > 1 /\ Stream[k] # Newline /\ Stream[k - 1] # Newline
               /\ Stream[k][1] # Stream[k - 1][1] => Stream[k - 1][1] \in unended
      BY <2>1 DEF IInv, ExactlyOneNewline, IsBodyByte, L
    <3>2. k > 1 => k - 1 \in 1 .. L
      BY <2>1, <1>1
    <3> QED BY <3>1, <3>2, <2>1, <1>1
  <2>2. CASE k \in L + 1 .. L + Len(b)
    <3>1. Stream'[k] # Newline /\ Stream'[k][1] = Current(t)
      BY <2>2, <1>1, <1>12
    <3>2. CASE k = L + 1
      <4> SUFFICES ASSUME k > 1, Stream'[k - 1] # Newline, Stream'[k - 1][1] # Current(t)
                   PROVE  Stream'[k - 1][1] \in unended
        BY <3>1
      <4>1. k - 1 = L /\ L \in 1 .. L /\ L > 0
        BY <3>2, <1>1
      <4>2. Stream'[k - 1] = Stream[L]
        BY <4>1, <1>1
      <4>3. offset[t] = 0
        BY <4>1, <4>2, <1>1, <1>6
      <4> QED BY <4>1, <4>2, <4>3, <1>7
    <3>3. CASE k # L + 1
      <4>1. k - 1 \in L + 1 .. L + Len(b)
        BY <2>2, <3>3, <1>1
      <4>2. Stream'[k - 1][1] = Current(t)
        BY <4>1, <1>12
      <4> QED BY <3>1, <4>2
    <3> QED BY <3>2, <3>3
  <2> QED BY <1>8, <2>1, <2>2
<1> QED BY <1>9, <1>10, <1>11

LEMMA WriteChunkIInv == ASSUME IInv, NEW t \in Tasks, WriteChunk(t) PROVE IInv'
<1> DEFINE b == Bytes(t, offset[t], Chunk(t))
<1>1. /\ Chunk(t) \in 1 .. doc[t].body - offset[t]
      /\ b \in Seq(Elements) /\ Len(b) = Chunk(t) /\ Len(b) <= BlockSize
      /\ \A j \in 1 .. Chunk(t) : b[j] = <<Current(t), offset[t] + j>> /\ b[j] # Newline
  BY ChunkFacts DEF IInv, WriteChunk
<1>2. Put(b)
  BY DEF WriteChunk
<1> HIDE DEF b
<1>3. PICK N \in Nat : N = offset[t] + Len(b)
  BY <1>1, BodyIsNat DEF IInv, Types
<1>4. N \in 1 .. doc[t].body
  BY <1>1, <1>3, BodyIsNat, SMTT(30) DEF IInv, Types
<1>5. /\ offset' = [offset EXCEPT ![t] = N]
      /\ \/ /\ N = doc[t].body
            /\ pc' = [pc EXCEPT ![t] = "newline"] /\ ok' = [ok EXCEPT ![t] = TRUE]
         \/ N # doc[t].body /\ UNCHANGED <<pc, ok>>
      /\ UNCHANGED <<lock, doc, calls, returned, unended>>
      /\ pc[t] = "chunk"
  <2>1. /\ offset' = [offset EXCEPT ![t] = offset[t] + Chunk(t)]
        /\ IF offset'[t] = doc[t].body
             THEN pc' = [pc EXCEPT ![t] = "newline"] /\ ok' = [ok EXCEPT ![t] = TRUE]
             ELSE UNCHANGED <<pc, ok>>
        /\ UNCHANGED <<lock, doc, calls, returned, unended>> /\ pc[t] = "chunk"
    BY DEF WriteChunk, Size
  <2>2. offset[t] + Chunk(t) = N
    BY <1>1, <1>3
  <2>3. offset'[t] = N
    BY <2>1, <2>2 DEF IInv, Types
  <2>4. offset' = [offset EXCEPT ![t] = N]
    BY <2>1, <2>2, Zenon
  <2>5. CASE N = doc[t].body
    <3>1. pc' = [pc EXCEPT ![t] = "newline"] /\ ok' = [ok EXCEPT ![t] = TRUE]
      BY <2>1, <2>3, <2>5
    <3> QED BY <2>1, <2>4, <2>5, <3>1
  <2>6. CASE N # doc[t].body
    <3>1. UNCHANGED <<pc, ok>>
      BY <2>1, <2>3, <2>6
    <3> QED BY <2>1, <2>4, <2>6, <3>1, Zenon
  <2> QED BY <2>5, <2>6, Zenon
<1>6. /\ Stream' = Stream \o b
      /\ filling' \in Seq(Elements) /\ exposed' \in Seq(Elements) /\ gone' \in Seq(Elements)
      /\ Len(filling') <= BlockSize /\ Len(exposed') <= BlockSize
  BY <1>1, <1>2, PutGrows DEF IInv
<1>7. Types'
  BY <1>5, <1>6 DEF IInv, Types, Held
<1>8. Mutex'
  BY <1>5 DEF IInv, Types, Mutex, Held
<1>9. ResultsAreOfCalls'
  BY <1>5 DEF IInv, Types, ResultsAreOfCalls
<1>10. StreamIsOfCalls' /\ Contiguous' /\ ExactlyOneNewline'
  BY <1>1, <1>5, <1>6, ChunkStream
<1>11. /\ Len(Stream') = Len(Stream) + Len(b) /\ Len(Stream) \in Nat /\ Len(b) \in Nat
       /\ Stream'[Len(Stream')] = <<Current(t), N>> /\ Current(t)' = Current(t)
  <2>1. /\ Len(Stream') = Len(Stream) + Len(b) /\ Len(Stream) \in Nat /\ Len(b) \in Nat
        /\ \A k \in Len(Stream) + 1 .. Len(Stream') : Stream'[k] = b[k - Len(Stream)]
    BY <1>1, <1>6, Grown DEF IInv
  <2>2. Len(Stream') \in Len(Stream) + 1 .. Len(Stream') /\ Len(Stream') - Len(Stream) = Len(b)
        /\ Len(b) \in 1 .. Chunk(t)
    BY <1>1, <2>1
  <2> QED BY <1>1, <1>3, <1>5, <2>1, <2>2 DEF Current
<1>16. /\ offset'[t] = N /\ doc'[t] = doc[t] /\ calls'[t] = calls[t] /\ calls[t] > 0
       /\ doc[t].body > 0 /\ N > 0 /\ N <= doc[t].body /\ doc[t].body \in Nat
       /\ \/ N = doc[t].body /\ pc'[t] = "newline" /\ ok'[t] = TRUE
          \/ N # doc[t].body /\ pc'[t] = "chunk"
  BY <1>4, <1>5, BodyIsNat DEF IInv, Types, Progress
<1>12. Progress(t)' /\ AtEnd(t)'
  <2>1. Progress(t)'
    BY <1>16 DEF Progress, Held
  <2>2. Len(Stream') > 0
    BY <1>1, <1>11
  <2> QED BY <1>11, <1>16, <2>1, <2>2 DEF AtEnd
<1>13. Laid(t)'
  <2>1. PICK p \in Nat, n \in 0 .. doc[t].body : Lies(t, p, n) /\ Counts(t, n)
    BY <1>5 DEF IInv, Laid, Progress
  <2>2. Lies(t, p, offset[t])
    BY <2>1, <1>5 DEF Counts, Held
  <2>3. \E q \in Nat : Lies(t, q, N)'
    BY <1>1, <1>3, <1>5, <1>6, <2>2, ChunkLies DEF IInv, Progress
  <2>4. Counts(t, N)'
    BY <1>5 DEF IInv, Types, Counts, Held
  <2> QED BY <1>4, <1>5, <2>3, <2>4 DEF Laid
<1>14. LineIsEnded'
  <2>1. pc'[t] \in {"chunk", "newline"} /\ offset'[t] > 0 /\ Stream'[Len(Stream')][1] = Current(t)'
    BY <1>4, <1>5, <1>11 DEF IInv, Types
  <2> QED BY <2>1 DEF LineIsEnded
<1>15. ASSUME NEW u \in Tasks \ {t} PROVE Progress(u)' /\ Laid(u)' /\ AtEnd(u)'
  <2>1. Same(u) /\ Progress(u) /\ Laid(u) /\ AtEnd(u) /\ Types
    BY <1>5 DEF IInv, Types, Same
  <2>2. pc[u] \notin {"chunk", "newline"}
    BY <1>5 DEF IInv, Mutex, Held
  <2>3. \A j \in 1 .. Len(b) : b[j] # Newline => b[j][1] # Current(u)
    BY <1>1 DEF Current
  <2> QED BY <1>1, <1>6, <2>1, <2>2, <2>3, OthersStay
<1> QED BY <1>7, <1>8, <1>9, <1>10, <1>12, <1>13, <1>14, <1>15 DEF IInv

\* What the newline does to the stream as a whole.
LEMMA NewlineStream ==
    ASSUME IInv, calls' = calls, unended' = unended, Stream' = Stream \o <<Newline>>,
           Len(Stream) > 0, Stream[Len(Stream)] # Newline
    PROVE  StreamIsOfCalls' /\ Contiguous' /\ ExactlyOneNewline' /\ LineIsEnded'
<1> DEFINE L == Len(Stream)
<1>1. /\ L \in Nat /\ Len(Stream') = L + 1 /\ L > 0
      /\ \A k \in 1 .. L : Stream'[k] = Stream[k]
      /\ Stream'[L + 1] = Newline
  <2>1. <<Newline>> \in Seq(Elements) /\ Len(<<Newline>>) = 1 /\ <<Newline>>[1] = Newline
    BY DEF Elements
  <2>2. /\ L \in Nat /\ Len(Stream') = L + 1
        /\ \A k \in 1 .. L : Stream'[k] = Stream[k]
        /\ \A k \in L + 1 .. Len(Stream') : Stream'[k] = <<Newline>>[k - L]
    BY <2>1, Grown DEF IInv
  <2>3. L + 1 \in L + 1 .. Len(Stream') /\ (L + 1) - L = 1
    <3> HIDE DEF L
    <3> QED BY <2>2
  <2> QED BY <2>1, <2>2, <2>3
<1> HIDE DEF L
<1>2. \A k \in 1 .. Len(Stream') : k \in 1 .. L \/ k = L + 1
  BY <1>1
<1>3. StreamIsOfCalls' /\ LineIsEnded'
  <2>1. \A k \in 1 .. L : Stream[k] # Newline => Stream[k][1][2] <= calls[Stream[k][1][1]]
    BY DEF IInv, StreamIsOfCalls, IsBodyByte, L
  <2> QED BY <1>1, <1>2, <2>1 DEF StreamIsOfCalls, LineIsEnded, IsBodyByte
<1>4. Contiguous'
  <2> SUFFICES ASSUME NEW k \in 1 .. Len(Stream'), Stream'[k] # Newline
               PROVE  /\ Stream'[k][2] > 1 =>
                             k > 1 /\ Stream'[k - 1] = <<Stream'[k][1], Stream'[k][2] - 1>>
                      /\ \A j \in 1 .. k - 1 : Stream'[j] # Stream'[k]
    BY DEF Contiguous, IsBodyByte
  <2>1. k \in 1 .. L
    BY <1>1, <1>2
  <2>2. /\ Stream[k][2] > 1 => k > 1 /\ Stream[k - 1] = <<Stream[k][1], Stream[k][2] - 1>>
        /\ \A j \in 1 .. k - 1 : Stream[j] # Stream[k]
    BY <2>1, <1>1 DEF IInv, Contiguous, IsBodyByte, L
  <2>3. (\A j \in 1 .. k - 1 : j \in 1 .. L) /\ (k > 1 => k - 1 \in 1 .. L)
    BY <2>1, <1>1
  <2> QED BY <2>1, <2>2, <2>3, <1>1
<1>5. ExactlyOneNewline'
  <2> SUFFICES ASSUME NEW k \in 1 .. Len(Stream')
               PROVE  /\ Stream'[k] = Newline => k > 1 /\ Stream'[k - 1] # Newline
                      /\ k > 1 /\ Stream'[k] # Newline /\ Stream'[k - 1] # Newline
                           /\ Stream'[k][1] # Stream'[k - 1][1] => Stream'[k - 1][1] \in unended
    BY DEF ExactlyOneNewline, IsBodyByte
  <2>1. CASE k \in 1 .. L
    <3>1. /\ Stream[k] = Newline => k > 1 /\ Stream[k - 1] # Newline
          /\ k > 1 /\ Stream[k] # Newline /\ Stream[k - 1] # Newline
               /\ Stream[k][1] # Stream[k - 1][1] => Stream[k - 1][1] \in unended
      BY <2>1 DEF IInv, ExactlyOneNewline, IsBodyByte, L
    <3>2. k > 1 => k - 1 \in 1 .. L
      BY <2>1, <1>1
    <3> QED BY <3>1, <3>2, <2>1, <1>1
  <2>2. CASE k = L + 1
    <3>1. k > 1 /\ k - 1 = L /\ L \in 1 .. L /\ Stream[L] # Newline
      BY <2>2, <1>1 DEF L
    <3>2. Stream'[k] = Newline /\ Stream'[k - 1] # Newline
      BY <3>1, <2>2, <1>1
    <3> QED BY <3>1, <3>2
  <2> QED BY <1>2, <2>1, <2>2
<1> QED BY <1>3, <1>4, <1>5

LEMMA WriteNewlineIInv == ASSUME IInv, NEW t \in Tasks, WriteNewline(t) PROVE IInv'
<1> DEFINE b == <<Newline>>
<1>1. /\ b \in Seq(Elements) /\ Len(b) = 1 /\ Len(b) <= BlockSize
      /\ \A j \in 1 .. Len(b) : b[j] = Newline
  BY ChunkAssumption DEF Elements
<1>2. Put(b) /\ pc[t] = "newline"
  BY DEF WriteNewline
<1> HIDE DEF b
<1>3. /\ pc' = [pc EXCEPT ![t] = IF ok[t] THEN "flush" ELSE "give"]
      /\ UNCHANGED <<lock, doc, offset, ok, calls, returned, unended>>
  BY DEF WriteNewline, AfterNewline
<1>4. /\ Stream' = Stream \o b
      /\ filling' \in Seq(Elements) /\ exposed' \in Seq(Elements) /\ gone' \in Seq(Elements)
      /\ Len(filling') <= BlockSize /\ Len(exposed') <= BlockSize
  BY <1>1, <1>2, PutGrows DEF IInv
<1>5. Types'
  BY <1>3, <1>4 DEF IInv, Types, Held
<1>6. Mutex'
  BY <1>2, <1>3 DEF IInv, Types, Mutex, Held
<1>7. ResultsAreOfCalls'
  BY <1>2, <1>3 DEF IInv, Types, ResultsAreOfCalls
<1>8. Len(Stream) > 0 /\ Stream[Len(Stream)] # Newline
  <2>1. Len(Stream) > 0 /\ Stream[Len(Stream)] = <<Current(t), offset[t]>>
    BY <1>2 DEF IInv, AtEnd, Progress
  <2>2. <<Current(t), offset[t]>> \in Ids \X Nat
    BY <1>2, CurrentIsId DEF IInv, Types, Progress
  <2> QED BY <2>1, <2>2, NewlineAssumption
<1>9. StreamIsOfCalls' /\ Contiguous' /\ ExactlyOneNewline' /\ LineIsEnded'
  BY <1>3, <1>4, <1>8, NewlineStream DEF b
<1>10. Progress(t)' /\ AtEnd(t)'
  BY <1>2, <1>3 DEF IInv, Types, Progress, AtEnd, Held
<1>11. Laid(t)'
  <2>1. PICK p \in Nat, n \in 0 .. doc[t].body : Lies(t, p, n) /\ Counts(t, n)
    BY <1>2 DEF IInv, Laid, Progress
  <2>2. n \in Nat
    BY BodyIsNat DEF IInv
  <2>3. Lies(t, p, n)'
    BY <1>1, <1>3, <1>4, <2>1, <2>2, LiesOn DEF IInv
  <2>4. Counts(t, n)'
    BY <1>2, <1>3, <2>1 DEF IInv, Types, Counts, Held
  <2> QED BY <1>3, <2>3, <2>4 DEF Laid
<1>12. ASSUME NEW u \in Tasks \ {t} PROVE Progress(u)' /\ Laid(u)' /\ AtEnd(u)'
  <2>1. Same(u) /\ Progress(u) /\ Laid(u) /\ AtEnd(u) /\ Types
    BY <1>3 DEF IInv, Types, Same
  <2>2. pc[u] \notin {"chunk", "newline"}
    BY <1>2 DEF IInv, Mutex, Held
  <2> QED BY <1>1, <1>4, <2>1, <2>2, OthersStay
<1> QED BY <1>5, <1>6, <1>7, <1>9, <1>10, <1>11, <1>12 DEF IInv

-----------------------------------------------------------------------------
(* The invariant *)

LEMMA InitIInv == Init => IInv
<1> SUFFICES ASSUME Init PROVE IInv
  OBVIOUS
<1>1. Types
  BY EmptySeq, ChunkAssumption, MaxDocumentsAssumption DEF Init, Types, Empty
<1>2. Len(Stream) = 0
  <2>1. <<>> \o <<>> = <<>>
    OBVIOUS
  <2> QED BY <2>1 DEF Init, Stream
<1>3. Mutex
  BY LockAssumption DEF Init, Mutex, Held
<1>4. ASSUME NEW t \in Tasks PROVE Progress(t) /\ Laid(t) /\ AtEnd(t)
  BY DEF Init, Progress, Laid, AtEnd, Held
<1>5. StreamIsOfCalls /\ LineIsEnded /\ Contiguous /\ ExactlyOneNewline
  BY <1>2 DEF StreamIsOfCalls, LineIsEnded, Contiguous, ExactlyOneNewline
<1>6. ResultsAreOfCalls
  BY DEF Init, ResultsAreOfCalls
<1> QED BY <1>1, <1>3, <1>4, <1>5, <1>6 DEF IInv

LEMMA NextIInv == IInv /\ [Next]_vars => IInv'
<1> SUFFICES ASSUME IInv, [Next]_vars PROVE IInv'
  OBVIOUS
<1>1. ASSUME NEW t \in Tasks, NEW d \in Documents, Call(t, d) PROVE IInv'
  BY <1>1, CallIInv
<1>2. ASSUME NEW t \in Tasks, Write(t) PROVE IInv'
  BY <1>2, TakeIInv, WriteChunkIInv, ChunkFailsIInv, WriteNewlineIInv, NewlineFailsIInv,
     FlushDocumentIInv, GiveIInv DEF Write
<1>3. CASE ForceFlush
  BY <1>3, MoveIInv DEF ForceFlush, Flush
<1>4. CASE HostRead
  BY <1>4, MoveIInv DEF HostRead
<1>5. CASE UNCHANGED vars
  BY <1>5, MoveIInv DEF vars, channel
<1>6. CASE HostComes \/ HostLeaves
  BY <1>6, MoveIInv DEF HostComes, HostLeaves
<1> QED BY <1>1, <1>2, <1>3, <1>4, <1>5, <1>6 DEF Next

\* The invariant is inductive.
THEOREM Inductive == Spec => []IInv
BY InitIInv, NextIInv, PTL DEF Spec

-----------------------------------------------------------------------------
(* What is recycled unread *)

\* Bytes are recycled only without a host, and only those of calls made so far.
Attendance ==
    /\ connected \in BOOLEAN /\ attended \in BOOLEAN
    /\ unread \subseteq Ids /\ \A id \in unread : id[2] <= calls[id[1]]
    /\ attended => connected /\ Current(Profiler) \notin unread

LEMMA InExposed ==
    ASSUME IInv, NEW id \in DocumentsIn(exposed)
    PROVE  id \in Ids /\ id[2] <= calls[id[1]]
<1>1. PICK i \in 1 .. Len(exposed) : exposed[i] # Newline /\ id = exposed[i][1]
  BY DEF DocumentsIn
<1>2. /\ gone \in Seq(Elements) /\ exposed \in Seq(Elements) /\ filling \in Seq(Elements)
      /\ Len(gone) \in Nat /\ Len(exposed) \in Nat /\ Len(filling) \in Nat
  BY LenProperties DEF IInv, Types
<1>3. PICK k \in Nat : k = Len(gone) + i
  BY <1>2
<1>4. /\ gone \o exposed \in Seq(Elements) /\ Len(gone \o exposed) = Len(gone) + Len(exposed)
      /\ (gone \o exposed)[k] = exposed[i]
      /\ k \in 1 .. Len(gone \o exposed)
  BY <1>1, <1>2, <1>3, ConcatProperties
<1>5. Len(Stream) = Len(gone \o exposed) + Len(filling) /\ Stream[k] = (gone \o exposed)[k]
  BY <1>2, <1>4, ConcatProperties DEF Stream
<1>6. k \in 1 .. Len(Stream)
  BY <1>2, <1>4, <1>5
<1>7. IsBodyByte(k) /\ id = Stream[k][1]
  BY <1>1, <1>4, <1>5 DEF IsBodyByte
<1>8. Types /\ StreamIsOfCalls
  BY DEF IInv
<1> QED BY <1>6, <1>7, <1>8, ByteFacts DEF StreamIsOfCalls

LEMMA BlocksAttendance ==
    ASSUME IInv, Attendance, calls' = calls,
           \/ \E b \in Seq(Elements) : Put(b)
           \/ FlushChannel
           \/ UNCHANGED channel
    PROVE  Attendance'
<1>1. /\ connected' = connected /\ attended' = attended
      /\ unread' # unread => CanSwap /\ unread' = unread \cup DocumentsIn(exposed)
  <2>1. ASSUME NEW b \in Seq(Elements), Put(b)
        PROVE  /\ connected' = connected /\ attended' = attended
               /\ unread' # unread => CanSwap /\ unread' = unread \cup DocumentsIn(exposed)
    <3>1. connected' = connected /\ attended' = attended
      BY <2>1 DEF Put, presence
    <3>2. CASE Len(filling) + Len(b) <= BlockSize
      BY <2>1, <3>1, <3>2 DEF Put
    <3>3. CASE ~(Len(filling) + Len(b) <= BlockSize)
      <4>1. CanSwap
        BY <2>1, <3>3, Zenon DEF Put, HasSpace
      <4>2. Swap(b)
        BY <2>1, <3>3, Zenon DEF Put
      <4> QED BY <3>1, <4>1, <4>2 DEF Swap
    <3> QED BY <3>2, <3>3
  <2>2. CASE FlushChannel
    <3>1. connected' = connected /\ attended' = attended
      BY <2>2 DEF FlushChannel, presence
    <3>2. CASE CanSwap
      <4>1. Swap(<<>>)
        BY <2>2, <3>2, Zenon DEF FlushChannel
      <4> QED BY <3>1, <3>2, <4>1 DEF Swap
    <3>3. CASE ~CanSwap
      BY <2>2, <3>1, <3>3 DEF FlushChannel, blocks
    <3> QED BY <3>1, <3>2, <3>3
  <2>3. CASE UNCHANGED channel
    BY <2>3 DEF channel, blocks, presence
  <2> QED BY <2>1, <2>2, <2>3, Zenon
<1>2. Attendance
  OBVIOUS
<1>3. CASE unread' = unread
  BY <1>1, <1>2, <1>3 DEF Attendance, Current
<1>4. CASE CanSwap /\ unread' = unread \cup DocumentsIn(exposed)
  <2>1. attended => unread' = unread
    <3> SUFFICES ASSUME attended PROVE unread' = unread
      OBVIOUS
    <3>1. exposed = <<>>
      BY <1>4 DEF CanSwap, Attendance
    <3>2. 1 .. Len(exposed) = {}
      BY <3>1
    <3>3. DocumentsIn(exposed) = {}
      BY <3>2 DEF DocumentsIn
    <3> QED BY <1>4, <3>3
  <2>2. unread' \subseteq Ids /\ \A id \in unread' : id[2] <= calls[id[1]]
    BY <1>4, InExposed DEF Attendance
  <2> QED BY <1>1, <1>2, <2>1, <2>2 DEF Attendance, Current
<1> QED BY <1>1, <1>3, <1>4

LEMMA NextAttendance == ASSUME IInv, Attendance, [Next]_vars PROVE Attendance'
<1>1. ASSUME NEW t \in Tasks, NEW d \in Documents, Call(t, d) PROVE Attendance'
  <2>1. /\ calls \in [Tasks -> 0 .. MaxDocuments] /\ calls' = [calls EXCEPT ![t] = @ + 1]
        /\ attended' = IF t = Profiler THEN connected ELSE attended
        /\ connected' = connected /\ unread' = unread
    BY <1>1 DEF Call, blocks, IInv, Types
  <2>2. \A u \in Tasks : calls[u] \in Nat /\ calls'[u] \in Nat /\ calls[u] <= calls'[u]
    BY <2>1, MaxDocumentsAssumption
  <2>3. \A id \in unread : id[1] \in Tasks /\ id[2] \in Nat
    BY MaxDocumentsAssumption DEF Attendance, Ids
  <2>4. \A id \in unread : id[2] <= calls'[id[1]]
    BY <2>2, <2>3 DEF Attendance
  <2>5. CASE t = Profiler
    <3>1. Current(Profiler)' = <<Profiler, calls[Profiler] + 1>>
      BY <2>1, <2>5 DEF Current
    <3>2. Current(Profiler)' \notin unread
      BY <2>2, <2>5, <3>1 DEF Attendance
    <3> QED BY <2>1, <2>4, <2>5, <3>2 DEF Attendance
  <2>6. CASE t # Profiler
    <3>1. Current(Profiler)' = Current(Profiler)
      BY <2>1, <2>6, ProfilerAssumption DEF Current
    <3> QED BY <2>1, <2>4, <2>6, <3>1 DEF Attendance
  <2> QED BY <2>5, <2>6
<1>2. ASSUME NEW t \in Tasks, Write(t) PROVE Attendance'
  <2>1. CASE WriteChunk(t)
    <3>1. Bytes(t, offset[t], Chunk(t)) \in Seq(Elements)
      BY <2>1, ChunkFacts DEF IInv, WriteChunk
    <3> QED BY <2>1, <3>1, BlocksAttendance DEF WriteChunk
  <2>2. CASE WriteNewline(t)
    <3>1. <<Newline>> \in Seq(Elements)
      BY DEF Elements
    <3> QED BY <2>2, <3>1, BlocksAttendance DEF WriteNewline
  <2>3. CASE Take(t) \/ ChunkFails(t) \/ NewlineFails(t) \/ Give(t)
    BY <2>3, BlocksAttendance DEF Take, ChunkFails, NewlineFails, Give
  <2>4. CASE FlushDocument(t)
    BY <2>4, BlocksAttendance DEF FlushDocument
  <2> QED BY <1>2, <2>1, <2>2, <2>3, <2>4 DEF Write
<1>3. CASE ForceFlush \/ UNCHANGED vars
  BY <1>3, BlocksAttendance DEF ForceFlush, Flush, vars
<1>4. CASE HostRead \/ HostComes \/ HostLeaves
  <2>1. /\ calls' = calls /\ unread' = unread /\ connected' \in BOOLEAN /\ attended' \in BOOLEAN
        /\ attended' => attended /\ connected'
    <3>1. CASE HostRead
      BY <3>1 DEF HostRead, presence, Attendance
    <3>2. CASE HostComes
      BY <3>2 DEF HostComes, blocks, Attendance
    <3>3. CASE HostLeaves
      BY <3>3 DEF HostLeaves, blocks, Attendance
    <3> QED BY <1>4, <3>1, <3>2, <3>3
  <2>2. Current(Profiler)' = Current(Profiler)
    BY <2>1 DEF Current
  <2> QED BY <2>1, <2>2 DEF Attendance
<1> QED BY <1>1, <1>2, <1>3, <1>4 DEF Next

LEMMA AttendanceHolds == Spec => []Attendance
<1>1. Init => Attendance
  BY DEF Init, Attendance
<1>2. IInv /\ Attendance /\ [Next]_vars => Attendance'
  BY NextAttendance
<1> QED BY <1>1, <1>2, Inductive, PTL DEF Spec

LEMMA TypesGiveTypeOK == ASSUME IInv, Attendance PROVE TypeOK
<1>1. \A t \in Tasks : offset[t] <= Size(doc[t]) \/ pc[t] \in {"idle", "take"}
  BY DEF IInv, Types, Held, Progress, Size
<1> QED BY <1>1 DEF IInv, Types, Attendance, TypeOK, Held

\* WriteDocument takes the lock for all the chunks of a document: the bytes of
\* a document lie side by side in the stream, in order and from the first on,
\* whatever the other tasks write and flush and whichever write fails.
THEOREM Contiguity == Spec => []DocumentsAreContiguous
<1>1. IInv /\ Attendance => DocumentsAreContiguous
  BY TypesGiveTypeOK DEF IInv, Contiguous, DocumentsAreContiguous
<1> QED BY <1>1, Inductive, AttendanceHolds, PTL

\* WriteDocument strips the trailing newlines, writes one of its own, and writes
\* it as well after a chunk that failed with part of the document written: no
\* line is empty, and documents share one only where that newline failed.
THEOREM SingleNewline == Spec => []ExactlyOneNewline
<1>1. IInv => ExactlyOneNewline
  BY DEF IInv
<1> QED BY <1>1, Inductive, PTL

\* As many bytes of a document are in the stream as its task counted.
LEMMA WrittenCount ==
    ASSUME IInv, NEW t \in Tasks, NEW p \in Nat, NEW n \in Nat, Lies(t, p, n),
           calls[t] > 0
    PROVE  Cardinality(Written(Current(t))) = n
<1>1. Len(Stream) \in Nat /\ p + n <= Len(Stream)
  BY StreamType DEF IInv, Lies
<1>2. Written(Current(t)) = p + 1 .. p + n
  <2>1. ASSUME NEW k \in 1 .. Len(Stream), k \in p + 1 .. p + n
        PROVE  IsBodyByte(k) /\ Stream[k][1] = Current(t)
    <3>1. Stream[k] = <<Current(t), k - p>>
      BY <2>1 DEF Lies
    <3>3. <<Current(t), k - p>> \in Ids \X Nat
      BY <1>1, <2>1, CurrentIsId, SMTT(30) DEF IInv, Types
    <3> QED BY <3>1, <3>3, NewlineAssumption DEF IsBodyByte
  <2>2. ASSUME NEW k \in 1 .. Len(Stream), k \notin p + 1 .. p + n, IsBodyByte(k)
        PROVE  Stream[k][1] # Current(t)
    BY <2>2 DEF Lies
  <2> QED BY <1>1, <2>1, <2>2 DEF Written
<1>3. p + 1 \in Int /\ p + n \in Int
  OBVIOUS
<1>4. Cardinality(p + 1 .. p + n) = IF p + 1 > p + n THEN 0 ELSE (p + n) - (p + 1) + 1
  BY <1>3, FS_Interval
<1> QED BY <1>2, <1>4

\* JtagProfilesExporter::Export reports WriteDocument's result, and that is true
\* if and only if the channel accepted every byte of the document, with a host or
\* without, and whatever the other signals write.  With a host connected ever
\* since the call, none of those bytes is lost unread.
THEOREM ResultsAreTrue == Spec => []ResultTellsWhatWasWritten
<1>1. IInv /\ Attendance => ResultTellsWhatWasWritten
  <2> DEFINE t == Profiler
  <2> SUFFICES ASSUME IInv, Attendance, pc[t] = "idle", calls[t] > 0
               PROVE  <<Current(t), TRUE>> \in returned
                        <=> Cardinality(Written(Current(t))) = doc[t].body
    BY DEF ResultTellsWhatWasWritten, Attendance
  <2>0. t \in Tasks /\ t \notin Signals
    BY ProfilerAssumption DEF Signals
  <2> HIDE DEF t
  <2>1. PICK p \in Nat, n \in 0 .. doc[t].body : Lies(t, p, n) /\ Counts(t, n)
    BY <2>0 DEF IInv, Laid
  <2>2. n \in Nat
    BY <2>0, BodyIsNat DEF IInv
  <2>3. Cardinality(Written(Current(t))) = n
    BY <2>0, <2>1, <2>2, WrittenCount
  <2> QED BY <2>0, <2>1, <2>3 DEF Counts
<1> QED BY <1>1, Inductive, AttendanceHolds, PTL
=============================================================================
