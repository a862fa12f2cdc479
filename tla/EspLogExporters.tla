---------------------------- MODULE EspLogExporters ----------------------------
(***************************************************************************)
(* The exporters of src/integration/esp_log_exporters.cpp, which print on  *)
(* the console.  Those of spans, logs and metrics let the SDK's Ostream    *)
(* exporters (external) write to an EspLogStreambuf, which makes one       *)
(* ESP_LOGI of every line; the one of profiles prints a document at once.  *)
(* Each runs in one task.                                                  *)
(*                                                                         *)
(* A text is a sequence of characters, of which the ends of lines and NULs *)
(* matter.                                                                 *)
(***************************************************************************)
EXTENDS Naturals, Sequences, FiniteSetsExt

CONSTANTS
    Tags,           \* the tags of the Ostream exporters
    ProfileTag,     \* the tag of the profiles exporter
    Newline, Nul,   \* the characters that matter
    MaxExports      \* bounds the exports of each exporter

VARIABLES
    lines,      \* the lines on the console under each tag
    line,       \* line_ of each streambuf
    rest,       \* what an export still has to write
    written,    \* history: all the characters an exporter wrote
    exports,    \* how many exports there were
    down        \* the exporters that were shut down

evars == <<lines, line, rest, written, exports, down>>

Printers == Tags \cup {ProfileTag}

EInit ==
    /\ lines   = [t \in Printers |-> <<>>]
    /\ line    = [t \in Tags |-> <<>>]
    /\ rest    = [t \in Tags |-> <<>>]
    /\ written = [t \in Tags |-> <<>>]
    /\ exports = [t \in Printers |-> 0]
    /\ down    = {}

\* The places of a character in a text, and the text before the first.
Places(c, text) == {k \in 1 .. Len(text) : text[k] = c}
UpTo(c, text)   == IF Places(c, text) = {} THEN text
                   ELSE SubSeq(text, 1, Min(Places(c, text)) - 1)

\* ESP_LOGI: one call is one line, unless the tag's level, which the
\* application may change at any time, filters it; "%s" ends at a NUL.
PrintLine(t, text) ==
    \/ lines' = [lines EXCEPT ![t] = Append(@, UpTo(Nul, text))]
    \/ UNCHANGED lines

\* Export: the inner exporter, unless it was shut down, starts to write.
Export(t, text) ==
    /\ rest[t] = <<>> /\ t \notin down
    /\ exports[t] < MaxExports
    /\ exports' = [exports EXCEPT ![t] = @ + 1]
    /\ rest' = [rest EXCEPT ![t] = text]
    /\ UNCHANGED <<lines, line, written, down>>

\* The buffer after its line was printed; the variant keeps it.
Kept(t)    == line[t]
Cleared(t) == <<>>

\* overflow() of the characters of a line, and of the '\n' that ends it.
WriteLine(t) ==
    /\ Places(Newline, rest[t]) # {}
    /\ LET text == UpTo(Newline, rest[t])
           n    == Len(text) + 1
       IN  /\ PrintLine(t, line[t] \o text)
           /\ line' = [line EXCEPT ![t] = Cleared(t)]
           /\ written' = [written EXCEPT ![t] = @ \o SubSeq(rest[t], 1, n)]
           /\ rest' = [rest EXCEPT ![t] = SubSeq(@, n + 1, Len(@))]
    /\ UNCHANGED <<exports, down>>

\* overflow() of characters that no '\n' follows: they stay in the buffer.
WriteRest(t) ==
    /\ rest[t] # <<>> /\ Places(Newline, rest[t]) = {}
    /\ line' = [line EXCEPT ![t] = @ \o rest[t]]
    /\ written' = [written EXCEPT ![t] = @ \o rest[t]]
    /\ rest' = [rest EXCEPT ![t] = <<>>]
    /\ UNCHANGED <<lines, exports, down>>

\* Shutdown of the inner exporter, from any task; an unfinished line stays
\* where it is, and so it does at ForceFlush.
ShutDown(t) ==
    /\ down' = down \cup {t}
    /\ UNCHANGED <<lines, line, rest, written, exports>>

\* EspLogProfilesExporter::Export: true, whether or not it is filtered.
ExportProfile(body) ==
    /\ exports[ProfileTag] < MaxExports
    /\ exports' = [exports EXCEPT ![ProfileTag] = @ + 1]
    /\ PrintLine(ProfileTag, body)
    /\ UNCHANGED <<line, rest, written, down>>

-----------------------------------------------------------------------------
\* What t wrote from behind the last end of a line before position k.
LineBefore(t, k) ==
    LET start == Max({0} \cup {j \in Places(Newline, written[t]) : j < k})
    IN  SubSeq(written[t], start + 1, k - 1)

\* Every line on the console that bears an exporter's tag is, up to a NUL, what
\* that exporter wrote between two ends of lines, and what it wrote since the
\* last one is in its buffer: texts never mix, and one that does not end its
\* line goes on in the next export, whatever was filtered in between.
LinesAreWhole ==
    \A t \in Tags :
        /\ line[t] = LineBefore(t, Len(written[t]) + 1)
        /\ \A k \in 1 .. Len(lines[t]) : \E j \in Places(Newline, written[t]) :
               lines[t][k] = UpTo(Nul, LineBefore(t, j))
=============================================================================
