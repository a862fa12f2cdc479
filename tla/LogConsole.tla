------------------------------ MODULE LogConsole ------------------------------
(***************************************************************************)
(* The log bridge and the exporters that print on the console, together:   *)
(* a message of the application is printed by the bridge, and the record   *)
(* it became is printed again by the log exporter, in another task.  That  *)
(* exporter logs with ESP-IDF's own ESP_LOGI and not with the one that     *)
(* goes through the bridge, or each record would cause the next.           *)
(***************************************************************************)
EXTENDS LogBridge

CONSTANTS
    Tags, LogTag, ProfileTag, Newline, Nul, MaxExports, \* as in EspLogExporters
    Chars,          \* the characters of what the SDK's exporters write
    TextOf(_)       \* what OStreamLogRecordExporter makes of a message's record

ASSUME TagsAssumption  == LogTag \in Tags /\ ProfileTag \notin Tags
ASSUME TextsAssumption == \A m \in 1 .. MaxMessages : TextOf(m) \in Seq(Chars)

VARIABLES lines, line, rest, written, exports, down

E == INSTANCE EspLogExporters

bridging == <<calls, t_emitting, provider, console, records, messages, outer, during>>
printing == <<lines, line, rest, written, exports, down>>
cvars    == <<bridging, printing>>

CInit == Init /\ E!EInit

\* The batch processor (external) hands the records to the log exporter, in
\* order and one at a time.
ExportRecord ==
    /\ exports[LogTag] < Len(records)
    /\ E!Export(LogTag, TextOf(records[exports[LogTag] + 1].message))

\* The exporters include esp_log.h alone; the variant takes esp_log_otel.h.
EmitLine ==
    /\ records' = IF lines' = lines THEN records
                  ELSE Append(records, [message |-> 0, provider |-> provider])
    /\ UNCHANGED <<calls, t_emitting, provider, console, messages, outer, during>>
OwnMacro == UNCHANGED bridging

Exporters ==
    \/ ExportRecord
    \/ \E t \in Tags : E!WriteLine(t) \/ E!WriteRest(t) \/ E!ShutDown(t)
    \/ E!ExportProfile(<<ProfileTag>>)

CNext ==
    \/ Next /\ UNCHANGED printing
    \/ Exporters /\ OwnMacro

CSpec == CInit /\ [][CNext]_cvars

-----------------------------------------------------------------------------
LinesAreWhole == E!LinesAreWhole

\* What is printed does not come back: each record is of a message some task
\* logged, no message has two records although the log exporter prints every
\* one on the same console, and that exporter never prints more messages than
\* there are records.
NothingEchoes ==
    /\ \A k \in 1 .. Len(records) : records[k].message \in outer
    /\ \A j, k \in 1 .. Len(records) : records[j].message = records[k].message => j = k
    /\ exports[LogTag] <= Len(records)
=============================================================================
