------------------------------ MODULE LogBridge ------------------------------
(***************************************************************************)
(* esp_opentelemetry_log_and_emit() of src/integration/esp_logs.cpp: every *)
(* ESP_LOGx of a task goes to the console and, as a record, to the logger  *)
(* of the provider that is installed.  Emitting the record can log again,  *)
(* on the same task and before it returns: the calls of a task form a      *)
(* stack, and a flag of the task keeps a record from causing another.      *)
(*                                                                         *)
(* A message is the number of its call.  Its body, tag and source location *)
(* are left out; of its level only whether it has a severity is kept.      *)
(***************************************************************************)
EXTENDS Naturals, Sequences, FiniteSets

CONSTANTS
    Tasks,
    Providers,      \* the providers an application installs
    NoProvider,     \* the API's own, which discards records
    MaxMessages,    \* bounds the calls
    MaxNesting      \* bounds the calls in progress on one task

ASSUME ProvidersAssumption == NoProvider \notin Providers
ASSUME BoundsAssumption    == MaxMessages \in Nat /\ MaxNesting \in Nat

VARIABLES
    calls,      \* each task's calls in progress: [message, level, logger, step]
    t_emitting, \* the task's flag
    provider,   \* the global logger provider
    console,    \* the messages on the console, in order
    records,    \* history: each EmitLogRecord that returned, in order
    messages,   \* history: how many calls were made
    outer,      \* history: the messages that were logged outside an emission
    during      \* history: the providers there were during the task's outermost call

vars == <<calls, t_emitting, provider, console, records, messages, outer, during>>

Init ==
    /\ calls = [t \in Tasks |-> <<>>]
    /\ t_emitting = [t \in Tasks |-> FALSE]
    /\ provider = NoProvider
    /\ console = <<>> /\ records = <<>>
    /\ messages = 0
    /\ outer = {}
    /\ during = [t \in Tasks |-> {}]

Depth(t)    == Len(calls[t])
Top(t)      == calls[t][Depth(t)]
Goto(t, step) == calls' = [calls EXCEPT ![t][Depth(t)].step = step]
Return(t)   == calls' = [calls EXCEPT ![t] = SubSeq(@, 1, Depth(t) - 1)]
At(t, step) == Depth(t) > 0 /\ Top(t).step = step

\* An ESP_LOGx: of the task's own code, or of what runs inside EmitLogRecord.
Log(t, level) ==
    /\ Depth(t) = 0 \/ At(t, "emitting")
    /\ Depth(t) < MaxNesting
    /\ messages < MaxMessages
    /\ messages' = messages + 1
    /\ IF Depth(t) = 0
         THEN /\ outer' = outer \cup {messages + 1}
              /\ during' = [during EXCEPT ![t] = {provider}]
         ELSE UNCHANGED <<outer, during>>
    /\ calls' = [calls EXCEPT ![t] = Append(@, [message |-> messages + 1, level |-> level,
                                                logger |-> NoProvider, step |-> "format"])]
    /\ UNCHANGED <<t_emitting, provider, console, records>>

\* vsnprintf: a message that cannot be formatted is not logged at all.
Format(t) ==
    /\ At(t, "format")
    /\ Goto(t, "console") \/ Return(t)
    /\ UNCHANGED <<t_emitting, provider, console, records, messages, outer, during>>

\* SeverityFromEspLogLevel() and write_console() know the same levels.
HasSeverity(level) == level # "none"

\* write_console(), whose line esp_log may still filter: ESP_LOG_NONE has no
\* macro.
WriteConsole(t) ==
    /\ At(t, "console")
    /\ console' = IF HasSeverity(Top(t).level) THEN Append(console, Top(t).message) ELSE console
    /\ Goto(t, "check")
    /\ UNCHANGED <<t_emitting, provider, records, messages, outer, during>>

\* The flag that keeps a record from being emitted; the variant ignores it.
NotSilenced(t) == FALSE
Silenced(t)    == t_emitting[t]

\* A call inside a record's emission ends here, and so does one of no
\* severity; else ReentryGuard sets the flag.
Check(t) ==
    /\ At(t, "check")
    /\ IF Silenced(t) \/ ~HasSeverity(Top(t).level)
         THEN Return(t) /\ UNCHANGED t_emitting
         ELSE Goto(t, "logger") /\ t_emitting' = [t_emitting EXCEPT ![t] = TRUE]
    /\ UNCHANGED <<provider, console, records, messages, outer, during>>

\* esp_opentelemetry_logger(): the provider of this moment.
GetLogger(t) ==
    /\ At(t, "logger")
    /\ calls' = [calls EXCEPT ![t][Depth(t)] =
                    [@ EXCEPT !.logger = provider, !.step = "emitting"]]
    /\ UNCHANGED <<t_emitting, provider, console, records, messages, outer, during>>

\* ~ReentryGuard: it clears the flag; the variant forgets to.
ClearNothing(t) == t_emitting[t]
Cleared(t) == FALSE

\* EmitLogRecord returns.
Emit(t) ==
    /\ At(t, "emitting")
    /\ records' = Append(records, [message |-> Top(t).message, provider |-> Top(t).logger])
    /\ t_emitting' = [t_emitting EXCEPT ![t] = Cleared(t)]
    /\ Return(t)
    /\ UNCHANGED <<provider, console, messages, outer, during>>

\* esp_opentelemetry_logs_setup, or an application that swaps the provider.
SetLoggerProvider(p) ==
    /\ provider # p
    /\ provider' = p
    /\ during' = [t \in Tasks |-> during[t] \cup {p}]
    /\ UNCHANGED <<calls, t_emitting, console, records, messages, outer>>

Step(t) == Format(t) \/ WriteConsole(t) \/ Check(t) \/ GetLogger(t) \/ Emit(t)

Next ==
    \/ \E t \in Tasks : (\E level \in {"error", "none"} : Log(t, level)) \/ Step(t)
    \/ \E p \in Providers : SetLoggerProvider(p)

Spec == Init /\ [][Next]_vars

-----------------------------------------------------------------------------
OnConsole == {console[k] : k \in 1 .. Len(console)}
Emissions(t) == {k \in 1 .. Depth(t) : calls[t][k].step \in {"logger", "emitting"}}
InProgress == UNION {{calls[t][k].message : k \in 1 .. Depth(t)} : t \in Tasks}

TypeOK ==
    /\ \A t \in Tasks : \A k \in 1 .. Depth(t) :
           /\ calls[t][k].message \in 1 .. messages
           /\ calls[t][k].step \in {"format", "console", "check", "logger", "emitting"}
           /\ k < Depth(t) => calls[t][k].step = "emitting"
    /\ t_emitting \in [Tasks -> BOOLEAN]
    /\ provider \in Providers \cup {NoProvider}

\* A record never causes another on its task: of the calls in progress only the
\* outermost emits, so what is logged during an emission cannot recurse
\* further than the console.
OnlyOutermostEmits ==
    /\ TypeOK
    /\ \A t \in Tasks : Emissions(t) \subseteq {1} /\ Depth(t) <= 2

\* Once a call outside an emission has returned, its message, if it reached
\* the console, was emitted, and once: the flag is never left behind by an
\* earlier call or a nested one.  "Whichever provider is installed at this
\* moment wins": the record goes to one that was installed during its call.
OuterMessagesAreEmitted ==
    /\ \A m \in (OnConsole \cap outer) \ InProgress :
           Cardinality({k \in 1 .. Len(records) : records[k].message = m}) = 1
    /\ \A t \in Tasks : At(t, "emitting") => Top(t).logger \in during[t]
=============================================================================
