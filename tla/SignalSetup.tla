----------------------------- MODULE SignalSetup -----------------------------
(***************************************************************************)
(* The setup calls of the four signals: esp_opentelemetry_tracing_setup,   *)
(* ..._logs_setup, ..._metrics_setup and ..._profiling_setup, which any    *)
(* task may call, at any time and more than once.  Each builds what        *)
(* exports its signal, with a thread or task of its own, and installs it   *)
(* globally.                                                               *)
(*                                                                         *)
(* A call is known by its number, and so is what it installs.  It is given *)
(* an exporter, a processor, which stands for one that has no thread, such *)
(* as SimpleSpanProcessor, a null pointer for either, or neither: then the *)
(* configured URL decides.                                                 *)
(***************************************************************************)
EXTENDS Naturals, FiniteSets

CONSTANTS
    Tasks,
    Calls,          \* the <<signal, given>> calls that tasks make
    MaxCalls        \* bounds how many they make

Signals == {"tracing", "logs", "metrics", "profiling"}
\* The signals for which "subsequent calls are ignored".
Once == {"tracing", "logs", "profiling"}

ASSUME CallsAssumption ==
    /\ Calls \subseteq Signals \X {"exporter", "processor", "null", "url", "empty url"}
    /\ {"metrics", "profiling"} \X {"processor"} \cap Calls = {}
    /\ MaxCalls \in Nat

VARIABLES
    pc, signal, call,   \* where a task is, in which signal's setup and which call
    cfg,                \* the task's esp_pthread configuration
    initialised,        \* the signals whose g_initialised, or started, is set
    provider,           \* the global provider, or g_exporter; 0 for none
    propagator,         \* whether the global propagator is set
    threads,            \* the export threads and tasks there are
    calls               \* history: how many calls were made

vars == <<pc, signal, call, cfg, initialised, provider, propagator, threads, calls>>

Init ==
    /\ pc = [t \in Tasks |-> "idle"]
    /\ signal \in [Tasks -> {"tracing"}] /\ call = [t \in Tasks |-> 0]
    /\ cfg = [t \in Tasks |-> "default"]
    /\ initialised = {}
    /\ provider = [s \in Signals |-> 0] /\ propagator = FALSE
    /\ threads = {}
    /\ calls = 0

Goto(t, step) == pc' = [pc EXCEPT ![t] = step]

ThreadsOf(n) == {th \in threads : th.call = n}

\* What a call has to work with.  The overload that is given nothing makes an
\* exporter for the configured URL, unless that is empty.
Made(given) ==
    CASE given = "url"                    -> "exporter"
      [] given \in {"null", "empty url"} -> "nothing"
      [] OTHER                            -> given

\* A setup that is done with once it was called, whatever it was given.
CallGuarded(t, s, with) ==
    /\ pc[t] = "idle" /\ calls < MaxCalls
    /\ calls' = calls + 1
    /\ signal' = [signal EXCEPT ![t] = s] /\ call' = [call EXCEPT ![t] = calls + 1]
    /\ initialised' = IF with = "nothing" THEN initialised \cup {s} ELSE initialised
    /\ CASE with = "nothing"   -> UNCHANGED pc
         [] with = "processor" -> Goto(t, "exchange")
         [] with = "exporter"  -> Goto(t, IF s = "profiling" THEN "check" ELSE "configure")
    /\ UNCHANGED <<cfg, provider, propagator, threads>>

\* A call: with nothing to install it returns and leaves the signal free for
\* a later one.
Call(t, s, with) ==
    /\ pc[t] = "idle" /\ calls < MaxCalls
    /\ calls' = calls + 1
    /\ signal' = [signal EXCEPT ![t] = s] /\ call' = [call EXCEPT ![t] = calls + 1]
    /\ CASE with = "nothing"   -> UNCHANGED pc
         [] with = "processor" -> Goto(t, "exchange")
         [] with = "exporter"  -> Goto(t, IF s = "profiling" THEN "check" ELSE "configure")
    /\ UNCHANGED <<cfg, initialised, provider, propagator, threads>>

-----------------------------------------------------------------------------
(* The exporter overloads: a batch processor or a periodic reader *)

\* ScopedExportThreadConfig: the calling task's next thread gets a large
\* stack.
Configure(t) ==
    /\ pc[t] = "configure"
    /\ cfg' = [cfg EXCEPT ![t] = "large"]
    /\ Goto(t, "construct")
    /\ UNCHANGED <<signal, call, initialised, provider, propagator, threads, calls>>

\* The processor's constructor, or AddMetricReader, spawns its thread.
Construct(t) ==
    /\ pc[t] = "construct"
    /\ threads' = threads \cup {[call |-> call[t], signal |-> signal[t], stack |-> cfg[t]]}
    /\ Goto(t, "restore")
    /\ UNCHANGED <<signal, call, cfg, initialised, provider, propagator, calls>>

\* ~ScopedExportThreadConfig, and one that does nothing.  A metrics setup has no guard to pass.
AfterConstruct(t) == Goto(t, IF signal[t] = "metrics" THEN "install" ELSE "exchange")
RestoreNothing(t) ==
    /\ pc[t] = "restore"
    /\ AfterConstruct(t)
    /\ UNCHANGED <<signal, call, cfg, initialised, provider, propagator, threads, calls>>
Restore(t) ==
    /\ pc[t] = "restore"
    /\ cfg' = [cfg EXCEPT ![t] = "default"]
    /\ AfterConstruct(t)
    /\ UNCHANGED <<signal, call, initialised, provider, propagator, threads, calls>>

-----------------------------------------------------------------------------
(* The guards *)

\* An exchange that is not compared, and one whose loser forgets its thread.
ExchangeAlways(t) ==
    /\ pc[t] = "exchange"
    /\ initialised' = initialised \cup {signal[t]}
    /\ Goto(t, "install")
    /\ UNCHANGED <<signal, call, cfg, provider, propagator, threads, calls>>
ExchangeAndLeak(t) ==
    /\ pc[t] = "exchange"
    /\ initialised' = initialised \cup {signal[t]}
    /\ Goto(t, IF signal[t] \in initialised THEN "idle" ELSE "install")
    /\ UNCHANGED <<signal, call, cfg, provider, propagator, threads, calls>>

\* g_initialised.compare_exchange_strong: the first call goes on.  Another
\* one destroys the processor it was given or made, which shuts it down and
\* joins its thread.
Exchange(t) ==
    /\ pc[t] = "exchange"
    /\ IF signal[t] \in initialised
         THEN /\ threads' = threads \ ThreadsOf(call[t])
              /\ Goto(t, "idle")
              /\ UNCHANGED initialised
         ELSE /\ initialised' = initialised \cup {signal[t]}
              /\ Goto(t, "install")
              /\ UNCHANGED threads
    /\ UNCHANGED <<signal, call, cfg, provider, propagator, calls>>

\* Profiling reads `started', ...
Check(t) ==
    /\ pc[t] = "check"
    /\ Goto(t, IF "profiling" \in initialised THEN "idle" ELSE "start")
    /\ UNCHANGED <<signal, call, cfg, initialised, provider, propagator, threads, calls>>

\* ... and then writes it: the variable is not atomic.
Start(t) ==
    /\ pc[t] = "start"
    /\ initialised' = initialised \cup {"profiling"}
    /\ Goto(t, "install")
    /\ UNCHANGED <<signal, call, cfg, provider, propagator, threads, calls>>

-----------------------------------------------------------------------------
(* The installation *)

\* SetTracerProvider, SetLoggerProvider, SetMeterProvider and
\* set_profiles_exporter.  A provider that is replaced is destroyed, and
\* its thread joined; the task that uses a replaced exporter goes on.
Install(t) ==
    /\ pc[t] = "install"
    /\ provider' = [provider EXCEPT ![signal[t]] = call[t]]
    /\ threads' = IF signal[t] = "profiling" THEN threads
                    ELSE threads \ ThreadsOf(provider[signal[t]])
    /\ Goto(t, CASE signal[t] = "tracing"   -> "propagate"
                 [] signal[t] = "profiling" -> "spawn"
                 [] OTHER                   -> "idle")
    /\ UNCHANGED <<signal, call, cfg, initialised, propagator, calls>>

\* SetGlobalPropagator
Propagate(t) ==
    /\ pc[t] = "propagate"
    /\ propagator' = TRUE
    /\ Goto(t, "idle")
    /\ UNCHANGED <<signal, call, cfg, initialised, provider, threads, calls>>

\* The context storage that SpanSlot describes, the tables, the rings and the
\* timers (an allocation that fails aborts the program); then the export
\* task, with a stack of its own size.
Spawn(t) ==
    /\ pc[t] = "spawn"
    /\ threads' = threads \cup {[call |-> call[t], signal |-> "profiling", stack |-> "own"]}
    /\ Goto(t, "idle")
    /\ UNCHANGED <<signal, call, cfg, initialised, provider, propagator, calls>>

Setup(t) ==
    \/ Configure(t) \/ Construct(t) \/ Restore(t)
    \/ Exchange(t) \/ Check(t) \/ Start(t)
    \/ Install(t) \/ Propagate(t) \/ Spawn(t)

Next == \E t \in Tasks : (\E c \in Calls : Call(t, c[1], Made(c[2]))) \/ Setup(t)

\* A task in a setup call runs on.
Spec == Init /\ [][Next]_vars /\ \A t \in Tasks : WF_vars(Setup(t))

-----------------------------------------------------------------------------
TypeOK ==
    /\ pc \in [Tasks -> {"idle", "configure", "construct", "restore", "exchange", "check",
                         "start", "install", "propagate", "spawn"}]
    /\ signal \in [Tasks -> Signals] /\ call \in [Tasks -> 0 .. MaxCalls]
    /\ cfg \in [Tasks -> {"default", "large"}]
    /\ initialised \subseteq Once
    /\ provider \in [Signals -> 0 .. MaxCalls]
    /\ threads \subseteq [call : 1 .. MaxCalls, signal : Signals, stack : {"large", "own"}]

\* No task is between the guard of profiling and its installation.
ProfilingSettled ==
    /\ "profiling" \in initialised
    /\ \A t \in Tasks : signal[t] = "profiling" => pc[t] \notin {"start", "install"}

\* "Subsequent calls are ignored": what the first call installed stays, however
\* the calls of several tasks overlap.  The guard of profiling promises less:
\* calls that overlap at it may replace each other's exporter, but once they
\* are past it, no later call does.
FirstInstallationStays ==
    [][/\ \A s \in {"tracing", "logs"} : provider[s] # 0 => provider'[s] = provider[s]
       /\ ProfilingSettled =>
              ProfilingSettled' /\ provider'["profiling"] = provider["profiling"]]_vars

\* Once no setup of a signal is under way, the only threads that export it are
\* those of what is installed: a call that was ignored, and a provider that
\* was replaced, leave no thread behind.
NoThreadIsOrphaned ==
    /\ TypeOK
    /\ \A s \in {"tracing", "logs", "metrics"} :
        (\A t \in Tasks : pc[t] = "idle" \/ signal[t] # s) =>
            \A th \in threads : th.signal = s => th.call = provider[s]

\* The threads of the exporters have the large stack they need, and no other
\* thread that a task creates after its setup call gets one.
OnlyExportThreadsAreLarge ==
    /\ \A th \in threads : th.signal # "profiling" => th.stack = "large"
    /\ \A t \in Tasks : pc[t] = "idle" => cfg[t] = "default"

\* A tracing setup in progress ends with spans exported and propagated,
\* whichever of several calls does it and whatever calls with nothing to
\* install came before.
TracingIsSetUp ==
    \A t \in Tasks :
        pc[t] # "idle" /\ signal[t] = "tracing" ~> provider["tracing"] # 0 /\ propagator

=============================================================================
