---------------------------- MODULE MCSignalSetup ----------------------------
(* Small instances of SignalSetup for TLC. *)
EXTENDS SignalSetup, TLC

CONSTANTS t1, t2, t3

MCCalls ==
    {"tracing", "metrics", "profiling"} \X {"exporter"}
    \cup {"tracing", "logs"} \X {"processor"}
    \cup {<<"logs", "url">>, <<"tracing", "null">>, <<"metrics", "empty url">>}

=============================================================================
