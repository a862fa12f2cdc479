---------------------------- MODULE LogConsole_proofs ----------------------------
(***************************************************************************)
(* Of LogConsole, for any number of tasks, providers and messages and any  *)
(* nesting: a record causes no other, neither on the task that emits it    *)
(* nor through the exporter that prints it, and no message of a task is    *)
(* lost or emitted twice.  Of a task's stack the first call matters: it    *)
(* alone is outside an emission, so it alone has a record.                 *)
(*                                                                         *)
(* Of the exporters' streambufs: whatever the pieces an exporter's text    *)
(* comes in, the console shows its lines.  The buffer is what was written  *)
(* since the last end of a line, and the characters before it never change.*)
(***************************************************************************)
EXTENDS LogConsole, FiniteSetTheorems, SequenceTheorems, WellFoundedInduction, TLAPS

Loggers   == Providers \cup {NoProvider}
Levels    == {"error", "none"}
CallSteps == {"format", "console", "check", "logger", "emitting"}
Invocations == [message : Nat, level : Levels, logger : Loggers, step : CallSteps]
Records   == [message : Nat, provider : Loggers]

Types ==
    /\ calls \in [Tasks -> Seq(Invocations)]
    /\ t_emitting \in [Tasks -> BOOLEAN]
    /\ provider \in Loggers
    /\ console \in Seq(Nat)
    /\ records \in Seq(Records)
    /\ messages \in Nat
    /\ outer \in SUBSET (1 .. messages)
    /\ during \in [Tasks -> SUBSET Loggers]
    /\ exports \in [Tags \cup {ProfileTag} -> Nat]

Busy(t)  == Depth(t) > 0
First(t) == calls[t][1]

\* While the first call emits its record, and then only, there can be a second
\* one, which returns at the flag.
Stack(t) ==
    /\ Depth(t) <= 2
    /\ Depth(t) = 2 => /\ First(t).step = "emitting"
                       /\ calls[t][2].step \in {"format", "console", "check"}
    /\ t_emitting[t] <=> Busy(t) /\ First(t).step \in {"logger", "emitting"}

Logger(t) ==
    Busy(t) => /\ provider \in during[t]
               /\ First(t).step = "emitting" => First(t).logger \in during[t]

\* The first call's message is the task's own and the second's is not; one that
\* is not written yet, or never is, is not on the console.
Messages(t) ==
    /\ \A k \in 1 .. Depth(t) :
           /\ calls[t][k].message \in 1 .. messages
           /\ calls[t][k].message \in outer <=> k = 1
    /\ Busy(t) /\ (First(t).step \in {"format", "console"} \/ ~HasSeverity(First(t).level)) =>
           First(t).message \notin OnConsole

Distinct == \A t, u \in Tasks :
    Busy(t) /\ Busy(u) /\ First(t).message = First(u).message => t = u

Written == \A k \in 1 .. Len(console) : console[k] \in 1 .. messages

\* A record is of a call that has returned.
Recorded(m) == \E k \in 1 .. Len(records) : records[k].message = m
OneRecord ==
    /\ \A k \in 1 .. Len(records) : records[k].message \in outer
    /\ \A j, k \in 1 .. Len(records) : records[j].message = records[k].message => j = k
    /\ \A t \in Tasks : Busy(t) => ~Recorded(First(t).message)

\* What reached the console from outside an emission is emitted, or will be.
Emitted == \A m \in OnConsole \cap outer :
    Recorded(m) \/ \E t \in Tasks : Busy(t) /\ First(t).message = m

IInv ==
    /\ Types
    /\ \A t \in Tasks : Stack(t) /\ Logger(t) /\ Messages(t)
    /\ Distinct /\ Written /\ OneRecord /\ Emitted
    /\ exports[LogTag] <= Len(records)

LEMMA InitIInv == CInit => IInv
<1> SUFFICES ASSUME CInit PROVE IInv
  OBVIOUS
<1>1. Init /\ exports = [t \in Tags \cup {ProfileTag} |-> 0]
  BY DEF CInit, E!EInit, E!Printers
<1>2. Types /\ exports[LogTag] = 0
  BY <1>1, TagsAssumption DEF Init, Types, Loggers
<1>3. \A t \in Tasks : Stack(t) /\ Logger(t) /\ Messages(t)
  BY <1>1 DEF Init, Stack, Logger, Messages, Busy, Depth
<1>4. Distinct /\ Written /\ OneRecord /\ Emitted
  BY <1>1 DEF Init, Distinct, Written, OneRecord, Emitted, Recorded, OnConsole, Busy, Depth
<1> QED BY <1>1, <1>2, <1>3, <1>4 DEF IInv, Init

-----------------------------------------------------------------------------
(* What a step leaves alone *)

\* The other tasks, at a step of t that does not change the provider.
OthersStay(t) == \A u \in Tasks \ {t} :
    calls'[u] = calls[u] /\ t_emitting'[u] = t_emitting[u] /\ during'[u] = during[u]

LEMMA OthersKeep ==
    ASSUME IInv, NEW t \in Tasks, OthersStay(t), provider' = provider,
           messages' \in Nat, messages <= messages',
           \A m \in 1 .. messages : m \in outer' <=> m \in outer,
           \A u \in Tasks \ {t} : Busy(u) /\ First(u).message \notin OnConsole =>
               First(u).message \notin OnConsole'
    PROVE  \A u \in Tasks \ {t} : Stack(u)' /\ Logger(u)' /\ Messages(u)'
<1> SUFFICES ASSUME NEW u \in Tasks, u # t PROVE Stack(u)' /\ Logger(u)' /\ Messages(u)'
  OBVIOUS
<1>1. /\ calls'[u] = calls[u] /\ t_emitting'[u] = t_emitting[u] /\ during'[u] = during[u]
      /\ Stack(u) /\ Logger(u) /\ Messages(u)
      /\ messages \in Nat
  BY DEF OthersStay, IInv, Types
<1>2. Stack(u)'
  BY <1>1 DEF Stack, Busy, First, Depth
<1>3. Logger(u)'
  BY <1>1 DEF Logger, Busy, First, Depth
<1>4. Messages(u)'
  <2>1. \A k \in 1 .. Depth(u) : /\ calls'[u][k].message \in 1 .. messages'
                                 /\ calls'[u][k].message \in outer' <=> k = 1
    BY <1>1 DEF Messages
  <2>2. Busy(u)' /\ (First(u).step' \in {"format", "console"} \/ ~HasSeverity(First(u).level')) =>
            First(u).message' \notin OnConsole'
    BY <1>1 DEF Messages, Busy, First, Depth
  <2> QED BY <1>1, <2>1, <2>2 DEF Messages, Depth, Busy, First
<1> QED BY <1>2, <1>3, <1>4

\* A call goes on to a step: its stack stays as it is but for that.
LEMMA GotoFacts ==
    ASSUME Types, NEW t \in Tasks, Busy(t), NEW step \in CallSteps, Goto(t, step)
    PROVE  /\ calls' \in [Tasks -> Seq(Invocations)]
           /\ \A u \in Tasks \ {t} : calls'[u] = calls[u]
           /\ Len(calls'[t]) = Depth(t)
           /\ \A k \in 1 .. Depth(t) :
                  /\ k # Depth(t) => calls'[t][k] = calls[t][k]
                  /\ calls'[t][k].message = calls[t][k].message
                  /\ calls'[t][k].level = calls[t][k].level
                  /\ calls'[t][k].logger = calls[t][k].logger
           /\ calls'[t][Depth(t)].step = step
<1> DEFINE top == [Top(t) EXCEPT !.step = step]
           new == [calls[t] EXCEPT ![Depth(t)] = top]
<1>1. calls[t] \in Seq(Invocations) /\ Depth(t) \in 1 .. Len(calls[t])
  BY DEF Types, Depth, Busy
<1>2. Top(t) \in Invocations
  BY <1>1 DEF Top
<1>3. /\ top \in Invocations /\ top.step = step /\ top.message = Top(t).message
      /\ top.level = Top(t).level /\ top.logger = Top(t).logger
  BY <1>2 DEF Invocations
<1>4. calls' = [calls EXCEPT ![t] = new]
  BY DEF Goto, Top
<1> HIDE DEF top
<1>5. /\ new \in Seq(Invocations) /\ Len(new) = Len(calls[t]) /\ new[Depth(t)] = top
      /\ \A k \in 1 .. Depth(t) : k # Depth(t) => new[k] = calls[t][k]
  BY <1>1, <1>3
<1> HIDE DEF new
<1>6. calls' \in [Tasks -> Seq(Invocations)] /\ calls'[t] = new
      /\ \A u \in Tasks \ {t} : calls'[u] = calls[u]
  BY <1>4, <1>5 DEF Types
<1> QED BY <1>3, <1>5, <1>6 DEF Top, Depth

LEMMA ReturnFacts ==
    ASSUME Types, NEW t \in Tasks, Busy(t), Return(t)
    PROVE  /\ calls' \in [Tasks -> Seq(Invocations)]
           /\ \A u \in Tasks \ {t} : calls'[u] = calls[u]
           /\ Len(calls'[t]) = Depth(t) - 1
           /\ \A k \in 1 .. Depth(t) - 1 : calls'[t][k] = calls[t][k]
<1> DEFINE new == SubSeq(calls[t], 1, Depth(t) - 1)
<1>1. calls[t] \in Seq(Invocations) /\ Depth(t) \in 1 .. Len(calls[t])
  BY DEF Types, Depth, Busy
<1>2. /\ new \in Seq(Invocations) /\ Len(new) = Depth(t) - 1
      /\ \A k \in 1 .. Depth(t) - 1 : new[k] = calls[t][k]
  BY <1>1 DEF Depth
<1>3. calls' = [calls EXCEPT ![t] = new]
  BY DEF Return
<1> HIDE DEF new
<1> QED BY <1>2, <1>3 DEF Types

\* A step after which each task is in the same first call, or t's has returned
\* without ever being on the console.
LEMMA StepKeeps ==
    ASSUME IInv, NEW t \in Tasks, OthersStay(t), Types',
           UNCHANGED <<provider, messages, outer, during, records, console, exports>>,
           Stack(t)', Logger(t)', Messages(t)',
           Busy(t)' => Busy(t) /\ First(t).message' = First(t).message,
           Busy(t) /\ ~Busy(t)' => First(t).message \notin OnConsole
    PROVE  IInv'
<1>1. \A u \in Tasks \ {t} : calls'[u] = calls[u]
  BY DEF OthersStay
<1>2. \A u \in Tasks \ {t} : (Busy(u) <=> Busy(u)') /\ First(u)' = First(u)
  BY <1>1 DEF Busy, First, Depth
<1>3. OnConsole' = OnConsole /\ \A m : Recorded(m)' <=> Recorded(m)
  BY DEF OnConsole, Recorded
<1>4. \A u \in Tasks \ {t} : Stack(u)' /\ Logger(u)' /\ Messages(u)'
  BY <1>3, OthersKeep DEF IInv, Types
<1>5. Distinct'
  <2> SUFFICES ASSUME NEW u \in Tasks, NEW v \in Tasks, Busy(u)', Busy(v)',
                      First(u).message' = First(v).message'
               PROVE  u = v
    BY DEF Distinct
  <2>1. Busy(u) /\ First(u).message' = First(u).message
    BY <1>2
  <2>2. Busy(v) /\ First(v).message' = First(v).message
    BY <1>2
  <2> QED BY <2>1, <2>2 DEF IInv, Distinct
<1>6. Written'
  <2>1. console' = console /\ messages' = messages /\ Written
    BY DEF IInv
  <2> QED BY <2>1 DEF Written
<1>7. OneRecord'
  <2>1. ASSUME NEW u \in Tasks, Busy(u)' PROVE ~Recorded(First(u).message')
    <3>1. Busy(u) /\ First(u).message' = First(u).message
      BY <1>2, <2>1
    <3> QED BY <1>3, <3>1 DEF IInv, OneRecord
  <2>2. \A u \in Tasks : Busy(u)' => ~Recorded(First(u).message)'
    <3>1. ASSUME NEW u \in Tasks, Busy(u)' PROVE ~Recorded(First(u).message)'
      BY <2>1, <3>1 DEF Recorded
    <3> QED BY <3>1
  <2> QED BY <2>2 DEF IInv, OneRecord, Recorded
<1>8. Emitted'
  <2> SUFFICES ASSUME NEW m \in OnConsole \cap outer
               PROVE  Recorded(m) \/ \E u \in Tasks : Busy(u)' /\ First(u).message' = m
    BY <1>3 DEF Emitted
  <2>1. CASE Recorded(m)
    BY <2>1
  <2>2. CASE \E u \in Tasks : Busy(u) /\ First(u).message = m
    <3>1. PICK u \in Tasks : Busy(u) /\ First(u).message = m
      BY <2>2
    <3>2. Busy(u)' /\ First(u).message' = m
      BY <3>1, <1>2
    <3> QED BY <3>2
  <2> QED BY <2>1, <2>2 DEF IInv, Emitted
<1> QED BY <1>4, <1>5, <1>6, <1>7, <1>8 DEF IInv

\* A call that returns leaves what the invariant says of the one below it.
LEMMA ReturnKeeps ==
    ASSUME IInv, NEW t \in Tasks, Busy(t), Top(t).step \in {"format", "check"}, Return(t),
           UNCHANGED <<t_emitting, provider, console, records, messages, outer, during, exports>>,
           Depth(t) = 1 => First(t).message \notin OnConsole
    PROVE  IInv'
<1>1. /\ Types /\ Stack(t) /\ Logger(t) /\ Messages(t) /\ Depth(t) \in Nat
  BY DEF IInv, Types, Depth
<1>2. /\ calls' \in [Tasks -> Seq(Invocations)]
      /\ \A u \in Tasks \ {t} : calls'[u] = calls[u]
      /\ Depth(t)' = Depth(t) - 1
      /\ \A k \in 1 .. Depth(t) - 1 : calls'[t][k] = calls[t][k]
  BY <1>1, ReturnFacts DEF Depth
<1>3. Types' /\ OthersStay(t)
  BY <1>1, <1>2 DEF Types, OthersStay
<1>4. Depth(t) = 1 \/ Depth(t) = 2
  BY <1>1 DEF Stack, Busy
<1>5. CASE Depth(t) = 1
  <2>1. Depth(t)' = 0 /\ ~Busy(t)' /\ First(t).step \in {"format", "check"}
    BY <1>2, <1>5 DEF Busy, First, Top
  <2>2. Stack(t)'
    BY <1>1, <2>1 DEF Stack
  <2>3. Logger(t)' /\ Messages(t)'
    BY <2>1 DEF Logger, Messages
  <2> QED BY <1>3, <1>5, <2>1, <2>2, <2>3, StepKeeps
<1>6. CASE Depth(t) = 2
  <2>1. Depth(t)' = 1 /\ Busy(t)' /\ First(t)' = First(t) /\ calls'[t][1] = First(t)
    BY <1>2, <1>6 DEF Busy, First
  <2>2. Stack(t)'
    BY <1>1, <1>6, <2>1 DEF Stack
  <2>3. Logger(t)'
    BY <1>1, <2>1 DEF Logger
  <2>4. Messages(t)'
    <3>1. OnConsole' = OnConsole
      BY DEF OnConsole
    <3>2. First(t).message \in 1 .. messages /\ First(t).message \in outer
      BY <1>1, <1>6 DEF Messages, First
    <3>3. First(t).step \in {"format", "console"} \/ ~HasSeverity(First(t).level) =>
              First(t).message \notin OnConsole
      BY <1>1 DEF Messages
    <3> QED BY <2>1, <3>1, <3>2, <3>3 DEF Messages
  <2> QED BY <1>3, <2>1, <2>2, <2>3, <2>4, StepKeeps
<1> QED BY <1>4, <1>5, <1>6

-----------------------------------------------------------------------------
(* The steps of a call *)

LEMMA FormatIInv == ASSUME IInv, NEW t \in Tasks, Format(t), UNCHANGED exports PROVE IInv'
<1>1. /\ Types /\ Stack(t) /\ Logger(t) /\ Messages(t) /\ Busy(t) /\ Top(t).step = "format"
      /\ UNCHANGED <<t_emitting, provider, console, records, messages, outer, during>>
      /\ Depth(t) \in Nat
  BY DEF IInv, Format, At, Busy, Types, Depth
<1>2. CASE Goto(t, "console")
  <2>1. /\ calls' \in [Tasks -> Seq(Invocations)]
        /\ \A u \in Tasks \ {t} : calls'[u] = calls[u]
        /\ Len(calls'[t]) = Depth(t)
        /\ \A k \in 1 .. Depth(t) :
               /\ k # Depth(t) => calls'[t][k] = calls[t][k]
               /\ calls'[t][k].message = calls[t][k].message
               /\ calls'[t][k].level = calls[t][k].level
               /\ calls'[t][k].logger = calls[t][k].logger
        /\ calls'[t][Depth(t)].step = "console"
    BY <1>1, <1>2, GotoFacts DEF CallSteps
  <2>2. Types' /\ OthersStay(t)
    BY <1>1, <2>1 DEF Types, OthersStay
  <2>3. OnConsole' = OnConsole
    BY <1>1 DEF OnConsole
  <2>4. Stack(t)' /\ Logger(t)' /\ Messages(t)'
    BY <1>1, <2>1, <2>3 DEF Stack, Logger, Messages, Busy, First, Depth, Top, HasSeverity
  <2>5. Busy(t)' /\ First(t).message' = First(t).message
    BY <1>1, <2>1 DEF Busy, First, Depth
  <2> QED BY <1>1, <2>2, <2>4, <2>5, StepKeeps
<1>3. CASE Return(t)
  <2>1. Depth(t) = 1 => First(t).message \notin OnConsole
    BY <1>1 DEF First, Top, Messages
  <2> QED BY <1>1, <1>3, <2>1, ReturnKeeps
<1> QED BY <1>2, <1>3 DEF Format

LEMMA CheckIInv == ASSUME IInv, NEW t \in Tasks, Check(t), UNCHANGED exports PROVE IInv'
<1>1. /\ Types /\ Stack(t) /\ Logger(t) /\ Messages(t) /\ Busy(t) /\ Top(t).step = "check"
      /\ UNCHANGED <<provider, console, records, messages, outer, during>>
      /\ Depth(t) \in Nat
  BY DEF IInv, Check, At, Busy, Types, Depth
<1>2. CASE Silenced(t) \/ ~HasSeverity(Top(t).level)
  <2>1. Return(t) /\ UNCHANGED t_emitting
    BY <1>2 DEF Check
  <2>2. ASSUME Depth(t) = 1 PROVE First(t).message \notin OnConsole
    <3>1. First(t) = Top(t) /\ ~t_emitting[t]
      BY <1>1, <2>2 DEF First, Top, Stack
    <3> QED BY <1>1, <1>2, <3>1 DEF Messages, Silenced
  <2> QED BY <1>1, <2>1, <2>2, ReturnKeeps
<1>3. CASE ~(Silenced(t) \/ ~HasSeverity(Top(t).level))
  <2>0. Goto(t, "logger") /\ t_emitting' = [t_emitting EXCEPT ![t] = TRUE]
    BY <1>3 DEF Check
  <2>1. /\ calls' \in [Tasks -> Seq(Invocations)]
        /\ \A u \in Tasks \ {t} : calls'[u] = calls[u]
        /\ Len(calls'[t]) = Depth(t)
        /\ \A k \in 1 .. Depth(t) :
               /\ k # Depth(t) => calls'[t][k] = calls[t][k]
               /\ calls'[t][k].message = calls[t][k].message
               /\ calls'[t][k].level = calls[t][k].level
               /\ calls'[t][k].logger = calls[t][k].logger
        /\ calls'[t][Depth(t)].step = "logger"
    BY <1>1, <2>0, GotoFacts DEF CallSteps
  <2>2. Types' /\ OthersStay(t)
    BY <1>1, <2>0, <2>1 DEF Types, OthersStay
  <2>3. OnConsole' = OnConsole
    BY <1>1 DEF OnConsole
  <2>4. Depth(t) = 1 /\ t_emitting'[t]
    <3>1. Depth(t) = 1
      BY <1>1, <1>3 DEF Stack, Silenced, Busy
    <3> QED BY <1>1, <2>0, <3>1 DEF Types
  <2>5. Stack(t)' /\ Logger(t)' /\ Messages(t)'
    BY <1>1, <1>3, <2>1, <2>3, <2>4
       DEF Stack, Logger, Messages, Busy, First, Depth, Top, HasSeverity
  <2>6. Busy(t)' /\ First(t).message' = First(t).message
    BY <1>1, <2>1 DEF Busy, First, Depth
  <2> QED BY <1>1, <2>2, <2>5, <2>6, StepKeeps
<1> QED BY <1>2, <1>3

\* esp_opentelemetry_logger() answers with the provider of the moment.
LEMMA GetLoggerIInv == ASSUME IInv, NEW t \in Tasks, GetLogger(t), UNCHANGED exports PROVE IInv'
<1> DEFINE top == [Top(t) EXCEPT !.logger = provider, !.step = "emitting"]
           new == [calls[t] EXCEPT ![Depth(t)] = top]
<1>1. /\ Types /\ Stack(t) /\ Logger(t) /\ Messages(t) /\ Busy(t) /\ Top(t).step = "logger"
      /\ UNCHANGED <<t_emitting, provider, console, records, messages, outer, during>>
      /\ calls' = [calls EXCEPT ![t] = new]
      /\ calls[t] \in Seq(Invocations) /\ Depth(t) \in Nat /\ Depth(t) > 0
  BY DEF IInv, GetLogger, At, Busy, Types, Depth, Top
<1>2. Depth(t) = 1
  <2>1. Stack(t) /\ Depth(t) \in Nat /\ Depth(t) > 0 /\ calls[t][Depth(t)].step = "logger"
    BY <1>1 DEF Top
  <2>2. Depth(t) # 2
    BY <2>1 DEF Stack
  <2>3. Depth(t) <= 2
    BY <2>1 DEF Stack
  <2> QED BY <2>1, <2>2, <2>3
<1>3. Top(t) \in Invocations /\ Top(t) = First(t)
  BY <1>1, <1>2 DEF Top, First, Depth
<1>4. /\ top \in Invocations /\ top.step = "emitting" /\ top.logger = provider
      /\ top.message = First(t).message /\ top.level = First(t).level
  BY <1>1, <1>3 DEF Invocations, Types, CallSteps
<1> HIDE DEF top
<1>5. new \in Seq(Invocations) /\ Len(new) = 1 /\ new[1] = top
  BY <1>1, <1>2, <1>4 DEF Depth
<1> HIDE DEF new
<1>6. Types' /\ OthersStay(t)
  BY <1>1, <1>5 DEF Types, OthersStay
<1>7. Depth(t)' = 1 /\ First(t)' = top /\ OnConsole' = OnConsole
  BY <1>1, <1>5 DEF Types, Depth, First, OnConsole
<1>8. calls'[t][1] = top
  BY <1>7 DEF First
<1>9. Stack(t)'
  BY <1>1, <1>2, <1>4, <1>7 DEF Stack, Busy, Top, First
<1>10. Logger(t)'
  BY <1>1, <1>4, <1>7 DEF Logger
<1>11. Messages(t)'
  BY <1>1, <1>2, <1>3, <1>4, <1>7, <1>8 DEF Messages, Busy, First, HasSeverity
<1>12. Busy(t)' /\ First(t).message' = First(t).message
  BY <1>4, <1>7 DEF Busy
<1> QED BY <1>1, <1>6, <1>9, <1>10, <1>11, <1>12, StepKeeps

\* The message appears on the console: the task's own is yet to be emitted.
LEMMA WriteConsoleIInv ==
    ASSUME IInv, NEW t \in Tasks, WriteConsole(t), UNCHANGED exports
    PROVE  IInv'
<1> DEFINE m == Top(t).message
<1>0. /\ Types /\ Stack(t) /\ Logger(t) /\ Messages(t) /\ Busy(t) /\ Depth(t) \in Nat
      /\ Top(t).step = "console" /\ console \in Seq(Nat) /\ messages \in Nat
      /\ UNCHANGED <<t_emitting, provider, records, messages, outer, during>>
  BY DEF IInv, WriteConsole, At, Busy, Types, Depth
<1>1. /\ Types /\ Stack(t) /\ Logger(t) /\ Messages(t) /\ Busy(t) /\ Top(t).step = "console"
      /\ UNCHANGED <<t_emitting, provider, records, messages, outer, during>>
      /\ console' = IF HasSeverity(Top(t).level) THEN Append(console, m) ELSE console
      /\ Goto(t, "check") /\ Depth(t) \in Nat /\ m \in 1 .. messages
      /\ console \in Seq(Nat) /\ messages \in Nat
  <2>1. m \in 1 .. messages
    BY <1>0 DEF Messages, Top, Busy
  <2>2. /\ console' = IF HasSeverity(Top(t).level) THEN Append(console, m) ELSE console
        /\ Goto(t, "check")
    BY DEF WriteConsole
  <2> QED BY <1>0, <2>1, <2>2
<1>2. /\ calls' \in [Tasks -> Seq(Invocations)]
      /\ \A u \in Tasks \ {t} : calls'[u] = calls[u]
      /\ Len(calls'[t]) = Depth(t)
      /\ \A k \in 1 .. Depth(t) :
             /\ k # Depth(t) => calls'[t][k] = calls[t][k]
             /\ calls'[t][k].message = calls[t][k].message
             /\ calls'[t][k].level = calls[t][k].level
             /\ calls'[t][k].logger = calls[t][k].logger
      /\ calls'[t][Depth(t)].step = "check"
  BY <1>1, GotoFacts DEF CallSteps
<1> HIDE DEF m
<1>3. console' \in Seq(Nat) /\ Written'
  BY <1>1 DEF IInv, Written
<1>4. /\ \A x \in OnConsole' : x \in OnConsole \/ x = m
      /\ OnConsole \subseteq OnConsole'
      /\ ~HasSeverity(Top(t).level) => OnConsole' = OnConsole
  BY <1>1 DEF OnConsole
<1>5. Types' /\ OthersStay(t)
  BY <1>1, <1>2, <1>3 DEF Types, OthersStay
<1>6. \A u \in Tasks : (Busy(u)' <=> Busy(u)) /\ (Busy(u) => First(u).message' = First(u).message)
  <2>1. (Busy(t)' <=> Busy(t)) /\ (Busy(t) => First(t).message' = First(t).message)
    BY <1>1, <1>2 DEF Busy, First, Depth
  <2>2. \A u \in Tasks \ {t} : (Busy(u)' <=> Busy(u)) /\ First(u)' = First(u)
    BY <1>2 DEF Busy, First, Depth
  <2> QED BY <2>1, <2>2
<1>7. ASSUME NEW u \in Tasks \ {t}, Busy(u) PROVE First(u).message # m
  <2>1. First(u).message \in outer
    <3>1. Messages(u) /\ Depth(u) \in Nat
      BY <1>1 DEF IInv, Types, Depth
    <3> QED BY <1>7, <3>1 DEF Messages, First, Busy
  <2>2. m \in outer => m = First(t).message
    BY <1>1 DEF Messages, First, Busy, Top, m
  <2> QED BY <2>1, <2>2, <1>1, <1>7 DEF IInv, Distinct
<1>8. \A u \in Tasks \ {t} : Stack(u)' /\ Logger(u)' /\ Messages(u)'
  BY <1>1, <1>4, <1>5, <1>7, OthersKeep
<1>9. Stack(t)' /\ Logger(t)'
  <2>1. Stack(t)'
    BY <1>1, <1>2 DEF Stack, Busy, First, Depth, Top
  <2>2. Logger(t)'
    <3>1. Logger(t) /\ Busy(t) /\ provider' = provider /\ during' = during
      BY <1>1 DEF Busy
    <3>2. Depth(t) \in 1 .. 2
      BY <1>1 DEF Stack, Busy
    <3>3. /\ calls'[t][1].logger = calls[t][1].logger
          /\ Depth(t) = 1 => calls'[t][1].step = "check"
          /\ Depth(t) = 2 => calls'[t][1] = calls[t][1]
      BY <1>2, <3>2
    <3> QED BY <3>1, <3>2, <3>3 DEF Logger, First
  <2> QED BY <2>1, <2>2
<1>10. Messages(t)'
  <2>1. CASE Depth(t) = 1
    BY <1>1, <1>2, <1>4, <2>1 DEF Messages, Busy, First, Depth, Top
  <2>2. CASE Depth(t) = 2
    <3>1. First(t).step' = "emitting" /\ First(t)' = First(t) /\ First(t).message # m
      BY <1>1, <1>2, <2>2 DEF Stack, First, Depth, Top, Messages, m
    <3> QED BY <1>1, <1>2, <1>4, <2>2, <3>1 DEF Messages, Busy, First, Depth
  <2> QED BY <1>1, <2>1, <2>2 DEF Stack, Busy
<1>11. Distinct'
  BY <1>6 DEF IInv, Distinct
<1>12. OneRecord'
  BY <1>1, <1>6 DEF IInv, OneRecord, Recorded
<1>13. Emitted'
  <2> SUFFICES ASSUME NEW x \in OnConsole' \cap outer
               PROVE  Recorded(x) \/ \E u \in Tasks : Busy(u) /\ First(u).message = x
    BY <1>1, <1>6 DEF Emitted, Recorded
  <2>1. CASE x \in OnConsole
    BY <2>1 DEF IInv, Emitted
  <2>2. CASE x = m
    BY <1>1, <2>2 DEF Messages, First, Top, Busy, Depth, m, Stack
  <2> QED BY <1>4, <2>1, <2>2
<1> QED BY <1>1, <1>3, <1>5, <1>8, <1>9, <1>10, <1>11, <1>12, <1>13 DEF IInv

-----------------------------------------------------------------------------
(* Calls and records that come and go *)

LEMMA LogIInv ==
    ASSUME IInv, NEW t \in Tasks, NEW level \in Levels, Log(t, level), UNCHANGED exports
    PROVE  IInv'
<1> DEFINE m    == messages + 1
           call == [message |-> m, level |-> level, logger |-> NoProvider, step |-> "format"]
           new  == Append(calls[t], call)
<1>1. /\ Types /\ Stack(t) /\ Logger(t) /\ Messages(t) /\ Written
      /\ UNCHANGED <<t_emitting, provider, console, records>>
      /\ messages' = m /\ messages \in Nat /\ m \in Nat /\ m \notin 1 .. messages
      /\ calls' = [calls EXCEPT ![t] = new]
      /\ calls[t] \in Seq(Invocations) /\ Depth(t) \in Nat
      /\ Depth(t) = 0 \/ At(t, "emitting")
  BY DEF IInv, Log, Types, Depth
<1>2. /\ call \in Invocations /\ call.message = m /\ call.step = "format"
  BY <1>1 DEF Invocations, Loggers, CallSteps
<1> HIDE DEF call
<1>3. /\ new \in Seq(Invocations) /\ Len(new) = Depth(t) + 1 /\ new[Depth(t) + 1] = call
      /\ \A k \in 1 .. Depth(t) : new[k] = calls[t][k]
  BY <1>1, <1>2 DEF Depth
<1> HIDE DEF new
<1>4. /\ calls' \in [Tasks -> Seq(Invocations)] /\ calls'[t] = new
      /\ \A u \in Tasks \ {t} : calls'[u] = calls[u]
  BY <1>1, <1>3 DEF Types
<1>a. Depth(t)' = Depth(t) + 1 /\ calls'[t][Depth(t) + 1] = call
  BY <1>3, <1>4 DEF Depth
<1>5. /\ outer' = IF Depth(t) = 0 THEN outer \cup {m} ELSE outer
      /\ during' = IF Depth(t) = 0 THEN [during EXCEPT ![t] = {provider}] ELSE during
  BY DEF Log
<1>6. outer' \in SUBSET (1 .. m) /\ during' \in [Tasks -> SUBSET Loggers]
  BY <1>1, <1>5 DEF Types
<1>7. Types' /\ OthersStay(t)
  BY <1>1, <1>4, <1>5, <1>6 DEF Types, OthersStay
<1> HIDE DEF m
<1>8. \A x \in 1 .. messages : x # m /\ (x \in outer' <=> x \in outer)
  BY <1>1, <1>5
<1>9. OnConsole' = OnConsole /\ OnConsole \subseteq 1 .. messages
  BY <1>1 DEF OnConsole, Written
<1>10. \A u \in Tasks \ {t} : Stack(u)' /\ Logger(u)' /\ Messages(u)'
  BY <1>1, <1>7, <1>8, <1>9, OthersKeep DEF m
<1>11. \A u \in Tasks \ {t} : (Busy(u)' <=> Busy(u)) /\ First(u)' = First(u)
  BY <1>4 DEF Busy, First, Depth
<1>12. \A u \in Tasks : Busy(u) => First(u).message \in outer /\ First(u).message \in 1 .. messages
  <2> SUFFICES ASSUME NEW u \in Tasks, Busy(u)
               PROVE  First(u).message \in outer /\ First(u).message \in 1 .. messages
    OBVIOUS
  <2>1. Messages(u) /\ Depth(u) \in Nat
    BY <1>1 DEF IInv, Types, Depth
  <2> QED BY <2>1 DEF Messages, Busy, First
<1>13. Written'
  BY <1>1, <1>9 DEF Written, m
<1>14. ~Recorded(m)
  BY <1>1 DEF IInv, OneRecord, Recorded, Types
<1>15. \A x : Recorded(x)' <=> Recorded(x)
  BY <1>1 DEF Recorded
<1>16. outer \subseteq outer'
  BY <1>5
<1>17. CASE Depth(t) = 0
  <2>1. /\ Depth(t)' = 1 /\ calls'[t][1] = call /\ First(t)' = call /\ Busy(t)' /\ ~Busy(t)
        /\ ~t_emitting[t] /\ outer' = outer \cup {m} /\ during'[t] = {provider}
    <3>1. Depth(t)' = 1 /\ calls'[t][1] = call /\ Busy(t)' /\ ~Busy(t)
      BY <1>a, <1>17 DEF Busy
    <3>2. First(t)' = call
      BY <3>1 DEF First
    <3>3. ~t_emitting[t]
      BY <1>1, <3>1 DEF Stack
    <3>4. outer' = outer \cup {m} /\ during'[t] = {provider}
      BY <1>1, <1>5, <1>17 DEF Types
    <3> QED BY <3>1, <3>2, <3>3, <3>4
  <2>2. Stack(t)'
    BY <1>1, <1>2, <2>1 DEF Stack
  <2>3. Logger(t)'
    BY <1>1, <1>2, <2>1 DEF Logger
  <2>4. Messages(t)'
    BY <1>1, <1>2, <1>9, <2>1 DEF Messages, m
  <2>5. Distinct'
    BY <1>2, <1>8, <1>11, <1>12, <2>1 DEF Distinct, IInv
  <2>6. OneRecord'
    <3>1. ASSUME NEW u \in Tasks, Busy(u)' PROVE ~Recorded(First(u).message)'
      <4>1. CASE u = t
        BY <1>2, <1>14, <1>15, <2>1, <4>1
      <4>2. CASE u # t
        BY <1>11, <1>15, <3>1, <4>2 DEF IInv, OneRecord
      <4> QED BY <4>1, <4>2
    <3> QED BY <1>1, <1>16, <3>1 DEF IInv, OneRecord
  <2>7. Emitted'
    <3> SUFFICES ASSUME NEW x \in OnConsole \cap outer
                 PROVE  Recorded(x) \/ \E u \in Tasks : Busy(u)' /\ First(u).message' = x
      BY <1>8, <1>9, <1>15 DEF Emitted
    <3>1. Recorded(x) \/ \E u \in Tasks \ {t} : Busy(u) /\ First(u).message = x
      BY <2>1 DEF IInv, Emitted
    <3> QED BY <1>11, <3>1
  <2> QED BY <1>1, <1>7, <1>10, <1>13, <2>2, <2>3, <2>4, <2>5, <2>6, <2>7 DEF IInv
<1>18. CASE Depth(t) # 0
  <2>1. Depth(t) = 1 /\ First(t).step = "emitting" /\ Busy(t)
    <3>1. Depth(t) > 0 /\ calls[t][Depth(t)].step = "emitting"
      BY <1>1, <1>18 DEF At, Top
    <3>2. Depth(t) # 2 /\ Depth(t) <= 2
      BY <1>1, <3>1 DEF Stack
    <3> QED BY <1>1, <3>1, <3>2 DEF First, Busy
  <2>2. /\ Depth(t)' = 2 /\ calls'[t][2] = call /\ First(t)' = First(t) /\ Busy(t)'
        /\ calls'[t][1] = First(t) /\ outer' = outer /\ during' = during
    <3>1. Depth(t)' = 2 /\ calls'[t][2] = call /\ Busy(t)'
      BY <1>a, <2>1 DEF Busy
    <3>2. First(t)' = First(t) /\ calls'[t][1] = First(t)
      BY <1>3, <1>4, <2>1 DEF First
    <3> QED BY <1>5, <1>18, <3>1, <3>2
  <2>3. Stack(t)'
    BY <1>1, <1>2, <2>1, <2>2 DEF Stack
  <2>4. Logger(t)'
    BY <1>1, <2>1, <2>2 DEF Logger
  <2>5. Messages(t)'
    <3>1. First(t).message \in outer /\ First(t).message \in 1 .. m /\ m \notin outer /\ m \in 1 .. m
      BY <1>1, <1>12, <2>1 DEF m, Types
    <3>2. HasSeverity(First(t).level) \/ First(t).message \notin OnConsole
      BY <1>1, <2>1 DEF Messages
    <3>3. (\A k \in 1 .. Depth(t) : /\ calls[t][k].message \in 1 .. messages
                                    /\ calls[t][k].message \in outer <=> k = 1)'
      BY <1>1, <1>2, <2>2, <3>1
    <3>4. /\ calls'[t][1].step = "emitting"
          /\ HasSeverity(calls'[t][1].level) \/ calls'[t][1].message \notin OnConsole'
      BY <1>9, <2>1, <2>2, <3>2
    <3>5. (Busy(t) /\ (First(t).step \in {"format", "console"} \/ ~HasSeverity(First(t).level)) =>
              First(t).message \notin OnConsole)'
      BY <3>4 DEF First, HasSeverity
    <3> QED BY <3>3, <3>5 DEF Messages
  <2>6. \A u \in Tasks : (Busy(u)' <=> Busy(u)) /\ First(u)' = First(u)
    BY <1>11, <2>1, <2>2
  <2>7. Distinct'
    BY <2>6 DEF Distinct, IInv
  <2>8. OneRecord'
    <3>1. ASSUME NEW u \in Tasks, Busy(u)' PROVE ~Recorded(First(u).message)'
      BY <1>15, <2>6, <3>1 DEF IInv, OneRecord
    <3> QED BY <1>1, <2>2, <3>1 DEF IInv, OneRecord
  <2>9. Emitted'
    BY <1>9, <1>15, <2>2, <2>6 DEF IInv, Emitted
  <2> QED BY <1>1, <1>7, <1>10, <1>13, <2>3, <2>4, <2>5, <2>7, <2>8, <2>9 DEF IInv
<1> QED BY <1>17, <1>18

\* EmitLogRecord returns, and with it the first call: its message has a record.
LEMMA EmitIInv == ASSUME IInv, NEW t \in Tasks, Emit(t), UNCHANGED exports PROVE IInv'
<1> DEFINE m == Top(t).message
           r == [message |-> m, provider |-> Top(t).logger]
<1>1. /\ Types /\ Stack(t) /\ Logger(t) /\ Messages(t) /\ Written
      /\ UNCHANGED <<provider, console, messages, outer, during>>
      /\ records' = Append(records, r) /\ records \in Seq(Records)
      /\ t_emitting' = [t_emitting EXCEPT ![t] = FALSE]
      /\ Return(t) /\ Top(t).step = "emitting"
      /\ Busy(t) /\ Depth(t) \in Nat
  BY DEF IInv, Emit, At, Types, Depth, Busy, Cleared
<1>2. Depth(t) = 1 /\ Top(t) = First(t)
  <2>1. Depth(t) # 2 /\ Depth(t) <= 2
    BY <1>1 DEF Stack, Top
  <2>2. Depth(t) = 1
    BY <1>1, <2>1 DEF Busy
  <2> QED BY <2>2 DEF Top, First
<1>3. Top(t) \in Invocations
  <2>1. calls[t] \in Seq(Invocations) /\ 1 \in 1 .. Len(calls[t])
    BY <1>1, <1>2 DEF Types, Depth
  <2> QED BY <1>2, <2>1 DEF First
<1>4. r \in Records /\ r.message = m /\ m = First(t).message
  BY <1>2, <1>3 DEF Invocations, Records
<1>5. m \in outer /\ m \in 1 .. messages
  BY <1>1, <1>2 DEF Messages, First
<1> HIDE DEF m, r
<1>6. /\ Len(records') = Len(records) + 1 /\ records'[Len(records) + 1] = r
      /\ \A k \in 1 .. Len(records) : records'[k] = records[k]
      /\ records' \in Seq(Records) /\ Len(records) \in Nat
  BY <1>1, <1>4
<1>7. \A x : Recorded(x)' <=> Recorded(x) \/ x = m
  BY <1>4, <1>6 DEF Recorded
<1>8. /\ calls' \in [Tasks -> Seq(Invocations)]
      /\ \A u \in Tasks \ {t} : calls'[u] = calls[u]
      /\ Depth(t)' = 0
  <2>1. /\ calls' \in [Tasks -> Seq(Invocations)]
        /\ \A u \in Tasks \ {t} : calls'[u] = calls[u]
        /\ Len(calls'[t]) = Depth(t) - 1
    BY <1>1, ReturnFacts
  <2> QED BY <1>2, <2>1 DEF Depth
<1>9. Types' /\ OthersStay(t)
  BY <1>1, <1>6, <1>8 DEF Types, OthersStay
<1>10. OnConsole' = OnConsole
  BY <1>1 DEF OnConsole
<1>11. \A u \in Tasks \ {t} : Stack(u)' /\ Logger(u)' /\ Messages(u)'
  BY <1>1, <1>9, <1>10, OthersKeep DEF Types
<1>12. /\ \A u \in Tasks \ {t} : (Busy(u)' <=> Busy(u)) /\ First(u)' = First(u)
       /\ ~Busy(t)' /\ ~t_emitting'[t]
  BY <1>1, <1>8 DEF Busy, First, Depth, Types
<1>13. Stack(t)' /\ Logger(t)' /\ Messages(t)'
  BY <1>8, <1>12 DEF Stack, Logger, Messages
<1>14. Distinct'
  BY <1>12 DEF IInv, Distinct
<1>15. Written'
  BY <1>1 DEF Written
<1>16. \A u \in Tasks \ {t} : Busy(u) => First(u).message # m
  BY <1>1, <1>4 DEF IInv, Distinct
<1>17. OneRecord'
  <2>1. ~Recorded(m)
    BY <1>1, <1>4 DEF IInv, OneRecord
  <2>2. \A k \in 1 .. Len(records) : records[k].message # m
    BY <2>1 DEF Recorded
  <2>3. \A k \in 1 .. Len(records') : records'[k].message \in outer
    BY <1>4, <1>5, <1>6 DEF IInv, OneRecord
  <2>4. \A j, k \in 1 .. Len(records') : records'[j].message = records'[k].message => j = k
    BY <1>4, <1>6, <2>2 DEF IInv, OneRecord
  <2>5. ASSUME NEW u \in Tasks, Busy(u)' PROVE ~Recorded(First(u).message)'
    <3>1. u # t /\ Busy(u) /\ First(u)' = First(u)
      BY <1>12, <2>5
    <3>2. ~Recorded(First(u).message) /\ First(u).message # m
      BY <1>16, <3>1 DEF IInv, OneRecord
    <3> QED BY <1>7, <3>1, <3>2
  <2> QED BY <1>1, <2>3, <2>4, <2>5 DEF OneRecord
<1>18. Emitted'
  <2> SUFFICES ASSUME NEW x \in OnConsole \cap outer
               PROVE  Recorded(x)' \/ \E u \in Tasks : Busy(u)' /\ First(u).message' = x
    BY <1>1, <1>10 DEF Emitted
  <2>1. CASE Recorded(x)
    BY <1>7, <2>1
  <2>2. CASE \E u \in Tasks : Busy(u) /\ First(u).message = x
    <3>1. PICK u \in Tasks : Busy(u) /\ First(u).message = x
      BY <2>2
    <3>2. CASE u = t
      BY <1>4, <1>7, <3>1, <3>2
    <3>3. CASE u # t
      <4>1. Busy(u)' /\ First(u)' = First(u)
        BY <1>12, <3>1, <3>3
      <4> QED BY <3>1, <4>1
    <3> QED BY <3>2, <3>3
  <2> QED BY <2>1, <2>2 DEF IInv, Emitted
<1>19. exports'[LogTag] <= Len(records')
  BY <1>6, TagsAssumption DEF IInv, Types
<1> QED BY <1>9, <1>11, <1>13, <1>14, <1>15, <1>17, <1>18, <1>19 DEF IInv

\* A provider is installed while calls are in progress.
LEMMA SetLoggerProviderIInv ==
    ASSUME IInv, NEW p \in Providers, SetLoggerProvider(p), UNCHANGED exports
    PROVE  IInv'
<1>1. /\ Types /\ provider' = p /\ during' = [t \in Tasks |-> during[t] \cup {p}]
      /\ UNCHANGED <<calls, t_emitting, console, records, messages, outer>>
  BY DEF IInv, SetLoggerProvider
<1>2. Types'
  BY <1>1 DEF Types, Loggers
<1>3. OnConsole' = OnConsole /\ \A x : Recorded(x)' <=> Recorded(x)
  BY <1>1 DEF OnConsole, Recorded
<1>4. ASSUME NEW t \in Tasks PROVE Stack(t)' /\ Logger(t)' /\ Messages(t)'
  <2>1. Stack(t) /\ Logger(t) /\ Messages(t) /\ during'[t] = during[t] \cup {p}
    BY <1>1 DEF IInv
  <2>2. Stack(t)'
    BY <1>1, <2>1 DEF Stack, Busy, First, Depth
  <2>3. Logger(t)'
    BY <1>1, <2>1 DEF Logger, Busy, First, Depth
  <2>4. Messages(t)'
    BY <1>1, <1>3, <2>1 DEF Messages, Busy, First, Depth
  <2> QED BY <2>2, <2>3, <2>4
<1>5. Distinct' /\ Written'
  BY <1>1 DEF IInv, Distinct, Written, Busy, First, Depth
<1>6. OneRecord' /\ Emitted'
  BY <1>1, <1>3 DEF IInv, OneRecord, Emitted, Busy, First, Depth
<1> QED BY <1>1, <1>2, <1>4, <1>5, <1>6 DEF IInv

-----------------------------------------------------------------------------
(* The invariant holds, and what follows from it *)

\* The exporters print what was recorded.
LEMMA PrintKeeps ==
    ASSUME IInv, UNCHANGED bridging, exports' \in [Tags \cup {ProfileTag} -> Nat],
           exports'[LogTag] <= Len(records)
    PROVE  IInv'
<1>1. UNCHANGED <<calls, t_emitting, provider, console, records, messages, outer, during>>
  BY DEF bridging
<1>2. Types'
  BY <1>1 DEF IInv, Types
<1>3. OnConsole' = OnConsole /\ \A x : Recorded(x)' <=> Recorded(x)
  BY <1>1 DEF OnConsole, Recorded
<1>4. ASSUME NEW t \in Tasks PROVE Stack(t)' /\ Logger(t)' /\ Messages(t)'
  <2>1. Stack(t) /\ Logger(t) /\ Messages(t)
    BY DEF IInv
  <2>2. Stack(t)'
    BY <1>1, <2>1 DEF Stack, Busy, First, Depth
  <2>3. Logger(t)'
    BY <1>1, <2>1 DEF Logger, Busy, First, Depth
  <2>4. Messages(t)'
    BY <1>1, <1>3, <2>1 DEF Messages, Busy, First, Depth
  <2> QED BY <2>2, <2>3, <2>4
<1>5. Distinct' /\ Written'
  BY <1>1 DEF IInv, Distinct, Written, Busy, First, Depth
<1>6. OneRecord' /\ Emitted'
  BY <1>1, <1>3 DEF IInv, OneRecord, Emitted, Busy, First, Depth
<1> QED BY <1>1, <1>2, <1>4, <1>5, <1>6 DEF IInv

LEMMA ExportersIInv == ASSUME IInv, Exporters, OwnMacro PROVE IInv'
<1>1. UNCHANGED bridging /\ Types /\ exports[LogTag] <= Len(records)
  BY DEF IInv, OwnMacro
<1>2. exports \in [Tags \cup {ProfileTag} -> Nat] /\ LogTag \in Tags /\ LogTag # ProfileTag
  BY <1>1, TagsAssumption DEF Types
<1>3. Len(records) \in Nat
  BY <1>1 DEF Types
<1>4. CASE ExportRecord
  <2>1. exports[LogTag] < Len(records) /\ exports' = [exports EXCEPT ![LogTag] = @ + 1]
    BY <1>4 DEF ExportRecord, E!Export
  <2>2. /\ exports' \in [Tags \cup {ProfileTag} -> Nat]
        /\ exports'[LogTag] = exports[LogTag] + 1 /\ exports[LogTag] \in Nat
    BY <1>2, <2>1
  <2> QED BY <1>1, <1>3, <2>1, <2>2, PrintKeeps
<1>5. CASE \E t \in Tags : E!WriteLine(t) \/ E!WriteRest(t) \/ E!ShutDown(t)
  <2>1. exports' = exports
    BY <1>5 DEF E!WriteLine, E!WriteRest, E!ShutDown
  <2> QED BY <1>1, <1>2, <2>1, PrintKeeps
<1>6. CASE E!ExportProfile(<<ProfileTag>>)
  <2>1. exports' = [exports EXCEPT ![ProfileTag] = @ + 1]
    BY <1>6 DEF E!ExportProfile
  <2>2. exports' \in [Tags \cup {ProfileTag} -> Nat] /\ exports'[LogTag] = exports[LogTag]
    BY <1>2, <2>1
  <2> QED BY <1>1, <2>2, PrintKeeps
<1> QED BY <1>4, <1>5, <1>6 DEF Exporters

LEMMA NextIInv == IInv /\ [CNext]_cvars => IInv'
<1> SUFFICES ASSUME IInv, [CNext]_cvars PROVE IInv'
  OBVIOUS
<1>1. ASSUME Next, UNCHANGED exports PROVE IInv'
  <2>1. ASSUME NEW t \in Tasks, NEW level \in {"error", "none"}, Log(t, level) PROVE IInv'
    BY <1>1, <2>1, LogIInv DEF Levels
  <2>2. ASSUME NEW t \in Tasks, Format(t) \/ WriteConsole(t) \/ Check(t) PROVE IInv'
    BY <1>1, <2>2, FormatIInv, WriteConsoleIInv, CheckIInv
  <2>3. ASSUME NEW t \in Tasks, GetLogger(t) \/ Emit(t) PROVE IInv'
    BY <1>1, <2>3, GetLoggerIInv, EmitIInv
  <2>4. ASSUME NEW p \in Providers, SetLoggerProvider(p) PROVE IInv'
    BY <1>1, <2>4, SetLoggerProviderIInv
  <2> QED BY <1>1, <2>1, <2>2, <2>3, <2>4 DEF Next, Step
<1>2. ASSUME Exporters, OwnMacro PROVE IInv'
  BY <1>2, ExportersIInv
<1>3. CASE UNCHANGED cvars
  <2>1. UNCHANGED bridging /\ exports' = exports
    BY <1>3 DEF cvars, printing
  <2> QED BY <2>1, PrintKeeps DEF IInv, Types
<1> QED BY <1>1, <1>2, <1>3 DEF CNext, printing

\* How a task's stack, its flag, the console and the records belong together at
\* every step of the calls in progress.
THEOREM Inductive == CSpec => []IInv
<1>1. CInit => IInv
  BY InitIInv
<1>2. IInv /\ [CNext]_cvars => IInv'
  BY NextIInv
<1> QED BY <1>1, <1>2, PTL DEF CSpec

\* The flag t_emitting keeps every call inside an emission from emitting, and so
\* from nesting further than the console.
THEOREM NoRecursion == CSpec => []OnlyOutermostEmits
<1>1. IInv => OnlyOutermostEmits
  <2> SUFFICES ASSUME IInv PROVE OnlyOutermostEmits
    OBVIOUS
  <2>1. ASSUME NEW t \in Tasks
        PROVE  /\ Emissions(t) \subseteq {1} /\ Depth(t) <= 2
               /\ \A k \in 1 .. Depth(t) :
                      /\ calls[t][k].message \in 1 .. messages
                      /\ calls[t][k].step \in CallSteps
                      /\ k < Depth(t) => calls[t][k].step = "emitting"
    <3>1. /\ Stack(t) /\ Messages(t) /\ calls[t] \in Seq(Invocations)
          /\ Depth(t) \in Nat /\ Depth(t) <= 2
      BY DEF IInv, Types, Stack, Depth
    <3>2. \A k \in 1 .. Depth(t) : calls[t][k] \in Invocations
      BY <3>1 DEF Depth
    <3>3. \A k \in 1 .. Depth(t) : k = 2 => calls[t][k].step \notin {"logger", "emitting"}
      BY <3>1 DEF Stack
    <3>4. Emissions(t) \subseteq {1}
      BY <3>1, <3>3 DEF Emissions
    <3>5. \A k \in 1 .. Depth(t) : k < Depth(t) => calls[t][k].step = "emitting"
      BY <3>1 DEF Stack, First
    <3> QED BY <3>1, <3>2, <3>4, <3>5 DEF Messages, Invocations
  <2>2. TypeOK
    BY <2>1 DEF IInv, Types, TypeOK, CallSteps, Loggers
  <2> QED BY <2>1, <2>2 DEF OnlyOutermostEmits
<1> QED BY <1>1, Inductive, PTL

\* A message of a task that reached the console is emitted once by the time its
\* call returns, to a provider that was installed during the call.
THEOREM MessagesAreEmitted == CSpec => []OuterMessagesAreEmitted
<1>1. IInv => OuterMessagesAreEmitted
  <2> SUFFICES ASSUME IInv PROVE OuterMessagesAreEmitted
    OBVIOUS
  <2>1. ASSUME NEW m \in (OnConsole \cap outer) \ InProgress
        PROVE  Cardinality({k \in 1 .. Len(records) : records[k].message = m}) = 1
    <3>1. ASSUME NEW t \in Tasks, Busy(t) PROVE First(t).message # m
      <4>1. 1 \in 1 .. Depth(t)
        BY <3>1 DEF IInv, Types, Busy, Depth
      <4> QED BY <4>1 DEF InProgress, First
    <3>2. Recorded(m)
      BY <3>1 DEF IInv, Emitted
    <3>3. PICK k \in 1 .. Len(records) : records[k].message = m
      BY <3>2 DEF Recorded
    <3>4. {j \in 1 .. Len(records) : records[j].message = m} = {k}
      BY <3>3 DEF IInv, OneRecord
    <3> QED BY <3>4, FS_Singleton
  <2>2. ASSUME NEW t \in Tasks, At(t, "emitting") PROVE Top(t).logger \in during[t]
    <3>1. /\ Stack(t) /\ Logger(t) /\ Depth(t) \in Nat /\ Depth(t) > 0
          /\ calls[t][Depth(t)].step = "emitting"
      BY <2>2 DEF IInv, Types, Depth, At, Top
    <3>2. Depth(t) # 2 /\ Depth(t) <= 2
      BY <3>1 DEF Stack
    <3>3. Depth(t) = 1
      BY <3>1, <3>2
    <3> QED BY <3>1, <3>3 DEF Logger, Busy, First, Top
  <2> QED BY <2>1, <2>2 DEF OuterMessagesAreEmitted
<1> QED BY <1>1, Inductive, PTL

\* Although the exporter of the records prints each on the console the bridge
\* writes to, no record is of anything but a message some task logged, once.
THEOREM RecordsDoNotEcho == CSpec => []NothingEchoes
<1>1. IInv => NothingEchoes
  BY DEF IInv, OneRecord, NothingEchoes
<1> QED BY <1>1, Inductive, PTL

-----------------------------------------------------------------------------
(* Texts and their lines *)

LEMMA LeastElement ==
    ASSUME NEW T, T \subseteq Nat, T # {}
    PROVE  \E m \in T : \A n \in T : m <= n
<1>1. PICK m \in T : \A n \in T : ~ (<<n, m>> \in OpToRel(<, Nat))
  BY NatLessThanWellFounded, WFMin
<1>2. ASSUME NEW n \in T PROVE m <= n
  <2>1. m \in Nat /\ n \in Nat
    OBVIOUS
  <2>2. ~ (n < m)
    BY <1>1, <2>1 DEF OpToRel
  <2> QED BY <2>1, <2>2
<1> QED BY <1>2

\* The text before the first of a character.
LEMMA FirstPlace ==
    ASSUME NEW c, NEW text \in Seq(Chars)
    PROVE  /\ E!Places(c, text) = {} => E!UpTo(c, text) = text
           /\ E!Places(c, text) # {} =>
                \E n \in 1 .. Len(text) :
                    /\ text[n] = c /\ \A k \in 1 .. n - 1 : text[k] # c
                    /\ E!UpTo(c, text) = SubSeq(text, 1, n - 1)
<1> DEFINE P == E!Places(c, text)
           n == E!Min(P)
<1>1. E!UpTo(c, text) = IF P = {} THEN text ELSE SubSeq(text, 1, n - 1)
  BY DEF E!UpTo
<1>2. P = {k \in 1 .. Len(text) : text[k] = c} /\ P \subseteq Nat
  BY DEF E!Places
<1>3. ASSUME P # {} PROVE n \in P /\ \A k \in P : n <= k
  <2>1. \E m \in P : \A k \in P : m <= k
    BY <1>2, <1>3, LeastElement
  <2> HIDE DEF P
  <2> QED BY <2>1 DEF E!Min
<1> HIDE DEF n, P
<1>4. ASSUME P # {} PROVE \A k \in 1 .. n - 1 : text[k] # c
  <2>1. n \in 1 .. Len(text)
    BY <1>2, <1>3, <1>4
  <2> QED BY <1>2, <1>3, <1>4, <2>1
<1>5. ASSUME P # {}
      PROVE  n \in 1 .. Len(text) /\ text[n] = c /\ E!UpTo(c, text) = SubSeq(text, 1, n - 1)
  BY <1>1, <1>2, <1>3, <1>5
<1> QED BY <1>1, <1>4, <1>5 DEF P

LEMMA UpToType ==
    ASSUME NEW c, NEW text \in Seq(Chars)
    PROVE  E!UpTo(c, text) \in Seq(Chars)
<1>1. ASSUME NEW n \in 1 .. Len(text) PROVE SubSeq(text, 1, n - 1) \in Seq(Chars)
  OBVIOUS
<1> QED BY <1>1, FirstPlace

LEMMA GreatestElement ==
    ASSUME NEW N \in Nat, NEW S, S \subseteq 0 .. N, S # {}
    PROVE  \E m \in S : \A n \in S : m >= n
<1> DEFINE T == {N - x : x \in S}
<1>1. T \subseteq Nat /\ T # {}
  <2>1. ASSUME NEW x \in S PROVE N - x \in T /\ N - x \in Nat
    OBVIOUS
  <2> QED BY <2>1
<1>2. PICK y \in T : \A z \in T : y <= z
  <2> HIDE DEF T
  <2> QED BY <1>1, LeastElement
<1>3. PICK m \in S : y = N - m
  OBVIOUS
<1>4. ASSUME NEW n \in S PROVE m >= n
  <2>1. N - n \in T
    OBVIOUS
  <2>2. N - m <= N - n /\ n \in Nat /\ m \in Nat
    BY <1>2, <1>3, <2>1
  <2> QED BY <2>2
<1> QED BY <1>4

LEMMA MaxIs ==
    ASSUME NEW S, S \subseteq Nat, NEW s \in S, \A y \in S : s >= y
    PROVE  E!Max(S) = s
<1>1. E!Max(S) \in S /\ \A y \in S : E!Max(S) >= y
  BY DEF E!Max
<1>2. E!Max(S) >= s /\ s >= E!Max(S) /\ E!Max(S) \in Nat /\ s \in Nat
  BY <1>1
<1> QED BY <1>2

\* Where, behind the last end of a line, the unfinished one starts.
IsStart(w, s) ==
    /\ s \in 0 .. Len(w) /\ (s = 0 \/ w[s] = Newline)
    /\ \A j \in 1 .. Len(w) : w[j] = Newline => j <= s

EndsBefore(w, k) == {0} \cup {j \in E!Places(Newline, w) : j < k}
LineAt(w, k) == SubSeq(w, E!Max(EndsBefore(w, k)) + 1, k - 1)

LEMMA OldLine ==
    ASSUME NEW w \in Seq(Chars), NEW x \in Seq(Chars), NEW j \in 1 .. Len(w)
    PROVE  /\ (w \o x)[j] = w[j]
           /\ LineAt(w \o x, j) = LineAt(w, j)
<1> DEFINE v == w \o x
           S == EndsBefore(w, j)
           m == E!Max(S)
<1>1. /\ v \in Seq(Chars) /\ Len(v) \in Nat /\ Len(w) \in Nat /\ Len(v) >= Len(w)
      /\ \A i \in 1 .. Len(w) : v[i] = w[i]
  OBVIOUS
<1> HIDE DEF v
<1>2. EndsBefore(v, j) = S
  BY <1>1 DEF E!Places, EndsBefore
<1>3. m \in 0 .. j - 1
  <2>1. S \subseteq 0 .. j - 1 /\ S # {} /\ j - 1 \in Nat
    BY DEF E!Places, EndsBefore
  <2> HIDE DEF S
  <2>2. \E i \in S : \A n \in S : i >= n
    BY <2>1, GreatestElement
  <2>3. m \in S
    BY <2>2 DEF E!Max
  <2> QED BY <2>1, <2>3
<1> HIDE DEF S, m
<1>4. SubSeq(v, m + 1, j - 1) = SubSeq(w, m + 1, j - 1)
  BY <1>1, <1>3
<1>5. v[j] = w[j]
  BY <1>1
<1>6. LineAt(v, j) = SubSeq(v, m + 1, j - 1)
  BY <1>2 DEF LineAt, m
<1>7. LineAt(w, j) = SubSeq(w, m + 1, j - 1)
  BY DEF LineAt, m, S
<1> QED BY <1>4, <1>5, <1>6, <1>7 DEF v

LEMMA CurrentStart ==
    ASSUME NEW w \in Seq(Chars), NEW s, IsStart(w, s)
    PROVE  E!Max(EndsBefore(w, Len(w) + 1)) = s
<1> DEFINE S == EndsBefore(w, Len(w) + 1)
<1>1. Len(w) \in Nat /\ s \in Nat
  BY DEF IsStart
<1>2. s \in S /\ S \subseteq Nat /\ \A i \in S : s >= i
  BY <1>1 DEF IsStart, EndsBefore, E!Places
<1> HIDE DEF S
<1>3. E!Max(S) = s
  BY <1>2, MaxIs
<1> QED BY <1>3 DEF S

LEMMA Piece ==
    ASSUME NEW w \in Seq(Chars), NEW s \in Nat, NEW k \in Nat, s <= k, k <= Len(w)
    PROVE  /\ SubSeq(w, s + 1, k) \in Seq(Chars) /\ Len(SubSeq(w, s + 1, k)) = k - s
           /\ \A i \in 1 .. k - s : SubSeq(w, s + 1, k)[i] = w[s + i]
<1>1. SubSeq(w, s + 1, k) \in Seq(Chars)
  OBVIOUS
<1>2. Len(SubSeq(w, s + 1, k)) = k - s
  OBVIOUS
<1>3. \A i \in 1 .. k - s : SubSeq(w, s + 1, k)[i] = w[s + i]
  OBVIOUS
<1> QED BY <1>1, <1>2, <1>3

NoNewlineUpTo(x, q) == q \in 0 .. Len(x) /\ \A i \in 1 .. q : x[i] # Newline

ContinuesLine(w, x, s, q) ==
    LineAt(w \o x, Len(w) + q + 1) = SubSeq(w, s + 1, Len(w)) \o SubSeq(x, 1, q)

LEMMA StartOf ==
    ASSUME NEW w \in Seq(Chars), NEW x \in Seq(Chars), NEW s, IsStart(w, s),
           NEW q, NoNewlineUpTo(x, q)
    PROVE  ContinuesLine(w, x, s, q)
<1> USE DEF NoNewlineUpTo, ContinuesLine
<1> DEFINE v == w \o x
           k == Len(w) + q + 1
           S == EndsBefore(v, k)
<1>1. /\ v \in Seq(Chars) /\ Len(v) = Len(w) + Len(x) /\ Len(w) \in Nat /\ Len(x) \in Nat
      /\ \A i \in 1 .. Len(w) : v[i] = w[i]
      /\ \A i \in 1 .. Len(x) : v[Len(w) + i] = x[i]
  OBVIOUS
<1>2. s \in Nat /\ s <= Len(w)
  BY <1>1 DEF IsStart
<1> HIDE DEF v
<1>3. s \in S
  BY <1>1, <1>2 DEF IsStart, E!Places, EndsBefore
<1>4. ASSUME NEW i \in S PROVE i \in Nat /\ s >= i
  <2>1. CASE i = 0
    BY <1>2, <2>1
  <2>2. CASE i # 0
    <3>1. i \in 1 .. Len(v) /\ v[i] = Newline /\ i < k
      BY <2>2 DEF E!Places, EndsBefore
    <3>2. CASE i <= Len(w)
      BY <1>1, <1>2, <3>1, <3>2 DEF IsStart
    <3>3. CASE ~ (i <= Len(w))
      <4> DEFINE n == i - Len(w)
      <4>1. n \in 1 .. q /\ Len(w) + n = i /\ n \in 1 .. Len(x)
        BY <1>1, <3>1, <3>3
      <4> HIDE DEF n
      <4>2. v[i] = x[n]
        BY <1>1, <4>1
      <4> QED BY <3>1, <4>1, <4>2
    <3> QED BY <3>2, <3>3
  <2> QED BY <2>1, <2>2
<1>5. E!Max(S) = s
  <2> HIDE DEF S
  <2> QED BY <1>3, <1>4, MaxIs
<1>6. LineAt(v, k) = SubSeq(v, s + 1, Len(w) + q)
  <2>1. k - 1 = Len(w) + q
    BY <1>1
  <2> QED BY <1>5, <2>1 DEF LineAt
<1> DEFINE a == SubSeq(w, s + 1, Len(w))
           b == SubSeq(x, 1, q)
           c == SubSeq(v, s + 1, Len(w) + q)
<1>7. /\ Len(a) = Len(w) - s /\ \A i \in 1 .. Len(w) - s : a[i] = w[s + i]
      /\ a \in Seq(Chars)
  BY <1>1, <1>2, Piece
<1>8. /\ Len(b) = q /\ \A i \in 1 .. q : b[i] = x[i]
      /\ b \in Seq(Chars)
  BY <1>1
<1>9. /\ Len(c) = (Len(w) - s) + q /\ \A i \in 1 .. (Len(w) - s) + q : c[i] = v[s + i]
      /\ c \in Seq(Chars)
  <2> DEFINE n == Len(w) + q
  <2>1. n \in Nat /\ s <= n /\ n <= Len(v) /\ n - s = (Len(w) - s) + q
    BY <1>1, <1>2
  <2> HIDE DEF n
  <2>2. /\ SubSeq(v, s + 1, n) \in Seq(Chars) /\ Len(SubSeq(v, s + 1, n)) = n - s
        /\ \A i \in 1 .. n - s : SubSeq(v, s + 1, n)[i] = v[s + i]
    BY <1>1, <1>2, <2>1, Piece
  <2> QED BY <2>1, <2>2 DEF n
<1>10. c = a \o b
  <2> HIDE DEF a, b, c
  <2>1. /\ a \o b \in Seq(Chars) /\ Len(a \o b) = (Len(w) - s) + q
        /\ \A i \in 1 .. Len(w) - s : (a \o b)[i] = a[i]
        /\ \A i \in 1 .. q : (a \o b)[(Len(w) - s) + i] = b[i]
    <3>1. a \in Seq(Chars) /\ b \in Seq(Chars)
      BY <1>7, <1>8
    <3>2. /\ a \o b \in Seq(Chars) /\ Len(a \o b) = Len(a) + Len(b)
          /\ \A i \in 1 .. Len(a) : (a \o b)[i] = a[i]
          /\ \A i \in 1 .. Len(b) : (a \o b)[Len(a) + i] = b[i]
      BY <3>1
    <3> QED BY <1>7, <1>8, <3>2
  <2>2. ASSUME NEW i \in 1 .. (Len(w) - s) + q PROVE c[i] = (a \o b)[i]
    <3>1. CASE i <= Len(w) - s
      <4>1. i \in 1 .. Len(w) - s /\ s + i \in 1 .. Len(w)
        BY <1>1, <1>2, <3>1
      <4> QED BY <1>1, <1>7, <1>9, <2>1, <4>1
    <3>2. CASE ~ (i <= Len(w) - s)
      <4> DEFINE n == i - (Len(w) - s)
      <4>1. n \in 1 .. q /\ (Len(w) - s) + n = i /\ s + i = Len(w) + n /\ n \in 1 .. Len(x)
        BY <1>1, <1>2, <3>2
      <4> HIDE DEF n
      <4>2. c[i] = x[n]
        BY <1>1, <1>9, <4>1
      <4>3. (a \o b)[i] = x[n]
        BY <1>8, <2>1, <4>1
      <4> QED BY <4>2, <4>3
    <3> QED BY <3>1, <3>2
  <2>3. a \o b \in Seq(Chars) /\ c \in Seq(Chars) /\ Len(c) = Len(a \o b)
    BY <1>9, <2>1
  <2> DEFINE d == a \o b
  <2>4. \A i \in 1 .. Len(c) : c[i] = d[i]
    BY <1>9, <2>2
  <2> HIDE DEF d
  <2> QED BY <2>3, <2>4, SeqEqual DEF d
<1> QED BY <1>6, <1>10 DEF v, a, b, c

\* What an exporter wrote, its buffer and its lines on the console.
IsPrinted(w, text) ==
    \E j \in 1 .. Len(w) : w[j] = Newline /\ text = E!UpTo(Nul, LineAt(w, j))
WholeText(w, ln, ls) ==
    /\ \E s : IsStart(w, s) /\ ln = SubSeq(w, s + 1, Len(w))
    /\ \A k \in 1 .. Len(ls) : IsPrinted(w, ls[k])

LEMMA PrintedStays ==
    ASSUME NEW w \in Seq(Chars), NEW x \in Seq(Chars), NEW text, IsPrinted(w, text)
    PROVE  IsPrinted(w \o x, text)
<1>1. PICK j \in 1 .. Len(w) : w[j] = Newline /\ text = E!UpTo(Nul, LineAt(w, j))
  BY DEF IsPrinted
<1>2. (w \o x)[j] = w[j] /\ LineAt(w \o x, j) = LineAt(w, j)
  BY OldLine
<1>3. j \in 1 .. Len(w \o x)
  OBVIOUS
<1> QED BY <1>1, <1>2, <1>3 DEF IsPrinted

LEMMA Joined ==
    ASSUME NEW w \in Seq(Chars), NEW y \in Seq(Chars)
    PROVE  /\ w \o y \in Seq(Chars) /\ Len(w \o y) = Len(w) + Len(y) /\ Len(w) \in Nat
           /\ \A i \in 1 .. Len(y) : (w \o y)[Len(w) + i] = y[i]
OBVIOUS

LEMMA WroteRest ==
    ASSUME NEW w \in Seq(Chars), NEW x \in Seq(Chars), NEW ln, NEW ls, WholeText(w, ln, ls),
           \A i \in 1 .. Len(x) : x[i] # Newline
    PROVE  WholeText(w \o x, ln \o x, ls)
<1> DEFINE v == w \o x
<1>1. PICK s : IsStart(w, s) /\ ln = SubSeq(w, s + 1, Len(w))
  BY DEF WholeText
<1>2. /\ v \in Seq(Chars) /\ Len(v) = Len(w) + Len(x) /\ Len(w) \in Nat /\ Len(x) \in Nat
      /\ \A i \in 1 .. Len(w) : v[i] = w[i]
      /\ \A i \in 1 .. Len(x) : v[Len(w) + i] = x[i]
  OBVIOUS
<1> HIDE DEF v
<1>3. IsStart(v, s)
  <2>1. s \in 0 .. Len(v) /\ (s = 0 \/ v[s] = Newline)
    BY <1>1, <1>2 DEF IsStart
  <2>2. ASSUME NEW j \in 1 .. Len(v), v[j] = Newline PROVE j <= s
    <3>1. CASE j <= Len(w)
      <4>1. j \in 1 .. Len(w) /\ w[j] = Newline
        BY <1>2, <2>2, <3>1
      <4> QED BY <1>1, <4>1 DEF IsStart
    <3>2. CASE ~ (j <= Len(w))
      <4> DEFINE n == j - Len(w)
      <4>1. n \in 1 .. Len(x) /\ Len(w) + n = j
        BY <1>2, <3>2
      <4> HIDE DEF n
      <4> QED BY <1>2, <2>2, <4>1
    <3> QED BY <3>1, <3>2
  <2> QED BY <2>1, <2>2 DEF IsStart
<1>4. ln \o x = SubSeq(v, s + 1, Len(v))
  <2>1. LineAt(v, Len(w) + Len(x) + 1) = SubSeq(w, s + 1, Len(w)) \o SubSeq(x, 1, Len(x))
    <3> DEFINE q == Len(x)
    <3>1. NoNewlineUpTo(x, q)
      BY <1>2 DEF NoNewlineUpTo
    <3> HIDE DEF q
    <3>2. ContinuesLine(w, x, s, q)
      BY <1>1, <3>1, StartOf, Zenon
    <3> QED BY <3>2 DEF q, v, ContinuesLine
  <2>2. SubSeq(x, 1, Len(x)) = x
    OBVIOUS
  <2>3. LineAt(v, Len(v) + 1) = SubSeq(v, s + 1, Len(v))
    <3>1. E!Max(EndsBefore(v, Len(v) + 1)) = s
      BY <1>2, <1>3, CurrentStart
    <3>2. (Len(v) + 1) - 1 = Len(v)
      BY <1>2
    <3> QED BY <3>1, <3>2 DEF LineAt
  <2>4. Len(v) + 1 = Len(w) + Len(x) + 1
    BY <1>2
  <2> QED BY <1>1, <2>1, <2>2, <2>3, <2>4
<1>5. \A k \in 1 .. Len(ls) : IsPrinted(v, ls[k])
  BY PrintedStays DEF WholeText, v
<1> QED BY <1>3, <1>4, <1>5 DEF WholeText, v

LEMMA WroteLine ==
    ASSUME NEW w \in Seq(Chars), NEW x \in Seq(Chars), NEW ln, NEW ls \in Seq(Seq(Chars)),
           WholeText(w, ln, ls), NEW n \in 1 .. Len(x), x[n] = Newline,
           \A i \in 1 .. n - 1 : x[i] # Newline,
           NEW new, new = ls \/ new = Append(ls, E!UpTo(Nul, ln \o SubSeq(x, 1, n - 1)))
    PROVE  /\ WholeText(w \o SubSeq(x, 1, n), <<>>, new)
           /\ new \in Seq(Seq(Chars))
<1> DEFINE y == SubSeq(x, 1, n)
           v == w \o y
<1>1. PICK s : IsStart(w, s) /\ ln = SubSeq(w, s + 1, Len(w))
  BY DEF WholeText
<1>2. /\ y \in Seq(Chars) /\ Len(y) = n /\ n \in Nat /\ n >= 1
      /\ \A i \in 1 .. n : y[i] = x[i]
      /\ SubSeq(y, 1, n - 1) = SubSeq(x, 1, n - 1)
      /\ SubSeq(x, 1, n - 1) \in Seq(Chars)
  OBVIOUS
<1> HIDE DEF y
<1>3. /\ v \in Seq(Chars) /\ Len(v) = Len(w) + n /\ Len(w) \in Nat
      /\ v[Len(w) + n] = Newline
  <2>1. /\ v \in Seq(Chars) /\ Len(v) = Len(w) + Len(y) /\ Len(w) \in Nat
        /\ \A i \in 1 .. Len(y) : v[Len(w) + i] = y[i]
    BY <1>2, Joined
  <2> HIDE DEF v
  <2>2. n \in 1 .. Len(y) /\ y[n] = Newline
    BY <1>2
  <2> QED BY <1>2, <2>1, <2>2
<1>4. LineAt(v, Len(v)) = ln \o SubSeq(x, 1, n - 1)
  <2>1. n - 1 \in 0 .. Len(y) /\ \A i \in 1 .. n - 1 : y[i] # Newline
    BY <1>2
  <2>2. LineAt(v, Len(w) + (n - 1) + 1) = SubSeq(w, s + 1, Len(w)) \o SubSeq(y, 1, n - 1)
    <3> DEFINE q == n - 1
    <3>1. NoNewlineUpTo(y, q)
      BY <2>1 DEF NoNewlineUpTo
    <3> HIDE DEF q
    <3>2. y \in Seq(Chars) /\ IsStart(w, s)
      BY <1>1, <1>2
    <3>3. ContinuesLine(w, y, s, q)
      BY <3>1, <3>2, StartOf, Zenon
    <3> QED BY <3>3 DEF q, ContinuesLine
  <2>3. Len(w) + (n - 1) + 1 = Len(v)
    BY <1>2, <1>3
  <2> QED BY <1>1, <1>2, <2>2, <2>3
<1>5. IsPrinted(v, E!UpTo(Nul, ln \o SubSeq(x, 1, n - 1)))
  <2>1. Len(v) \in 1 .. Len(v) /\ v[Len(v)] = Newline
    BY <1>2, <1>3
  <2> HIDE DEF v
  <2> QED BY <1>4, <2>1 DEF IsPrinted
<1>6. \A k \in 1 .. Len(ls) : IsPrinted(v, ls[k])
  BY <1>2, PrintedStays DEF WholeText
<1>7. E!UpTo(Nul, ln \o SubSeq(x, 1, n - 1)) \in Seq(Chars)
  <2>1. ln \in Seq(Chars)
    <3>1. s \in Nat /\ s <= Len(w)
      BY <1>1, <1>3 DEF IsStart
    <3>2. SubSeq(w, s + 1, Len(w)) \in Seq(Chars)
      BY <1>3, <3>1
    <3> QED BY <1>1, <3>2
  <2>2. ln \o SubSeq(x, 1, n - 1) \in Seq(Chars)
    BY <1>2, <2>1
  <2> QED BY <2>2, UpToType
<1> HIDE DEF v
<1>8. new \in Seq(Seq(Chars)) /\ \A k \in 1 .. Len(new) : IsPrinted(v, new[k])
  <2> DEFINE e == E!UpTo(Nul, ln \o SubSeq(x, 1, n - 1))
  <2> HIDE DEF e
  <2>1. e \in Seq(Chars) /\ IsPrinted(v, e) /\ (new = ls \/ new = Append(ls, e))
    BY <1>5, <1>7 DEF e
  <2> DEFINE S == Seq(Chars)
  <2> HIDE DEF S
  <2>2. ls \in Seq(S) /\ e \in S
    BY <2>1 DEF S
  <2>3. CASE new = ls
    BY <1>6, <2>2, <2>3 DEF S
  <2>4. CASE new = Append(ls, e)
    <3>1. new \in Seq(S) /\ Len(new) = Len(ls) + 1 /\ new[Len(ls) + 1] = e /\ Len(ls) \in Nat
          /\ \A k \in 1 .. Len(ls) : new[k] = ls[k]
      BY <2>2, <2>4
    <3>2. \A k \in 1 .. Len(new) : k \in 1 .. Len(ls) \/ k = Len(ls) + 1
      BY <3>1
    <3> QED BY <1>6, <2>1, <3>1, <3>2 DEF S
  <2> QED BY <2>1, <2>3, <2>4
<1>9. IsStart(v, Len(v)) /\ <<>> = SubSeq(v, Len(v) + 1, Len(v))
  BY <1>2, <1>3 DEF IsStart
<1> QED BY <1>8, <1>9 DEF WholeText, v, y

-----------------------------------------------------------------------------
(* The exporters' steps *)

PrintTypes ==
    /\ rest \in [Tags -> Seq(Chars)] /\ line \in [Tags -> Seq(Chars)]
    /\ written \in [Tags -> Seq(Chars)]
    /\ DOMAIN lines = Tags \cup {ProfileTag}
    /\ \A t \in Tags : lines[t] \in Seq(Seq(Chars))
    /\ messages <= MaxMessages

PrintInv == PrintTypes /\ \A t \in Tags : WholeText(written[t], line[t], lines[t])

LEMMA InitPrintInv == CInit => PrintInv
<1> SUFFICES ASSUME CInit PROVE PrintInv
  OBVIOUS
<1>1. /\ lines = [t \in Tags \cup {ProfileTag} |-> <<>>] /\ line = [t \in Tags |-> <<>>]
      /\ rest = [t \in Tags |-> <<>>] /\ written = [t \in Tags |-> <<>>]
      /\ messages = 0
  BY DEF CInit, E!EInit, E!Printers, Init
<1>2. PrintTypes
  BY <1>1, BoundsAssumption DEF PrintTypes
<1>3. WholeText(<<>>, <<>>, <<>>)
  <2>1. Len(<<>>) = 0 /\ <<>> = SubSeq(<<>>, 0 + 1, Len(<<>>)) /\ IsStart(<<>>, 0)
    BY DEF IsStart
  <2> QED BY <2>1 DEF WholeText
<1> QED BY <1>1, <1>2, <1>3 DEF PrintInv

\* What a step of t leaves alone.
LEMMA OneTag ==
    ASSUME PrintInv, NEW t \in Tags, PrintTypes', WholeText(written'[t], line'[t], lines'[t]),
           \A u \in Tags \ {t} : /\ written'[u] = written[u] /\ line'[u] = line[u]
                                 /\ lines'[u] = lines[u]
    PROVE  PrintInv'
<1>1. \A u \in Tags : WholeText(written'[u], line'[u], lines'[u])
  BY DEF PrintInv
<1>2. (\A u \in Tags : WholeText(written[u], line[u], lines[u]))'
  BY <1>1 DEF WholeText, IsStart, IsPrinted, LineAt, EndsBefore, E!UpTo, E!Places, E!Max, E!Min
<1> QED BY <1>2 DEF PrintInv

LEMMA NothingPrinted ==
    ASSUME PrintInv, PrintTypes', UNCHANGED <<written, line>>, \A u \in Tags : lines'[u] = lines[u]
    PROVE  PrintInv'
<1>1. \A u \in Tags : WholeText(written'[u], line'[u], lines'[u])
  BY DEF PrintInv
<1>2. (\A u \in Tags : WholeText(written[u], line[u], lines[u]))'
  BY <1>1 DEF WholeText, IsStart, IsPrinted, LineAt, EndsBefore, E!UpTo, E!Places, E!Max, E!Min
<1> QED BY <1>2 DEF PrintInv

LEMMA WriteLinePrintInv == ASSUME PrintInv, NEW t \in Tags, E!WriteLine(t), UNCHANGED bridging PROVE PrintInv'
<1> DEFINE x == rest[t]
           text == E!UpTo(Newline, x)
           buffer == line[t]
           w == written[t]
<1>1. /\ x \in Seq(Chars) /\ w \in Seq(Chars) /\ lines[t] \in Seq(Seq(Chars))
      /\ WholeText(w, buffer, lines[t]) /\ t \in DOMAIN lines
  BY DEF PrintInv, PrintTypes
<1>2. /\ E!Places(Newline, x) # {} /\ E!PrintLine(t, buffer \o text)
      /\ line' = [line EXCEPT ![t] = <<>>]
      /\ written' = [written EXCEPT ![t] = w \o SubSeq(x, 1, Len(text) + 1)]
      /\ rest' = [rest EXCEPT ![t] = SubSeq(x, Len(text) + 2, Len(x))]
  <2>1. (Len(text) + 1) + 1 = Len(text) + 2
    <3>1. text \in Seq(Chars)
      BY <1>1, UpToType
    <3>2. Len(text) \in Nat
      BY <3>1
    <3> QED BY <3>2
  <2> QED BY <2>1 DEF E!WriteLine, E!Cleared
<1>3. PICK n \in 1 .. Len(x) : /\ x[n] = Newline /\ \A k \in 1 .. n - 1 : x[k] # Newline
                               /\ text = SubSeq(x, 1, n - 1)
  BY <1>1, <1>2, FirstPlace
<1>4. n \in Nat /\ Len(text) + 1 = n /\ Len(text) + 2 = n + 1
  <2> HIDE DEF x
  <2>1. Len(SubSeq(x, 1, n - 1)) = n - 1 /\ n \in Nat
    BY <1>1
  <2> QED BY <1>3, <2>1
<1>5. lines'[t] = lines[t] \/ lines'[t] = Append(lines[t], E!UpTo(Nul, buffer \o SubSeq(x, 1, n - 1)))
  BY <1>1, <1>2, <1>3 DEF E!PrintLine
<1>6. \A u \in Tags \ {t} : lines'[u] = lines[u]
  BY <1>2 DEF E!PrintLine, PrintInv, PrintTypes
<1>7. DOMAIN lines' = DOMAIN lines
  BY <1>2 DEF E!PrintLine
<1>8. WholeText(w \o SubSeq(x, 1, n), <<>>, lines'[t]) /\ lines'[t] \in Seq(Seq(Chars))
  <2> HIDE DEF x, w, buffer
  <2> QED BY <1>1, <1>3, <1>5, WroteLine
<1>9. /\ written' = [written EXCEPT ![t] = w \o SubSeq(x, 1, n)]
      /\ rest' = [rest EXCEPT ![t] = SubSeq(x, n + 1, Len(x))]
  BY <1>2, <1>4
<1>10. SubSeq(x, n + 1, Len(x)) \in Seq(Chars) /\ w \o SubSeq(x, 1, n) \in Seq(Chars)
  <2> HIDE DEF x, w
  <2>1. SubSeq(x, n + 1, Len(x)) \in Seq(Chars) /\ SubSeq(x, 1, n) \in Seq(Chars)
    BY <1>1
  <2> QED BY <1>1, <2>1
<1> HIDE DEF x, w
<1>11. PrintTypes'
  <2>1. rest' \in [Tags -> Seq(Chars)] /\ line' \in [Tags -> Seq(Chars)]
    BY <1>2, <1>9, <1>10 DEF PrintInv, PrintTypes
  <2>2. written' \in [Tags -> Seq(Chars)]
    BY <1>9, <1>10 DEF PrintInv, PrintTypes
  <2>3. \A u \in Tags : lines'[u] \in Seq(Seq(Chars))
    BY <1>6, <1>8 DEF PrintInv, PrintTypes
  <2> QED BY <1>7, <2>1, <2>2, <2>3 DEF PrintInv, PrintTypes, bridging
<1>12. /\ written'[t] = w \o SubSeq(x, 1, n) /\ line'[t] = <<>>
       /\ \A u \in Tags \ {t} : written'[u] = written[u] /\ line'[u] = line[u]
  BY <1>2, <1>9 DEF PrintInv, PrintTypes
<1> QED BY <1>6, <1>8, <1>11, <1>12, OneTag

LEMMA WriteRestPrintInv == ASSUME PrintInv, NEW t \in Tags, E!WriteRest(t), UNCHANGED bridging PROVE PrintInv'
<1> DEFINE x == rest[t]
           w == written[t]
<1>1. /\ x \in Seq(Chars) /\ w \in Seq(Chars) /\ line[t] \in Seq(Chars)
      /\ WholeText(w, line[t], lines[t])
  BY DEF PrintInv, PrintTypes
<1>2. /\ lines' = lines /\ rest' = [rest EXCEPT ![t] = <<>>]
      /\ line' = [line EXCEPT ![t] = line[t] \o x] /\ written' = [written EXCEPT ![t] = w \o x]
      /\ E!Places(Newline, x) = {}
  BY DEF E!WriteRest
<1>3. \A i \in 1 .. Len(x) : x[i] # Newline
  BY <1>2 DEF E!Places
<1>4. w \o x \in Seq(Chars) /\ line[t] \o x \in Seq(Chars)
  <2> HIDE DEF x, w
  <2> QED BY <1>1
<1>5. WholeText(w \o x, line[t] \o x, lines[t])
  <2> HIDE DEF x, w
  <2> QED BY <1>1, <1>3, WroteRest
<1> HIDE DEF x, w
<1>6. PrintTypes'
  BY <1>2, <1>4 DEF PrintInv, PrintTypes, bridging
<1>7. /\ written'[t] = w \o x /\ line'[t] = line[t] \o x /\ lines'[t] = lines[t]
      /\ \A u \in Tags \ {t} : /\ written'[u] = written[u] /\ line'[u] = line[u]
                               /\ lines'[u] = lines[u]
  BY <1>2 DEF PrintInv, PrintTypes
<1> QED BY <1>5, <1>6, <1>7, OneTag

LEMMA ExportersPrintInv == ASSUME IInv, PrintInv, Exporters, UNCHANGED bridging PROVE PrintInv'
<1>1. CASE ExportRecord
  <2> DEFINE r == records[exports[LogTag] + 1]
  <2>1. r.message \in 1 .. MaxMessages
    <3>1. /\ exports[LogTag] \in Nat /\ records \in Seq(Records) /\ messages \in Nat
          /\ outer \subseteq 1 .. messages /\ OneRecord
      BY TagsAssumption DEF IInv, Types
    <3>2. exports[LogTag] + 1 \in 1 .. Len(records)
      BY <1>1, <3>1 DEF ExportRecord
    <3>3. r.message \in outer
      BY <3>1, <3>2 DEF OneRecord
    <3>4. messages <= MaxMessages /\ MaxMessages \in Nat
      BY BoundsAssumption DEF PrintInv, PrintTypes
    <3> DEFINE m == r.message
    <3> HIDE DEF m, r
    <3>5. m \in 1 .. messages
      BY <3>1, <3>3 DEF m
    <3>6. m \in 1 .. MaxMessages
      BY <3>1, <3>4, <3>5
    <3> QED BY <3>6 DEF m
  <2>2. TextOf(r.message) \in Seq(Chars)
    BY <2>1, TextsAssumption
  <2>3. /\ rest' = [rest EXCEPT ![LogTag] = TextOf(r.message)]
        /\ UNCHANGED <<lines, line, written>>
    BY <1>1 DEF ExportRecord, E!Export
  <2>4. PrintTypes'
    BY <2>2, <2>3 DEF PrintInv, PrintTypes, bridging
  <2> QED BY <2>3, <2>4, NothingPrinted
<1>2. CASE \E t \in Tags : E!WriteLine(t) \/ E!WriteRest(t) \/ E!ShutDown(t)
  <2>1. PICK t \in Tags : E!WriteLine(t) \/ E!WriteRest(t) \/ E!ShutDown(t)
    BY <1>2
  <2>2. CASE E!ShutDown(t)
    <3>1. UNCHANGED <<lines, line, rest, written>> /\ messages' = messages
      BY <2>2 DEF E!ShutDown, bridging
    <3>2. PrintTypes'
      BY <3>1 DEF PrintInv, PrintTypes
    <3> QED BY <3>1, <3>2, NothingPrinted
  <2> QED BY <2>1, <2>2, WriteLinePrintInv, WriteRestPrintInv
<1>3. CASE E!ExportProfile(<<ProfileTag>>)
  <2>1. UNCHANGED <<line, rest, written>> /\ messages' = messages
        /\ DOMAIN lines' = DOMAIN lines /\ \A u \in Tags : lines'[u] = lines[u]
    BY <1>3, TagsAssumption DEF E!ExportProfile, E!PrintLine, bridging, PrintInv, PrintTypes
  <2>2. PrintTypes'
    BY <2>1 DEF PrintInv, PrintTypes
  <2> QED BY <2>1, <2>2, NothingPrinted
<1> QED BY <1>1, <1>2, <1>3 DEF Exporters

LEMMA NextPrintInv == IInv /\ PrintInv /\ [CNext]_cvars => PrintInv'
<1> SUFFICES ASSUME IInv, PrintInv, [CNext]_cvars PROVE PrintInv'
  OBVIOUS
<1>1. ASSUME UNCHANGED printing, messages' <= MaxMessages PROVE PrintInv'
  <2>1. UNCHANGED <<lines, line, rest, written>>
    BY <1>1 DEF printing
  <2>2. PrintTypes'
    BY <1>1, <2>1 DEF PrintInv, PrintTypes
  <2> QED BY <2>1, <2>2, NothingPrinted
<1>2. ASSUME Next PROVE messages' <= MaxMessages
  <2>1. messages \in Nat /\ messages <= MaxMessages
    BY DEF IInv, Types, PrintInv, PrintTypes
  <2>2. ASSUME NEW t \in Tasks, NEW level \in {"error", "none"}, Log(t, level)
        PROVE  messages' <= MaxMessages
    BY <2>1, <2>2, BoundsAssumption DEF Log
  <2>3. ASSUME NEW t \in Tasks, Step(t) PROVE messages' = messages
    BY <2>3 DEF Step, Format, WriteConsole, Check, GetLogger, Emit
  <2>4. ASSUME NEW p \in Providers, SetLoggerProvider(p) PROVE messages' = messages
    BY <2>4 DEF SetLoggerProvider
  <2> QED BY <1>2, <2>1, <2>2, <2>3, <2>4 DEF Next
<1>3. CASE Next /\ UNCHANGED printing
  BY <1>1, <1>2, <1>3
<1>4. CASE Exporters /\ OwnMacro
  BY <1>4, ExportersPrintInv DEF OwnMacro
<1>5. CASE UNCHANGED cvars
  <2>1. UNCHANGED printing /\ messages' = messages
    BY <1>5 DEF cvars, bridging
  <2> QED BY <1>1, <2>1 DEF PrintInv, PrintTypes
<1> QED BY <1>3, <1>4, <1>5 DEF CNext

\* What ESP_LOGI prints under an exporter's tag is one whole line of what the
\* exporter wrote, whatever the pieces it came in and whatever esp_log filtered.
THEOREM NoLineIsTorn == CSpec => []LinesAreWhole
<1>1. CInit => PrintInv
  BY InitPrintInv
<1>2. IInv /\ PrintInv /\ [CNext]_cvars => PrintInv'
  BY NextPrintInv
<1>3. PrintInv => LinesAreWhole
  <2> SUFFICES ASSUME PrintInv, NEW t \in Tags
               PROVE  /\ line[t] = E!LineBefore(t, Len(written[t]) + 1)
                      /\ \A k \in 1 .. Len(lines[t]) : \E j \in E!Places(Newline, written[t]) :
                             lines[t][k] = E!UpTo(Nul, E!LineBefore(t, j))
    BY DEF LinesAreWhole, E!LinesAreWhole
  <2> DEFINE w == written[t]
  <2>1. w \in Seq(Chars) /\ WholeText(w, line[t], lines[t])
    BY DEF PrintInv, PrintTypes
  <2>2. \A k : E!LineBefore(t, k) = LineAt(w, k)
    BY DEF E!LineBefore, LineAt, EndsBefore
  <2>3. PICK s : IsStart(w, s) /\ line[t] = SubSeq(w, s + 1, Len(w))
    BY <2>1 DEF WholeText
  <2>4. line[t] = LineAt(w, Len(w) + 1)
    <3>1. E!Max(EndsBefore(w, Len(w) + 1)) = s
      BY <2>1, <2>3, CurrentStart
    <3>2. (Len(w) + 1) - 1 = Len(w)
      BY <2>1
    <3> QED BY <2>3, <3>1, <3>2 DEF LineAt
  <2>5. ASSUME NEW k \in 1 .. Len(lines[t])
        PROVE  \E j \in E!Places(Newline, w) : lines[t][k] = E!UpTo(Nul, LineAt(w, j))
    BY <2>1 DEF WholeText, IsPrinted, E!Places
  <2> QED BY <2>2, <2>4, <2>5
<1> QED BY <1>1, <1>2, <1>3, Inductive, PTL DEF CSpec
=============================================================================
