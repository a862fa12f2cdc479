--------------------------- MODULE SignalSetup_proofs ---------------------------
(***************************************************************************)
(* Of SignalSetup, for any number of tasks and calls: the first            *)
(* installation of a guarded signal stays, no export thread is left        *)
(* without an owner, and only export threads get the large stack.          *)
(***************************************************************************)
EXTENDS SignalSetup, TLAPS

Steps == {"idle", "configure", "construct", "restore", "exchange", "check",
          "start", "install", "propagate", "spawn"}
Threads == [call : 1 .. MaxCalls, signal : Signals, stack : {"large", "own"}]

Types ==
    /\ pc \in [Tasks -> Steps]
    /\ signal \in [Tasks -> Signals]
    /\ call \in [Tasks -> 0 .. MaxCalls]
    /\ cfg \in [Tasks -> {"default", "large"}]
    /\ initialised \in SUBSET Once
    /\ provider \in [Signals -> 0 .. MaxCalls]
    /\ threads \in SUBSET Threads
    /\ calls \in 0 .. MaxCalls

\* Which steps the setup of each signal takes, and when the next thread of the
\* calling task would get the large stack.
Course(t) ==
    /\ pc[t] # "idle" => call[t] > 0
    /\ pc[t] \in {"configure", "construct", "restore"} => signal[t] # "profiling"
    /\ pc[t] = "exchange" => signal[t] \in {"tracing", "logs"}
    /\ pc[t] = "propagate" => signal[t] = "tracing"
    /\ pc[t] \in {"check", "start", "spawn"} => signal[t] = "profiling"
    /\ cfg[t] = IF pc[t] \in {"construct", "restore"} THEN "large" ELSE "default"

\* The task that is to install what a thread belongs to.
Installs(t, th) ==
    pc[t] \in {"restore", "exchange", "install"} /\ call[t] = th.call /\ signal[t] = th.signal

Owned(th) ==
    th.signal # "profiling" =>
        /\ th.stack = "large"
        /\ th.call = provider[th.signal] \/ \E t \in Tasks : Installs(t, th)

\* The guarded signals: one call passes the guard, before anything is installed.
Guarded == {"tracing", "logs"}
Passed(s) == {t \in Tasks : pc[t] = "install" /\ signal[t] = s}
Guard(s) ==
    /\ s \notin initialised \/ Passed(s) # {} => provider[s] = 0
    /\ Passed(s) # {} => s \in initialised
    /\ \A t, u \in Passed(s) : t = u

IInv ==
    /\ Types
    /\ \A t \in Tasks : Course(t)
    /\ \A th \in threads : Owned(th)
    /\ \A s \in Guarded : Guard(s)

LEMMA InitIInv == Init => IInv
<1> SUFFICES ASSUME Init PROVE IInv
  OBVIOUS
<1>1. MaxCalls \in Nat
  BY CallsAssumption
<1>2. signal \in [Tasks -> Signals] /\ \A t \in Tasks : signal[t] = "tracing"
  BY DEF Init, Signals
<1>3. Types
  BY <1>1, <1>2 DEF Init, Types, Steps
<1>4. ASSUME NEW t \in Tasks PROVE Course(t)
  BY DEF Init, Course
<1>5. ASSUME NEW s \in Guarded PROVE Guard(s)
  BY DEF Init, Guard, Passed, Guarded, Signals
<1> QED BY <1>3, <1>4, <1>5 DEF Init, IInv

-----------------------------------------------------------------------------
(* The steps *)

\* What a step of t may do: change its own place and configuration, add threads
\* that it is to install, and pass the guard of its signal.
OthersStay(t) == \A u \in Tasks \ {t} :
    pc'[u] = pc[u] /\ signal'[u] = signal[u] /\ call'[u] = call[u] /\ cfg'[u] = cfg[u]
Installing(t, th) ==
    pc'[t] \in {"restore", "exchange", "install"} /\ call'[t] = th.call /\ signal'[t] = th.signal
ThreadsKeep(t) == \A th \in threads' :
    /\ th \in threads \/ (th.stack = "large" /\ Installing(t, th))
    /\ Installs(t, th) => Installing(t, th)
GuardPasses(t) ==
    pc'[t] = "install" /\ signal'[t] \in Guarded => signal'[t] \in initialised' \ initialised

LEMMA StepKeeps ==
    ASSUME IInv, NEW t \in Tasks, Types', Course(t)', OthersStay(t), ThreadsKeep(t),
           GuardPasses(t), provider' = provider, initialised \subseteq initialised'
    PROVE  IInv'
<1>1. ASSUME NEW u \in Tasks PROVE Course(u)'
  <2>1. CASE u = t
    BY <2>1
  <2>2. CASE u # t
    BY <2>2 DEF IInv, Course, OthersStay
  <2> QED BY <2>1, <2>2
<1>2. ASSUME NEW th \in threads' PROVE Owned(th)'
  <2>1. CASE th.stack = "large" /\ Installing(t, th)
    <3>1. Installs(t, th)'
      BY <2>1 DEF Installs, Installing
    <3> QED BY <2>1, <3>1 DEF Owned
  <2>2. CASE th \in threads
    <3>1. Owned(th)
      BY <2>2 DEF IInv
    <3>2. ASSUME NEW u \in Tasks, Installs(u, th) PROVE Installs(u, th)'
      BY <3>2, <1>2 DEF Installs, Installing, ThreadsKeep, OthersStay
    <3> QED BY <3>1, <3>2 DEF Owned
  <2> QED BY <1>2, <2>1, <2>2 DEF ThreadsKeep
<1>3. ASSUME NEW s \in Guarded PROVE Guard(s)'
  <2>1. Guard(s)
    BY DEF IInv
  <2>2. CASE t \in Passed(s)'
    <3>1. s \in initialised' /\ s \notin initialised
      BY <2>2 DEF GuardPasses, Passed
    <3>2. Passed(s) = {} /\ provider[s] = 0
      BY <2>1, <3>1 DEF Guard
    <3>3. Passed(s)' \subseteq Passed(s) \cup {t}
      BY DEF Passed, OthersStay
    <3> QED BY <3>1, <3>2, <3>3 DEF Guard
  <2>3. CASE t \notin Passed(s)'
    <3>1. Passed(s)' \subseteq Passed(s)
      BY <2>3 DEF Passed, OthersStay
    <3> QED BY <2>1, <3>1 DEF Guard
  <2> QED BY <2>2, <2>3
<1> QED BY <1>1, <1>2, <1>3 DEF IInv

LEMMA CallIInv ==
    ASSUME IInv, NEW t \in Tasks, NEW c \in Calls, Call(t, c[1], Made(c[2]))
    PROVE  IInv'
<1>1. /\ c[1] \in Signals /\ Made(c[2]) \in {"nothing", "exporter", "processor"}
      /\ Made(c[2]) = "processor" => c[1] \in {"tracing", "logs"}
  BY CallsAssumption DEF Made, Signals
<1> DEFINE with == Made(c[2])
<1> HIDE DEF with
<1>2. /\ Types /\ Course(t) /\ pc[t] = "idle" /\ calls < MaxCalls /\ MaxCalls \in Nat
      /\ calls' = calls + 1
      /\ signal' = [signal EXCEPT ![t] = c[1]] /\ call' = [call EXCEPT ![t] = calls + 1]
      /\ UNCHANGED <<cfg, initialised, provider, propagator, threads>>
  BY CallsAssumption DEF IInv, Call
<1>3. PICK step \in {"idle", "exchange", "check", "configure"} :
          /\ pc' = [pc EXCEPT ![t] = step]
          /\ step = "exchange" => c[1] \in {"tracing", "logs"}
          /\ step = "check" => c[1] = "profiling"
          /\ step = "configure" => c[1] # "profiling"
  <2>1. CASE Made(c[2]) = "nothing"
    <3>1. pc' = [pc EXCEPT ![t] = "idle"]
      BY <1>2, <2>1 DEF Call, Types
    <3> QED BY <3>1
  <2>2. CASE Made(c[2]) = "processor"
    BY <1>1, <2>2 DEF Call, Goto
  <2>3. CASE Made(c[2]) = "exporter"
    BY <1>1, <2>3 DEF Call, Goto
  <2> QED BY <1>1, <2>1, <2>2, <2>3
<1>4. calls + 1 \in 1 .. MaxCalls
  BY <1>2 DEF Types
<1>5. Types'
  BY <1>1, <1>2, <1>3, <1>4 DEF Types, Steps
<1>6. Course(t)'
  BY <1>1, <1>2, <1>3, <1>4 DEF Types, Course
<1>7. ThreadsKeep(t)
  BY <1>2 DEF ThreadsKeep, Installs
<1>8. OthersStay(t) /\ GuardPasses(t)
  BY <1>2, <1>3 DEF OthersStay, GuardPasses, Types
<1> QED BY <1>2, <1>5, <1>6, <1>7, <1>8, StepKeeps

LEMMA PrepareIInv ==
    ASSUME IInv, NEW t \in Tasks,
           Configure(t) \/ Construct(t) \/ Restore(t) \/ Check(t)
    PROVE  IInv'
<1>1. Types /\ Course(t) /\ call[t] \in 0 .. MaxCalls /\ signal[t] \in Signals /\ MaxCalls \in Nat
  BY CallsAssumption DEF IInv, Types
<1>2. CASE Configure(t)
  <2>1. /\ pc[t] = "configure" /\ cfg' = [cfg EXCEPT ![t] = "large"]
        /\ pc' = [pc EXCEPT ![t] = "construct"]
        /\ UNCHANGED <<signal, call, initialised, provider, propagator, threads, calls>>
    BY <1>2 DEF Configure, Goto
  <2>2. Types' /\ Course(t)'
    BY <1>1, <2>1 DEF Types, Course, Steps
  <2>3. ThreadsKeep(t)
    BY <2>1 DEF ThreadsKeep, Installs
  <2>4. OthersStay(t) /\ GuardPasses(t)
    BY <1>1, <2>1 DEF OthersStay, GuardPasses, Types
  <2> QED BY <2>1, <2>2, <2>3, <2>4, StepKeeps
<1>3. CASE Construct(t)
  <2> DEFINE new == [call |-> call[t], signal |-> signal[t], stack |-> cfg[t]]
  <2>1. /\ pc[t] = "construct" /\ threads' = threads \cup {new}
        /\ pc' = [pc EXCEPT ![t] = "restore"]
        /\ UNCHANGED <<signal, call, cfg, initialised, provider, propagator, calls>>
    BY <1>3 DEF Construct, Goto
  <2>2. new \in Threads /\ new.stack = "large" /\ new.call = call[t] /\ new.signal = signal[t]
    BY <1>1, <2>1 DEF Course, Threads
  <2> HIDE DEF new
  <2>3. Types' /\ Course(t)'
    BY <1>1, <2>1, <2>2 DEF Types, Course, Steps
  <2>4. Installing(t, new) /\ \A th \in threads' : ~Installs(t, th)
    BY <1>1, <2>1, <2>2 DEF Installing, Installs, Types
  <2>5. ThreadsKeep(t)
    BY <2>1, <2>2, <2>4 DEF ThreadsKeep
  <2>6. OthersStay(t) /\ GuardPasses(t)
    BY <1>1, <2>1 DEF OthersStay, GuardPasses, Types
  <2> QED BY <2>1, <2>3, <2>5, <2>6, StepKeeps
<1>4. CASE Restore(t)
  <2>1. /\ pc[t] = "restore" /\ cfg' = [cfg EXCEPT ![t] = "default"]
        /\ pc' = [pc EXCEPT ![t] = IF signal[t] = "metrics" THEN "install" ELSE "exchange"]
        /\ UNCHANGED <<signal, call, initialised, provider, propagator, threads, calls>>
    BY <1>4 DEF Restore, AfterConstruct, Goto
  <2>2. Types'
    BY <1>1, <2>1 DEF Types, Steps
  <2>3. Course(t)'
    BY <1>1, <2>1 DEF Types, Course, Signals
  <2>4. ThreadsKeep(t)
    BY <1>1, <2>1 DEF ThreadsKeep, Installs, Installing, Types
  <2>5. OthersStay(t) /\ GuardPasses(t)
    BY <1>1, <2>1 DEF OthersStay, GuardPasses, Types, Guarded
  <2> QED BY <2>1, <2>2, <2>3, <2>4, <2>5, StepKeeps
<1>5. CASE Check(t)
  <2>1. /\ pc[t] = "check" /\ \E step \in {"idle", "start"} : pc' = [pc EXCEPT ![t] = step]
        /\ UNCHANGED <<signal, call, cfg, initialised, provider, propagator, threads, calls>>
    BY <1>5 DEF Check, Goto
  <2>2. Types' /\ Course(t)'
    BY <1>1, <2>1 DEF Types, Course, Steps
  <2>3. ThreadsKeep(t)
    BY <2>1 DEF ThreadsKeep, Installs
  <2>4. OthersStay(t) /\ GuardPasses(t)
    BY <1>1, <2>1 DEF OthersStay, GuardPasses, Types
  <2> QED BY <2>1, <2>2, <2>3, <2>4, StepKeeps
<1> QED BY <1>2, <1>3, <1>4, <1>5

\* The guards; the loser of an exchange takes its thread along.
LEMMA GuardIInv == ASSUME IInv, NEW t \in Tasks, Exchange(t) \/ Start(t) PROVE IInv'
<1>1. Types /\ Course(t) /\ call[t] \in 0 .. MaxCalls /\ signal[t] \in Signals
  BY DEF IInv, Types
<1>2. CASE Exchange(t) /\ signal[t] \in initialised
  <2>1. /\ pc[t] = "exchange" /\ pc' = [pc EXCEPT ![t] = "idle"]
        /\ threads' = threads \ ThreadsOf(call[t])
        /\ UNCHANGED <<signal, call, cfg, initialised, provider, propagator, calls>>
    BY <1>2 DEF Exchange, Goto
  <2>2. Types' /\ Course(t)'
    BY <1>1, <2>1 DEF Types, Course, Steps
  <2>3. ThreadsKeep(t)
    BY <2>1 DEF ThreadsKeep, Installs, ThreadsOf
  <2>4. OthersStay(t) /\ GuardPasses(t)
    BY <1>1, <2>1 DEF OthersStay, GuardPasses, Types
  <2> QED BY <2>1, <2>2, <2>3, <2>4, StepKeeps
<1>3. CASE Exchange(t) /\ signal[t] \notin initialised
  <2>1. /\ pc[t] = "exchange" /\ pc' = [pc EXCEPT ![t] = "install"]
        /\ initialised' = initialised \cup {signal[t]}
        /\ UNCHANGED <<signal, call, cfg, provider, propagator, threads, calls>>
    BY <1>3 DEF Exchange, Goto
  <2>2. Types' /\ Course(t)'
    BY <1>1, <2>1 DEF Types, Course, Steps, Once
  <2>3. ThreadsKeep(t)
    BY <1>1, <2>1 DEF ThreadsKeep, Installs, Installing, Types
  <2>4. OthersStay(t) /\ GuardPasses(t)
    BY <1>1, <1>3, <2>1 DEF OthersStay, GuardPasses, Types
  <2> QED BY <2>1, <2>2, <2>3, <2>4, StepKeeps
<1>4. CASE Start(t)
  <2>1. /\ pc[t] = "start" /\ pc' = [pc EXCEPT ![t] = "install"]
        /\ initialised' = initialised \cup {"profiling"} /\ signal[t] = "profiling"
        /\ UNCHANGED <<signal, call, cfg, provider, propagator, threads, calls>>
    BY <1>1, <1>4 DEF Start, Goto, Course
  <2>2. Types' /\ Course(t)'
    BY <1>1, <2>1 DEF Types, Course, Steps, Once
  <2>3. ThreadsKeep(t)
    BY <2>1 DEF ThreadsKeep, Installs
  <2>4. OthersStay(t) /\ GuardPasses(t)
    BY <1>1, <2>1 DEF OthersStay, GuardPasses, Types, Guarded
  <2> QED BY <2>1, <2>2, <2>3, <2>4, StepKeeps
<1> QED BY <1>2, <1>3, <1>4

\* The threads of what is installed belong to it from now on, and those of what
\* it replaces are joined.
LEMMA InstallIInv == ASSUME IInv, NEW t \in Tasks, Install(t) PROVE IInv'
<1>1. /\ Types /\ Course(t) /\ pc[t] = "install" /\ call[t] \in 0 .. MaxCalls
      /\ signal[t] \in Signals /\ call[t] > 0
      /\ provider' = [provider EXCEPT ![signal[t]] = call[t]]
      /\ threads' = IF signal[t] = "profiling" THEN threads
                      ELSE threads \ ThreadsOf(provider[signal[t]])
      /\ UNCHANGED <<signal, call, cfg, initialised, propagator, calls>>
  BY DEF IInv, Types, Course, Install
<1>2. PICK step \in {"propagate", "spawn", "idle"} :
          /\ pc' = [pc EXCEPT ![t] = step]
          /\ step = "propagate" => signal[t] = "tracing"
          /\ step = "spawn" => signal[t] = "profiling"
  BY DEF Install, Goto
<1>3. Types' /\ Course(t)'
  BY <1>1, <1>2 DEF Types, Course, Steps
<1>4. ASSUME NEW u \in Tasks PROVE Course(u)'
  <2>1. CASE u # t
    BY <1>1, <1>2, <2>1 DEF IInv, Types, Course
  <2> QED BY <1>3, <2>1
<1>5. ASSUME NEW th \in threads' PROVE Owned(th)'
  <2> SUFFICES ASSUME th.signal # "profiling"
               PROVE  /\ th.stack = "large"
                      /\ th.call = provider'[th.signal] \/ \E u \in Tasks : Installs(u, th)'
    BY DEF Owned
  <2>1. th \in threads /\ Owned(th) /\ th.signal \in Signals
    BY <1>1, <1>5 DEF IInv, Types, Threads
  <2>2. CASE th.signal = signal[t] /\ th.call = provider[th.signal]
    BY <1>1, <1>5, <2>1, <2>2 DEF ThreadsOf
  <2>3. CASE th.signal # signal[t] /\ th.call = provider[th.signal]
    BY <1>1, <2>1, <2>3 DEF Owned, Types
  <2>4. ASSUME NEW u \in Tasks, Installs(u, th)
        PROVE  th.call = provider'[th.signal] \/ Installs(u, th)'
    <3>1. CASE u = t
      BY <1>1, <2>4, <3>1 DEF Installs, Types
    <3>2. CASE u # t
      BY <1>1, <1>2, <2>4, <3>2 DEF Installs, Types
    <3> QED BY <3>1, <3>2
  <2> QED BY <2>1, <2>2, <2>3, <2>4 DEF Owned
<1>6. ASSUME NEW s \in Guarded PROVE Guard(s)'
  <2>1. Guard(s) /\ s \in Signals
    BY DEF IInv, Guarded, Signals
  <2>2. Passed(s)' = Passed(s) \ {t} /\ (s = signal[t] <=> t \in Passed(s))
    BY <1>1, <1>2 DEF Types, Passed
  <2>3. CASE s = signal[t]
    <3>1. s \in initialised' /\ Passed(s)' = {}
      BY <1>1, <2>1, <2>2, <2>3 DEF Guard
    <3> QED BY <3>1 DEF Guard
  <2>4. CASE s # signal[t]
    <3>1. provider'[s] = provider[s] /\ initialised' = initialised /\ Passed(s)' = Passed(s)
      BY <1>1, <2>1, <2>2, <2>4 DEF Types
    <3> QED BY <2>1, <3>1 DEF Guard
  <2> QED BY <2>3, <2>4
<1> QED BY <1>3, <1>4, <1>5, <1>6 DEF IInv

LEMMA AfterInstallIInv ==
    ASSUME IInv, NEW t \in Tasks, Propagate(t) \/ Spawn(t)
    PROVE  IInv'
<1>1. Types /\ Course(t) /\ call[t] \in 0 .. MaxCalls /\ signal[t] \in Signals /\ MaxCalls \in Nat
  BY CallsAssumption DEF IInv, Types
<1>2. CASE Propagate(t)
  <2>1. /\ pc[t] = "propagate" /\ pc' = [pc EXCEPT ![t] = "idle"]
        /\ UNCHANGED <<signal, call, cfg, initialised, provider, threads, calls>>
    BY <1>2 DEF Propagate, Goto
  <2>2. Types' /\ Course(t)'
    BY <1>1, <2>1 DEF Types, Course, Steps
  <2>3. ThreadsKeep(t)
    BY <2>1 DEF ThreadsKeep, Installs
  <2>4. OthersStay(t) /\ GuardPasses(t)
    BY <1>1, <2>1 DEF OthersStay, GuardPasses, Types
  <2> QED BY <2>1, <2>2, <2>3, <2>4, StepKeeps
<1>3. CASE Spawn(t)
  <2> DEFINE new == [call |-> call[t], signal |-> "profiling", stack |-> "own"]
  <2>1. /\ pc[t] = "spawn" /\ pc' = [pc EXCEPT ![t] = "idle"]
        /\ threads' = threads \cup {new}
        /\ UNCHANGED <<signal, call, cfg, initialised, provider, propagator, calls>>
    BY <1>3 DEF Spawn, Goto
  <2>2. new \in Threads /\ new.signal = "profiling"
    BY <1>1, <2>1 DEF Course, Threads, Signals
  <2> HIDE DEF new
  <2>3. Types' /\ Course(t)'
    BY <1>1, <2>1, <2>2 DEF Types, Course, Steps
  <2>4. ASSUME NEW u \in Tasks PROVE Course(u)'
    <3>1. CASE u # t
      BY <1>1, <2>1, <3>1 DEF IInv, Types, Course
    <3> QED BY <2>3, <3>1
  <2>5. ASSUME NEW th \in threads' PROVE Owned(th)'
    <3>1. CASE th = new
      BY <2>2, <3>1 DEF Owned
    <3>2. CASE th \in threads
      <4>1. Owned(th)
        BY <3>2 DEF IInv
      <4>2. ASSUME NEW u \in Tasks, Installs(u, th) PROVE Installs(u, th)'
        BY <1>1, <2>1, <4>2 DEF Installs, Types
      <4> QED BY <2>1, <4>1, <4>2 DEF Owned
    <3> QED BY <2>1, <2>5, <3>1, <3>2
  <2>6. ASSUME NEW s \in Guarded PROVE Guard(s)'
    <3>1. Guard(s)
      BY DEF IInv
    <3>2. Passed(s)' = Passed(s)
      BY <1>1, <2>1 DEF Types, Passed
    <3> QED BY <2>1, <3>1, <3>2 DEF Guard
  <2> QED BY <2>3, <2>4, <2>5, <2>6 DEF IInv
<1> QED BY <1>2, <1>3

LEMMA NextIInv == IInv /\ [Next]_vars => IInv'
<1> SUFFICES ASSUME IInv, [Next]_vars PROVE IInv'
  OBVIOUS
<1>1. ASSUME NEW t \in Tasks, NEW c \in Calls, Call(t, c[1], Made(c[2])) PROVE IInv'
  BY <1>1, CallIInv
<1>2. ASSUME NEW t \in Tasks, Setup(t) PROVE IInv'
  BY <1>2, PrepareIInv, GuardIInv, InstallIInv, AfterInstallIInv DEF Setup
<1>3. CASE UNCHANGED vars
  BY <1>3 DEF vars, IInv, Types, Course, Owned, Installs, Guard, Passed
<1> QED BY <1>1, <1>2, <1>3 DEF Next

-----------------------------------------------------------------------------
\* Whose each export thread is, and who may install, while setup calls overlap.
THEOREM Inductive == Spec => []IInv
<1>1. Init => IInv
  BY InitIInv
<1>2. IInv /\ [Next]_vars => IInv'
  BY NextIInv
<1> QED BY <1>1, <1>2, PTL DEF Spec

\* The first call that passes the guard of tracing or logs installs, and no other.
LEMMA GuardedStay ==
    ASSUME IInv, Next, NEW s \in {"tracing", "logs"}, provider[s] # 0
    PROVE  provider'[s] = provider[s]
<1>1. ASSUME NEW t \in Tasks, Install(t) PROVE provider'[s] = provider[s]
  <2>0. s \in Guarded /\ s \in Signals
    BY DEF Guarded, Signals
  <2>1. Guard(s) /\ provider \in [Signals -> 0 .. MaxCalls]
    BY <2>0 DEF IInv, Types
  <2>2. signal[t] # s
    BY <1>1, <2>1 DEF Guard, Passed, Install
  <2> QED BY <1>1, <2>0, <2>1, <2>2 DEF Install
<1>2. ASSUME NEW t \in Tasks, Setup(t), ~Install(t) PROVE provider' = provider
  BY <1>2 DEF Setup, Configure, Construct, Restore, Exchange, Check, Start, Propagate, Spawn
<1>3. ASSUME NEW t \in Tasks, NEW c \in Calls, Call(t, c[1], Made(c[2])) PROVE provider' = provider
  BY <1>3 DEF Call
<1> QED BY <1>1, <1>2, <1>3 DEF Next

\* Behind the guard of profiling a later call finds `started' set.
LEMMA ProfilingStays ==
    ASSUME IInv, Next, ProfilingSettled
    PROVE  ProfilingSettled' /\ provider'["profiling"] = provider["profiling"]
<1> DEFINE Outside(t) == signal[t] = "profiling" => pc[t] \notin {"start", "install"}
<1>1. \A t \in Tasks : Outside(t) /\ Course(t)
  BY DEF ProfilingSettled, IInv
<1>2. Types /\ "profiling" \in initialised
  BY DEF ProfilingSettled, IInv
<1>3. ASSUME NEW t \in Tasks, NEW c \in Calls, Call(t, c[1], Made(c[2]))
      PROVE  /\ "profiling" \in initialised' /\ provider' = provider
             /\ \A u \in Tasks : Outside(u)'
  <2>1. /\ pc[t] = "idle" /\ initialised' = initialised /\ provider' = provider
        /\ \E step \in {"idle", "exchange", "check", "configure"} : pc' = [pc EXCEPT ![t] = step]
    <3>1. pc = [pc EXCEPT ![t] = "idle"]
      BY <1>2, <1>3 DEF Types, Call
    <3>2. Made(c[2]) \in {"nothing", "processor", "exporter"}
      BY CallsAssumption DEF Made
    <3> QED BY <1>3, <3>1, <3>2 DEF Call, Goto
  <2>2. signal' = [signal EXCEPT ![t] = c[1]]
    BY <1>3 DEF Call
  <2> QED BY <1>1, <1>2, <2>1, <2>2 DEF Types
<1>4. ASSUME NEW t \in Tasks, Setup(t)
      PROVE  /\ "profiling" \in initialised' /\ provider'["profiling"] = provider["profiling"]
             /\ \A u \in Tasks : Outside(u)'
  <2>1. Outside(t) /\ Course(t) /\ signal' = signal
    BY <1>1, <1>4 DEF Setup, Configure, Construct, Restore, Exchange, Check, Start, Install,
                      Propagate, Spawn
  <2>2. PICK step : pc' = [pc EXCEPT ![t] = step]
    BY <1>4 DEF Setup, Configure, Construct, Restore, AfterConstruct, Exchange, Check, Start,
                Install, Propagate, Spawn, Goto
  <2>3. signal[t] = "profiling" => pc'[t] \notin {"start", "install"}
    <3>1. CASE Configure(t) \/ Construct(t) \/ Restore(t) \/ Exchange(t)
      BY <2>1, <3>1 DEF Configure, Construct, Restore, Exchange, Course
    <3>2. CASE Check(t)
      BY <1>2, <3>2 DEF Check, Goto, Types
    <3>3. CASE Start(t) \/ Install(t)
      BY <2>1, <3>3 DEF Start, Install
    <3>4. CASE Propagate(t) \/ Spawn(t)
      BY <1>2, <3>4 DEF Propagate, Spawn, Goto, Types
    <3> QED BY <1>4, <3>1, <3>2, <3>3, <3>4 DEF Setup
  <2>4. \A u \in Tasks : Outside(u)'
    BY <1>1, <1>2, <2>1, <2>2, <2>3 DEF Types
  <2>5. "profiling" \in initialised'
    BY <1>2, <1>4 DEF Setup, Configure, Construct, Restore, Exchange, Check, Start, Install,
                      Propagate, Spawn
  <2>6. provider'["profiling"] = provider["profiling"]
    <3>1. CASE Install(t)
      BY <1>2, <2>1, <3>1 DEF Install, Types, Signals
    <3>2. CASE ~Install(t)
      BY <1>4, <3>2 DEF Setup, Configure, Construct, Restore, Exchange, Check, Start,
                        Propagate, Spawn
    <3> QED BY <3>1, <3>2
  <2> QED BY <2>4, <2>5, <2>6
<1>5. /\ "profiling" \in initialised' /\ provider'["profiling"] = provider["profiling"]
      /\ \A u \in Tasks : Outside(u)'
  BY <1>3, <1>4 DEF Next
<1> QED BY <1>5 DEF ProfilingSettled

\* "Subsequent calls are ignored", however the calls overlap; of profiling, the
\* calls that come later than the guard.
THEOREM FirstStays == Spec => FirstInstallationStays
<1> DEFINE Stays ==
        /\ \A s \in {"tracing", "logs"} : provider[s] # 0 => provider'[s] = provider[s]
        /\ ProfilingSettled =>
               ProfilingSettled' /\ provider'["profiling"] = provider["profiling"]
<1>1. IInv /\ [Next]_vars => [Stays]_vars
  BY GuardedStay, ProfilingStays
<1> QED BY <1>1, Inductive, PTL DEF Spec, FirstInstallationStays

\* Neither the loser of an exchange nor a provider that is replaced leaves its
\* thread behind.
THEOREM ThreadsAreOwned == Spec => []NoThreadIsOrphaned
<1>1. IInv => NoThreadIsOrphaned
  <2> SUFFICES ASSUME IInv PROVE NoThreadIsOrphaned
    OBVIOUS
  <2>1. TypeOK
    BY DEF IInv, Types, TypeOK, Steps, Threads
  <2>2. ASSUME NEW s \in {"tracing", "logs", "metrics"},
               \A t \in Tasks : pc[t] = "idle" \/ signal[t] # s,
               NEW th \in threads, th.signal = s
        PROVE  th.call = provider[s]
    <3>1. \A t \in Tasks : ~Installs(t, th)
      BY <2>2 DEF Installs
    <3> QED BY <2>2, <3>1 DEF IInv, Owned
  <2> QED BY <2>1, <2>2 DEF NoThreadIsOrphaned
<1> QED BY <1>1, Inductive, PTL

\* ScopedExportThreadConfig: an exporter's thread has the large stack, and the
\* calling task's configuration is as before when its setup call returns.
THEOREM LargeStacks == Spec => []OnlyExportThreadsAreLarge
<1>1. IInv => OnlyExportThreadsAreLarge
  BY DEF IInv, Owned, Course, OnlyExportThreadsAreLarge
<1> QED BY <1>1, Inductive, PTL
=============================================================================
