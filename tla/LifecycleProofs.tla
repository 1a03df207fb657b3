--------------------------- MODULE LifecycleProofs ---------------------------
(***************************************************************************)
(* Proofs about Lifecycle, for every set of command lines, calls and       *)
(* requests.  TypeOK carries the order of main: what may run where.  Each  *)
(* of the other invariants is inductive on top of it.                      *)
(***************************************************************************)
EXTENDS Lifecycle, TLAPS

\* The places of main, for the steps that only move it.
USE DEF Configuring, Running, Stopping, Draining, Keys, Values,
        Address, Delay, Chains, Limit, Tokens

\* The initial states are well typed.
LEMMA InitTypeOK == Init => TypeOK
  BY DEF Init, TypeOK

\* Ending the process leaves it in a state of the right types.
LEMMA EndTypeOK ==
  ASSUME TypeOK, NEW how, End(how) PROVE TypeOK'
  BY DEF TypeOK, End, store

\* Reading the flags keeps the types.
LEMMA ConfigureTypeOK ==
  ASSUME TypeOK, Configure PROVE TypeOK'
<1>1. CASE StoreKey
  <2>1. credentials' = [k \in Keys |-> credentials'[k]] /\ UNCHANGED config
    BY <1>1 DEF StoreKey, TypeOK
  <2> QED BY <1>1, <2>1 DEF StoreKey, NextKey, Goto, TypeOK, servers
<1>2. CASE RefuseKey \/ RejectValue \/ ReadConfigurationError
  BY <1>2, EndTypeOK DEF RefuseKey, RejectValue, ReadConfigurationError
<1>3. CASE StoreValue
  <2>1. config' = [v \in Values |-> config'[v]] /\ UNCHANGED credentials
    BY <1>3 DEF StoreValue, TypeOK
  <2> QED BY <1>3, <2>1 DEF StoreValue, NextValue, Goto, TypeOK, servers
<1>4. CASE SkipValue
  BY <1>4 DEF SkipValue, NextValue, Goto, TypeOK, servers, store
<1>5. CASE ReadConfiguration
  BY <1>5 DEF ReadConfiguration, Goto, TypeOK, servers, store
<1> QED BY <1>1, <1>2, <1>3, <1>4, <1>5 DEF Configure

\* Starting the servers and the tasks keeps the types.
LEMMA StartTypeOK ==
  ASSUME TypeOK, Start PROVE TypeOK'
<1>1. CASE NewSchedulerFatal \/ ReporterPanics \/ NewTransparentProxyFatal
  BY <1>1, EndTypeOK DEF NewSchedulerFatal, ReporterPanics, NewTransparentProxyFatal
<1>2. CASE StartScheduler \/ NewPrometheusReporter
  BY <1>2 DEF StartScheduler, NewPrometheusReporter, Goto, TypeOK, servers, store
<1>3. CASE StartGrpc
  BY <1>3 DEF StartGrpc, Goto, TypeOK, store
<1>4. CASE StartHttp
  BY <1>4 DEF StartHttp, Goto, TypeOK, store
<1> QED BY <1>1, <1>2, <1>3, <1>4 DEF Start

\* The steps of a shutdown keep the types.
LEMMA StopTypeOK ==
  ASSUME TypeOK, Stop PROVE TypeOK'
<1>1. CASE Return
  BY <1>1, EndTypeOK DEF Return
<1>2. CASE StopJobs \/ WaitForTasks
  BY <1>2 DEF StopJobs, WaitForTasks, Goto, TypeOK, servers, store
<1>3. CASE GracefulStop \/ Shutdown
  BY <1>3 DEF GracefulStop, Shutdown, Goto, TypeOK, servers, store
<1> QED BY <1>1, <1>2, <1>3 DEF Stop

\* The steps of a running process keep the types.
LEMMA RunTypeOK ==
  ASSUME TypeOK, Servers \/ Task \/ Clients PROVE TypeOK'
<1>1. CASE GrpcFatal \/ HttpFatal
  BY <1>1, EndTypeOK DEF GrpcFatal, HttpFatal
<1>2. CASE ServeGrpc
  BY <1>2 DEF ServeGrpc, TypeOK, mainVars, store
<1>3. CASE ListenAndServe
  BY <1>3 DEF ListenAndServe, TypeOK, mainVars, store
<1>4. CASE Task
  BY <1>4 DEF Task, TaskStart, TaskCounts, TaskEnd, TypeOK, mainVars, servers, store
<1>5. ASSUME NEW c \in Calls, OpenCall(c) \/ CloseCall(c) PROVE TypeOK'
  BY <1>5 DEF OpenCall, CloseCall, TypeOK, mainVars, store
<1>6. ASSUME NEW r \in Requests, OpenRequest(r) PROVE TypeOK'
  BY <1>6 DEF OpenRequest, TypeOK, mainVars, store
<1>7. ASSUME NEW r \in Requests, HandleRequest(r) \/ GetHealth(r) PROVE TypeOK'
  BY <1>7 DEF HandleRequest, GetHealth, Answer, TypeOK, mainVars, store
<1> QED BY <1>1, <1>2, <1>3, <1>4, <1>5, <1>6, <1>7 DEF Servers, Clients

\* Every step keeps the types and main's order.
LEMMA NextTypeOK ==
  ASSUME TypeOK, [Next]_vars PROVE TypeOK'
<1>1. ASSUME NEW f \in CommandLines, Boot(f) PROVE TypeOK'
  BY <1>1 DEF Boot, Goto, TypeOK, servers
<1>2. CASE Crash
  BY <1>2, EndTypeOK DEF Crash
<1>3. CASE Signal
  BY <1>3 DEF Signal, Goto, TypeOK, servers, store
<1>4. CASE UNCHANGED vars
  BY <1>4 DEF vars, TypeOK
<1> QED BY <1>1, <1>2, <1>3, <1>4, ConfigureTypeOK, StartTypeOK, StopTypeOK,
           RunTypeOK DEF Next

\* Type correctness: over any sequence of boots with any flags, nothing runs in
\* a process that is still configuring, and the servers start and stop in main's
\* order (main.go:28-314).
THEOREM TypeCorrect == Spec => []TypeOK
  BY InitTypeOK, NextTypeOK, PTL DEF Spec
-----------------------------------------------------------------------------
(* The keys *)

\* The keys before main's step are already those of this command line, and
\* from the values on all four are.
Keyed ==
    /\ main = "keys" => \A k \in Keys : k < step => credentials[k] = flags.keys[k]
    /\ main \notin {"down", "keys"} => credentials = flags.keys

\* Every step preserves the key's invariant.
LEMMA KeyedStep ==
  ASSUME TypeOK, Keyed, [Next]_vars PROVE Keyed'
<1> USE DEF Keyed
<1>1. CASE StoreKey
  <2>1. /\ credentials' = [credentials EXCEPT ![step] = flags.keys[step]]
        /\ flags' = flags /\ step \in Keys /\ NextKey
    BY <1>1 DEF StoreKey, NextKey, Goto, TypeOK
  <2>2. \A k \in Keys : k <= step => credentials'[k] = flags'.keys[k]
    BY <1>1, <2>1 DEF TypeOK, StoreKey, NextKey, Goto
  <2>3. CASE step < 4
    BY <2>1, <2>2, <2>3 DEF NextKey, Goto
  <2>4. CASE ~(step < 4)
    <3>1. credentials' = [k \in Keys |-> credentials'[k]]
      BY <2>1 DEF TypeOK
    <3>2. flags'.keys = [k \in Keys |-> flags'.keys[k]]
      BY <2>1, CommandLinesAssumption DEF TypeOK
    <3>3. \A k \in Keys : credentials'[k] = flags'.keys[k]
      BY <2>1, <2>2, <2>4
    <3>4. credentials' = flags'.keys
      BY <3>1, <3>2, <3>3
    <3> QED BY <2>1, <2>4, <3>4 DEF NextKey, Goto
  <2> QED BY <2>3, <2>4
<1>2. ASSUME NEW f \in CommandLines, Boot(f) PROVE Keyed'
  BY <1>2 DEF Boot, Goto
<1>3. ASSUME NEW how, End(how) PROVE Keyed'
  BY <1>3 DEF End
<1>4. CASE StoreValue \/ SkipValue
  BY <1>4 DEF StoreValue, SkipValue, NextValue, Goto, store
<1>5. CASE ReadConfiguration \/ StartScheduler \/ NewPrometheusReporter \/ StartGrpc
             \/ StartHttp \/ Signal
  BY <1>5 DEF ReadConfiguration, StartScheduler, NewPrometheusReporter, StartGrpc,
              StartHttp, Signal, Goto, store
<1>6. CASE StopJobs \/ WaitForTasks \/ GracefulStop \/ Shutdown
  BY <1>6 DEF StopJobs, WaitForTasks, GracefulStop, Shutdown, Goto, store
<1>7. CASE ServeGrpc \/ ListenAndServe \/ Task \/ Clients \/ UNCHANGED vars
  BY <1>7 DEF ServeGrpc, ListenAndServe, Task, TaskStart, TaskCounts, TaskEnd, Clients,
              OpenCall, CloseCall, OpenRequest, HandleRequest, GetHealth, Answer,
              mainVars, store, vars
<1> QED
  BY <1>1, <1>2, <1>3, <1>4, <1>5, <1>6, <1>7
  DEF Next, Configure, Start, Stop, Servers, Crash, RefuseKey, RejectValue,
      ReadConfigurationError, NewSchedulerFatal, ReporterPanics,
      NewTransparentProxyFatal, GrpcFatal, HttpFatal, Return

\* No task runs and no server serves but under the four keys of this boot's
\* command line, whatever earlier boots left half replaced (main.go:71-105).
THEOREM ServesOnlyCompleteHolds == Spec => []ServesOnlyComplete
<1>1. Init => Keyed
  BY DEF Init, Keyed
<1>2. TypeOK /\ Keyed => ServesOnlyComplete
  BY DEF TypeOK, Keyed, ServesOnlyComplete
<1> QED BY <1>1, <1>2, KeyedStep, TypeCorrect, PTL DEF Spec

-----------------------------------------------------------------------------
(* The configuration *)

\* Every step keeps the stored configuration parseable.
LEMMA StoredConfigParsesStep ==
  ASSUME TypeOK, StoredConfigParses, [Next]_vars PROVE StoredConfigParses'
<1> USE DEF StoredConfigParses
<1>1. ASSUME NEW f \in CommandLines, Boot(f) PROVE StoredConfigParses'
  BY <1>1, DefaultsAssumption, MarksAssumption DEF Boot, Goto, TypeOK
<1>2. ASSUME NEW how, End(how) PROVE StoredConfigParses'
  BY <1>2 DEF End, store
<1>3. CASE StoreValue
  <2>1. /\ main = "values" /\ step \in Values /\ ~Rejected(step) /\ Given(step)
        /\ config' \in {config, [config EXCEPT ![step] = Kept(step)]}
    BY <1>3 DEF StoreValue, NextValue, Goto, TypeOK
  <2>2. CASE config' = config
    BY <2>1, <2>2
  <2>3. CASE config' = [config EXCEPT ![step] = Kept(step)]
    <3>1. CASE step = Chains
      <4>1. Kept(step) = {c \in flags.values[Chains] : c[2] # Bad}
        BY <3>1 DEF Kept
      <4>2. Kept(step) # Unset /\ Kept(step) # {}
        BY <2>1, <3>1, <4>1, CommandLinesAssumption DEF TypeOK, Given
      <4>3. \A c \in Kept(step) : c[2] # Bad
        BY <4>1
      <4> QED BY <2>1, <2>3, <3>1, <4>2, <4>3 DEF TypeOK
    <3>2. CASE step # Chains
      <4>1. Kept(step) = flags.values[step] /\ flags.values[step] # Unset
        BY <2>1, <3>2, CommandLinesAssumption DEF Kept, TypeOK
      <4>2. step \in {Delay, Limit, Tokens} => Kept(step) # Bad
        BY <2>1, <4>1 DEF Rejected
      <4> QED BY <2>1, <2>3, <3>2, <4>1, <4>2 DEF TypeOK
    <3> QED BY <3>1, <3>2
  <2> QED BY <2>1, <2>2, <2>3
<1>4. CASE StoreKey
  BY <1>4 DEF StoreKey, NextKey, Goto
<1>5. CASE SkipValue
  BY <1>5 DEF SkipValue, NextValue, Goto, store
<1>6. CASE ReadConfiguration \/ StartScheduler \/ NewPrometheusReporter \/ StartGrpc
             \/ StartHttp \/ Signal
  BY <1>6 DEF ReadConfiguration, StartScheduler, NewPrometheusReporter, StartGrpc,
              StartHttp, Signal, Goto, store
<1>7. CASE StopJobs \/ WaitForTasks \/ GracefulStop \/ Shutdown
  BY <1>7 DEF StopJobs, WaitForTasks, GracefulStop, Shutdown, Goto, store
<1>8. CASE ServeGrpc \/ ListenAndServe \/ Task \/ Clients \/ UNCHANGED vars
  BY <1>8 DEF ServeGrpc, ListenAndServe, Task, TaskStart, TaskCounts, TaskEnd, Clients,
              OpenCall, CloseCall, OpenRequest, HandleRequest, GetHealth, Answer,
              mainVars, store, vars
<1> QED
  BY <1>1, <1>2, <1>3, <1>4, <1>5, <1>6, <1>7, <1>8
  DEF Next, Configure, Start, Stop, Servers, Crash, RefuseKey, RejectValue,
      ReadConfigurationError, NewSchedulerFatal, ReporterPanics,
      NewTransparentProxyFatal, GrpcFatal, HttpFatal, Return

\* The stored configuration parses, after any boots with any flags, complete or
\* given up half way (main.go:115-168).
THEOREM StoredConfigParsesHolds == Spec => []StoredConfigParses
<1>1. Init => StoredConfigParses
  BY MarksAssumption DEF Init, StoredConfigParses
<1> QED BY <1>1, StoredConfigParsesStep, TypeCorrect, PTL DEF Spec

-----------------------------------------------------------------------------
(* The exit *)

\* Once main is past StopJobs no task is between its check and the wait group,
\* and past the wait group there is none.
TasksOver ==
    /\ main \in {"tasks", "calls", "http", "exit"} => task # "checked"
    /\ main \in {"calls", "http", "exit"} => task = "idle"

\* Every step preserves the order of the shutdown.
LEMMA TasksOverStep ==
  ASSUME TypeOK, TasksOver, [Next]_vars PROVE TasksOver'
<1> USE DEF TasksOver
<1>1. ASSUME NEW f \in CommandLines, Boot(f) PROVE TasksOver'
  BY <1>1 DEF Boot, Goto
<1>2. ASSUME NEW how, End(how) PROVE TasksOver'
  BY <1>2 DEF End
<1>3. CASE StoreKey \/ StoreValue \/ SkipValue
  BY <1>3 DEF StoreKey, StoreValue, SkipValue, NextKey, NextValue, Goto
<1>4. CASE ReadConfiguration \/ StartScheduler \/ NewPrometheusReporter \/ StartGrpc
             \/ StartHttp \/ Signal
  BY <1>4 DEF ReadConfiguration, StartScheduler, NewPrometheusReporter, StartGrpc,
              StartHttp, Signal, Goto
<1>5. CASE StopJobs \/ WaitForTasks \/ GracefulStop \/ Shutdown
  BY <1>5 DEF StopJobs, WaitForTasks, GracefulStop, Shutdown, Goto, TypeOK
<1>6. CASE Task
  BY <1>6 DEF Task, TaskStart, TaskCounts, TaskEnd, mainVars, TypeOK
<1>7. CASE ServeGrpc \/ ListenAndServe \/ Clients \/ UNCHANGED vars
  BY <1>7 DEF ServeGrpc, ListenAndServe, Clients, OpenCall, CloseCall, OpenRequest,
              HandleRequest, GetHealth, Answer, mainVars, vars
<1> QED
  BY <1>1, <1>2, <1>3, <1>4, <1>5, <1>6, <1>7
  DEF Next, Configure, Start, Stop, Servers, Crash, RefuseKey, RejectValue,
      ReadConfigurationError, NewSchedulerFatal, ReporterPanics,
      NewTransparentProxyFatal, GrpcFatal, HttpFatal, Return

\* The order of the shutdown holds in every reachable state.
LEMMA TasksOverHolds == Spec => []TasksOver
<1>1. Init => TasksOver
  BY DEF Init, TasksOver
<1> QED BY <1>1, TasksOverStep, TypeCorrect, PTL DEF Spec

\* A process that ends in order cuts off neither a run of the scheduler nor a
\* gRPC call (main.go:291-298, schedule.go:61).
THEOREM OrderlyExitCutsNothingHolds == Spec => OrderlyExitCutsNothing
<1>1. ASSUME NEW how, End(how), outcome' = "orderly" PROVE how = "orderly"
  BY <1>1 DEF End
<1>2. TypeOK /\ TasksOver /\ [Next]_vars
        => (outcome' # outcome /\ outcome' = "orderly" => task = "idle" /\ calls = {})
  <2> SUFFICES ASSUME TypeOK, TasksOver, [Next]_vars,
                      outcome' # outcome, outcome' = "orderly"
               PROVE  task = "idle" /\ calls = {}
    OBVIOUS
  <2>1. CASE Return
    BY <2>1 DEF Return, TypeOK, TasksOver
  <2>2. CASE Configure
    BY <2>2 DEF Configure, StoreKey, RefuseKey, StoreValue, SkipValue, RejectValue,
                ReadConfiguration, ReadConfigurationError, End
  <2>3. CASE Start
    BY <2>3 DEF Start, StartScheduler, NewSchedulerFatal, NewPrometheusReporter, ReporterPanics,
                StartGrpc, NewTransparentProxyFatal, StartHttp, End
  <2>4. CASE Servers \/ Crash \/ Signal
    BY <2>4 DEF Servers, ServeGrpc, GrpcFatal, ListenAndServe, HttpFatal, Crash,
                Signal, End
  <2>5. CASE StopJobs \/ WaitForTasks \/ GracefulStop \/ Shutdown
    BY <2>5 DEF StopJobs, WaitForTasks, GracefulStop, Shutdown
  <2>6. CASE Task \/ Clients \/ UNCHANGED vars
    BY <2>6 DEF Task, TaskStart, TaskCounts, TaskEnd, Clients, OpenCall, CloseCall,
                OpenRequest, HandleRequest, GetHealth, Answer, vars
  <2>7. ASSUME NEW f \in CommandLines, Boot(f) PROVE FALSE
    BY <2>7 DEF Boot
  <2> QED BY <2>1, <2>2, <2>3, <2>4, <2>5, <2>6, <2>7 DEF Next, Stop
<1> QED
  BY <1>2, TypeCorrect, TasksOverHolds, PTL DEF Spec, OrderlyExitCutsNothing

-----------------------------------------------------------------------------
(* The life the other modules assume *)

\* The initial states map to initial states of the abstract life.
LEMMA InitLife == Init => Process!PInit
  BY DEF Init, Process!PInit, Life

\* Every death is one of a running process, or of one that is down to the others.
LEMMA EndIsDeath ==
  ASSUME TypeOK, main # "down", NEW how, End(how)
  PROVE  Process!Die \/ UNCHANGED Process!lifeVars
  BY DEF TypeOK, End, Process!Die, Process!Down, Process!lifeVars, Life, store

\* Every step maps to a step of the abstract life or to a stutter.
LEMMA LifeStep ==
  ASSUME TypeOK, TasksOver, [Next]_vars PROVE [Process!PNext]_(Process!lifeVars)
<1> USE DEF Life, Process!lifeVars
<1>1. ASSUME NEW f \in CommandLines, Boot(f)
      PROVE Process!Configure
  BY <1>1 DEF Boot, Goto, servers, Process!Configure
<1>2. CASE StoreKey \/ StoreValue \/ SkipValue
  BY <1>2 DEF StoreKey, StoreValue, SkipValue, NextKey, NextValue, Goto, servers,
              Process!PNext, Process!Configure
<1>3. CASE ReadConfiguration \/ NewPrometheusReporter
  BY <1>3 DEF ReadConfiguration, NewPrometheusReporter, Goto, servers, store
<1>4. CASE StartScheduler
  BY <1>4 DEF StartScheduler, Goto, servers, store, Process!PNext, Process!Start
<1>5. CASE StartGrpc \/ StartHttp
  BY <1>5 DEF StartGrpc, StartHttp, Goto, store
<1>6. CASE Signal
  BY <1>6 DEF Signal, Goto, servers, store, Process!PNext, Process!Cancel
<1>7. CASE StopJobs \/ WaitForTasks \/ GracefulStop \/ Shutdown
  BY <1>7 DEF StopJobs, WaitForTasks, GracefulStop, Shutdown, Goto, servers, store
<1>8. CASE Return
  BY <1>8 DEF Return, End, TypeOK, TasksOver, store, Process!PNext, Process!Exit,
              Process!Down
<1>9. CASE TaskStart
  BY <1>9 DEF TaskStart, mainVars, servers, store, Process!PNext, Process!Work
<1>10. CASE TaskCounts
  BY <1>10 DEF TaskCounts, mainVars, servers, store
<1>11. CASE TaskEnd
  BY <1>11 DEF TaskEnd, mainVars, servers, store, Process!PNext, Process!Rest
<1>12. CASE ServeGrpc \/ ListenAndServe
  BY <1>12 DEF ServeGrpc, ListenAndServe, mainVars, store
<1>13. ASSUME NEW c \in Calls, OpenCall(c) \/ CloseCall(c)
       PROVE UNCHANGED Process!lifeVars
  BY <1>13 DEF OpenCall, CloseCall, mainVars, store
<1>14. ASSUME NEW r \in Requests, OpenRequest(r) \/ HandleRequest(r)
       PROVE UNCHANGED Process!lifeVars
  BY <1>14 DEF OpenRequest, HandleRequest, Answer, mainVars, store
<1>15. ASSUME NEW r \in Requests, GetHealth(r) PROVE Process!Probe
  <2>1. main \in {"wait"} \cup Stopping
    BY <1>15 DEF GetHealth, Answer, TypeOK
  <2> QED BY <1>15, <2>1 DEF GetHealth, Answer, mainVars, store, Process!Probe
<1>16. CASE Crash \/ RefuseKey \/ RejectValue \/ ReadConfigurationError
            \/ NewSchedulerFatal \/ ReporterPanics \/ NewTransparentProxyFatal
            \/ GrpcFatal \/ HttpFatal
  <2>1. \E how : End(how)
    BY <1>16 DEF Crash, RefuseKey, RejectValue, ReadConfigurationError,
                 NewSchedulerFatal, ReporterPanics, NewTransparentProxyFatal,
                 GrpcFatal, HttpFatal
  <2>2. main # "down"
    BY <1>16 DEF Crash, RefuseKey, RejectValue, ReadConfigurationError,
                 NewSchedulerFatal, ReporterPanics, NewTransparentProxyFatal,
                 GrpcFatal, HttpFatal, TypeOK
  <2> QED BY <2>1, <2>2, EndIsDeath DEF Process!PNext
<1>17. CASE UNCHANGED vars
  BY <1>17 DEF vars
<1> QED
  BY <1>1, <1>2, <1>3, <1>4, <1>5, <1>6, <1>7, <1>8, <1>9, <1>10, <1>11, <1>12,
     <1>13, <1>14, <1>15, <1>16, <1>17
  DEF Next, Configure, Start, Stop, Servers, Task, Clients, Process!PNext

\* main, its goroutines and /health implement the life of the process that the
\* other modules take for granted (main.go:107-314, health/api.go:20-39).
THEOREM Implementation == Spec => ProcessLifeSpec
  BY InitLife, LifeStep, TypeCorrect, TasksOverHolds, PTL
  DEF Spec, ProcessLifeSpec, Process!PSpec
=============================================================================
