------------------------------ MODULE Lifecycle ------------------------------
(***************************************************************************)
(* main, from the command line to the exit, boot after boot over the same  *)
(* database: what each boot writes over the stored credentials and         *)
(* configuration before anything runs, the order in which scheduler,       *)
(* reporter and servers start, and the order in which they are stopped.    *)
(* The servers' goroutines and the scheduler's task run beside main; a     *)
(* log.Fatalf in one of them, or a panic, ends the process wherever main   *)
(* is.                                                                     *)
(***************************************************************************)
EXTENDS Integers

CONSTANTS
    Calls,          \* gRPC calls a client may have open
    Endless,        \* those that only their client ends
    Requests,       \* HTTP requests
    CommandLines,   \* the flags of a boot: [keys, values]
    Omitted,        \* an empty flag
    Bad,            \* text that does not parse
    Unset,          \* no row in the table
    DefaultDelay,   \* delay_seconds of a fresh database
    DefaultChains   \* delayed_chains of a fresh database

\* The flags that are hashed and stored as credentials, in main's order:
\* kill switch, restart, data, override.
Keys == 1..4

\* The flags that are stored as configuration, in main's order.  A list of
\* chains is a set of pairs <<position, id>>.
Address == 1
Delay == 2
Chains == 3
Limit == 4
Tokens == 5
Values == 1..5

ASSUME EndlessAssumption == Endless \subseteq Calls
ASSUME CommandLinesAssumption ==
    \A f \in CommandLines :
        /\ f.keys = [k \in Keys |-> f.keys[k]]
        /\ f.values = [v \in Values |-> f.values[v]]
        /\ \A k \in Keys : f.keys[k] # Unset
        /\ \A v \in Values : f.values[v] # Unset
        /\ f.values[Chains] # Omitted =>
             {c \in f.values[Chains] : c[2] # Bad} # Unset
ASSUME DefaultsAssumption ==
    /\ DefaultDelay \notin {Bad, Unset} /\ DefaultChains \notin {{}, Unset}
    /\ \A c \in DefaultChains : c[2] # Bad
ASSUME MarksAssumption == Omitted # Unset /\ Bad # Unset /\ Omitted # Bad

VARIABLES
    credentials,  \* the credentials table
    config,       \* the configuration table
    flags,        \* the command line of the last boot
    main,         \* where main is
    step,         \* the key or value it is at
    chains,       \* the delayed chains main has read for the reporter
    task,         \* the scheduler's task: idle, checked (the context), counted
    grpc,         \* the gRPC server's goroutine: none, starting, serving
    http,         \* the HTTP server's goroutine: none, starting, serving
    calls,        \* the gRPC calls in progress
    requests,     \* the HTTP requests in progress
    health,       \* the last answer of /health
    outcome       \* how the last process ended

store == <<credentials, config>>
mainVars == <<flags, main, step, chains>>
servers == <<grpc, http, calls, requests, health>>
vars == <<credentials, config, flags, main, step, chains, task, grpc, http,
          calls, requests, health, outcome>>

Configuring == {"keys", "values", "read", "scheduler"}
Running == {"reporter", "proxy", "servers", "wait"}
Stopping == {"jobs", "tasks", "calls", "http", "exit"}
Draining == {"calls", "http", "exit"}

Init ==
    /\ credentials = [k \in Keys |-> Unset]
    /\ config = [v \in Values |-> Unset]
    /\ flags \in CommandLines
    /\ main = "down" /\ step = 1 /\ chains = {}
    /\ task = "idle" /\ grpc = "none" /\ http = "none"
    /\ calls = {} /\ requests = {} /\ health = "none"
    /\ outcome = "none"

\* The process ends, and everything in flight with it.
End(how) ==
    /\ main' = "down" /\ outcome' = how
    /\ task' = "idle" /\ grpc' = "none" /\ http' = "none"
    /\ calls' = {} /\ requests' = {} /\ health' = "none"
    /\ UNCHANGED <<store, flags, step, chains>>

Crash == main # "down" /\ End("crash")

\* main goes on to its next part.
Goto(from, to) == main = from /\ main' = to

-----------------------------------------------------------------------------
(* Configuration *)

\* NewSqliteStore, which gives a fresh table its defaults.
Boot(f) ==
    /\ Goto("down", "keys") /\ step' = 1 /\ flags' = f /\ outcome' = "none"
    /\ config' = [v \in Values |->
                    IF config[v] # Unset THEN config[v]
                    ELSE IF v = Delay THEN DefaultDelay
                    ELSE IF v = Chains THEN DefaultChains ELSE Unset]
    /\ UNCHANGED <<credentials, chains, task, servers>>

NextKey ==
    IF step < 4 THEN Goto("keys", "keys") /\ step' = step + 1
                ELSE Goto("keys", "values") /\ step' = 1

StoreKey ==
    /\ NextKey
    /\ flags.keys[step] # Omitted
    /\ credentials' = [credentials EXCEPT ![step] = flags.keys[step]]
    /\ UNCHANGED <<config, flags, chains, task, servers, outcome>>

\* Mutant: a key that could not be stored is only logged, as a value is.
RefuseKeyLogged ==
    /\ NextKey /\ flags.keys[step] # Omitted
    /\ UNCHANGED <<store, flags, chains, task, servers, outcome>>

\* The flag is empty, or it cannot be hashed or stored: main returns, and
\* leaves the keys it has stored so far.
RefuseKey == main = "keys" /\ End("returned")

Rejected(v) == v \in {Delay, Limit, Tokens} /\ flags.values[v] = Bad

\* parseChainIDs drops what does not parse; everything else is kept as given.
Kept(v) ==
    IF v = Chains THEN {c \in flags.values[v] : c[2] # Bad} ELSE flags.values[v]

Given(v) ==
    flags.values[v] # Omitted /\ (v = Chains => Kept(v) # {})

NextValue ==
    IF step < 5 THEN Goto("values", "values") /\ step' = step + 1
                ELSE Goto("values", "read") /\ step' = 1

\* Mutant: the text is stored first and parsed where it is used.
StoreValueUnparsed ==
    /\ NextValue
    /\ Given(step)
    /\ config' = [config EXCEPT ![step] = Kept(step)]
    /\ UNCHANGED <<credentials, flags, chains, task, servers, outcome>>

\* A failed write is only logged and leaves the old value.
StoreValue ==
    /\ NextValue
    /\ Given(step) /\ ~Rejected(step)
    /\ config' \in {config, [config EXCEPT ![step] = Kept(step)]}
    /\ UNCHANGED <<credentials, flags, chains, task, servers, outcome>>

SkipValue ==
    /\ NextValue /\ ~Given(step)
    /\ UNCHANGED <<store, flags, chains, task, servers, outcome>>

RejectValue == main = "values" /\ Rejected(step) /\ End("returned")

-----------------------------------------------------------------------------
(* Start *)

\* The chains of the log line are those of the reporter; without them it goes on.
ReadConfiguration ==
    /\ Goto("read", "scheduler")
    /\ chains' \in {config[Chains], {}}
    /\ UNCHANGED <<store, flags, step, task, servers, outcome>>

ReadConfigurationError == main = "read" /\ End("returned")

StartScheduler ==
    /\ Goto("scheduler", "reporter")
    /\ UNCHANGED <<store, flags, step, chains, task, servers, outcome>>

\* An interval that is not positive: fatal, after all that was stored.
NewSchedulerFatal == main = "scheduler" /\ End("fatal")

Repeated == \E c, d \in chains : c # d /\ c[2] = d[2]

\* A gauge per chain; registering the same name twice panics.
NewPrometheusReporter ==
    /\ Goto("reporter", "proxy") /\ ~Repeated
    /\ UNCHANGED <<store, flags, step, chains, task, servers, outcome>>

ReporterPanics == main = "reporter" /\ Repeated /\ End("panic")

\* With the transparent proxy if there is an address.
StartGrpc ==
    /\ Goto("proxy", "servers") /\ grpc' = "starting"
    /\ UNCHANGED <<store, flags, step, chains, task, http, calls, requests,
                   health, outcome>>

NewTransparentProxyFatal ==
    main = "proxy" /\ flags.values[Address] # Omitted /\ End("fatal")

StartHttp ==
    /\ Goto("servers", "wait") /\ http' = "starting"
    /\ UNCHANGED <<store, flags, step, chains, task, grpc, calls, requests,
                   health, outcome>>

\* Serve, unless GracefulStop came first: then it fails, and that is fatal.
ServeGrpc ==
    /\ grpc = "starting" /\ main \notin Draining
    /\ grpc' = "serving"
    /\ UNCHANGED <<store, mainVars, task, http, calls, requests, health, outcome>>

GrpcFatal == grpc = "starting" /\ End("fatal")

\* ListenAndServe; after Shutdown it returns ErrServerClosed, which is ignored.
ListenAndServe ==
    /\ http = "starting"
    /\ http' = IF main = "exit" THEN "none" ELSE "serving"
    /\ UNCHANGED <<store, mainVars, task, grpc, calls, requests, health, outcome>>

HttpFatal == http = "starting" /\ End("fatal")

-----------------------------------------------------------------------------
(* What runs *)

\* processCertificates looks at the context, and joins the wait group after.
TaskStart ==
    /\ task = "idle" /\ main \in Running
    /\ task' = "checked"
    /\ UNCHANGED <<store, mainVars, servers, outcome>>

TaskCounts ==
    /\ task = "checked" /\ task' = "counted"
    /\ UNCHANGED <<store, mainVars, servers, outcome>>

\* Mutant: an early return skips wg.Done.
TaskNeverDone == FALSE

TaskEnd ==
    /\ task = "counted" /\ task' = "idle"
    /\ UNCHANGED <<store, mainVars, servers, outcome>>

OpenCall(c) ==
    /\ grpc = "serving" /\ main \notin Draining
    /\ calls' = calls \cup {c}
    /\ UNCHANGED <<store, mainVars, task, grpc, http, requests, health, outcome>>

CloseCall(c) ==
    /\ c \in calls
    /\ calls' = calls \ {c}
    /\ UNCHANGED <<store, mainVars, task, grpc, http, requests, health, outcome>>

OpenRequest(r) ==
    /\ http = "serving" /\ main # "exit"
    /\ requests' = requests \cup {r}
    /\ UNCHANGED <<store, mainVars, task, grpc, http, calls, health, outcome>>

Answer(r, says) ==
    /\ r \in requests
    /\ requests' = requests \ {r}
    /\ health' = says
    /\ UNCHANGED <<store, mainVars, task, grpc, http, calls, outcome>>

\* Any other handler; none of them looks at its context.
HandleRequest(r) == Answer(r, health)

\* Mutant: the server has no BaseContext, requests do not see the shutdown.
GetHealthOwnContext(r) == Answer(r, "ok")

\* The request's context comes from the root context.
GetHealth(r) ==
    Answer(r, IF main \in Stopping THEN "unavailable" ELSE "ok")

-----------------------------------------------------------------------------
(* Stop *)

\* The signal; cancel is the next statement.
Signal ==
    /\ Goto("wait", "jobs")
    /\ UNCHANGED <<store, flags, step, chains, task, servers, outcome>>

\* StopJobs starts no more runs and gives a running one ten seconds, in which
\* a task gets from its check to the wait group.
StopJobs ==
    /\ Goto("jobs", "tasks") /\ task # "checked"
    /\ UNCHANGED <<store, flags, step, chains, task, servers, outcome>>

\* Mutant: Stop does not wait for the wait group.
StopWithoutWait ==
    /\ Goto("tasks", "calls")
    /\ UNCHANGED <<store, flags, step, chains, task, servers, outcome>>

WaitForTasks ==
    /\ Goto("tasks", "calls") /\ task # "counted"
    /\ UNCHANGED <<store, flags, step, chains, task, servers, outcome>>

\* Mutant: Stop in the place of GracefulStop.
StopGrpc ==
    /\ Goto("calls", "http")
    /\ UNCHANGED <<store, flags, step, chains, task, servers, outcome>>

GracefulStop ==
    /\ Goto("calls", "http") /\ calls = {}
    /\ UNCHANGED <<store, flags, step, chains, task, servers, outcome>>

\* Its context is derived from the cancelled one: it waits for nothing.
Shutdown ==
    /\ Goto("http", "exit")
    /\ UNCHANGED <<store, flags, step, chains, task, servers, outcome>>

Return == main = "exit" /\ End("orderly")

-----------------------------------------------------------------------------
Configure ==
    \/ StoreKey \/ RefuseKey \/ StoreValue \/ SkipValue \/ RejectValue
    \/ ReadConfiguration \/ ReadConfigurationError

Start ==
    \/ StartScheduler \/ NewSchedulerFatal
    \/ NewPrometheusReporter \/ ReporterPanics
    \/ StartGrpc \/ NewTransparentProxyFatal \/ StartHttp

Stop == StopJobs \/ WaitForTasks \/ GracefulStop \/ Shutdown \/ Return

Servers == ServeGrpc \/ GrpcFatal \/ ListenAndServe \/ HttpFatal

Task == TaskStart \/ TaskCounts \/ TaskEnd

Clients ==
    \/ \E c \in Calls : OpenCall(c) \/ CloseCall(c)
    \/ \E r \in Requests : OpenRequest(r) \/ HandleRequest(r) \/ GetHealth(r)

Next ==
    \/ \E f \in CommandLines : Boot(f)
    \/ Crash \/ Signal \/ Configure \/ Start \/ Stop \/ Servers \/ Task \/ Clients

Spec == Init /\ [][Next]_vars

\* Go runs main and the task on; a call that is not endless comes to its end.
Fairness ==
    /\ WF_vars(Configure) /\ WF_vars(Start) /\ WF_vars(Stop)
    /\ WF_vars(TaskCounts) /\ WF_vars(TaskEnd)
    /\ \A c \in Calls \ Endless : WF_vars(CloseCall(c))

FairSpec == Spec /\ Fairness

-----------------------------------------------------------------------------
(* Properties *)

\* Every variable has its type; nothing runs in a dead or configuring process;
\* a server starts only in its place of the order; no call is open without its
\* server and none is left once main is past GracefulStop.
TypeOK ==
    /\ credentials = [k \in Keys |-> credentials[k]]
    /\ config = [v \in Values |-> config[v]]
    /\ flags \in CommandLines
    /\ main \in {"down"} \cup Configuring \cup Running \cup Stopping
    /\ step \in Values /\ (main = "keys" => step \in Keys)
    /\ task \in {"idle", "checked", "counted"}
    /\ grpc \in {"none", "starting", "serving"}
    /\ http \in {"none", "starting", "serving"}
    /\ calls \subseteq Calls /\ requests \subseteq Requests
    /\ health \in {"none", "ok", "unavailable"}
    /\ task # "idle" => main \in Running \cup Stopping
    /\ grpc # "none" => main \in {"servers", "wait"} \cup Stopping
    /\ http # "none" => main \in {"wait"} \cup Stopping
    /\ calls # {} => grpc = "serving"
    /\ requests # {} => http = "serving"
    /\ health # "none" => http = "serving"
    /\ main \in {"http", "exit"} => calls = {}

\* Whatever earlier boots left half replaced, no task runs and no server serves
\* but with the four keys of this very command line: a boot that cannot store
\* one of them ends before anything starts (main.go:71-105).
ServesOnlyComplete ==
    (task # "idle" \/ grpc # "none" \/ http # "none")
      => credentials = flags.keys

\* What the other parts read from the configuration parses, whatever was given
\* to the boots so far and however they ended: a value is parsed before it is
\* stored, and of the chains only those that parse are, if any
\* (main.go:115-168, 316-327).
StoredConfigParses ==
    /\ \A v \in {Delay, Limit, Tokens} : config[v] # Bad
    /\ config[Chains] # Unset =>
         config[Chains] # {} /\ \A c \in config[Chains] : c[2] # Bad
    /\ main # "down" => config[Delay] # Unset /\ config[Chains] # Unset

\* A process that ends in order cuts off neither a run of the scheduler nor a
\* gRPC call, also one that began while the shutdown did (main.go:291-298,
\* schedule.go:61).
OrderlyExitCutsNothing ==
    [][outcome' # outcome /\ outcome' = "orderly" =>
         task = "idle" /\ calls = {}]_vars

\* What main says of the HTTP server's shutdown: "This will wait for all active
\* HTTP requests to complete" (main.go:301).
OrderlyExitWaitsForRequests ==
    [][outcome' # outcome /\ outcome' = "orderly" => requests = {}]_vars

\* A boot comes to the wait for its signal or ends, and a shutdown ends, unless
\* a call is open that its client never ends: GracefulStop has no deadline
\* (main.go:297), while a task ends and calls end.
NothingElseHolds ==
    []<>(main \in {"down", "wait"} \/ calls \cap Endless # {})

Life ==
    IF main \in Running THEN "running"
    ELSE IF main \in Stopping THEN "stopping" ELSE "down"

Process == INSTANCE ProcessLife WITH
    life <- Life, working <- (task # "idle"), settings <- config, health <- health

\* main's boots and exits are those the other modules assume: the configuration
\* in force never changes under a running process, runs of the scheduler begin
\* only before the signal, an orderly exit waits for them, and /health tells
\* running from stopping (main.go:107-314, health/api.go:20-39).
ProcessLifeSpec == Process!PSpec
=============================================================================
