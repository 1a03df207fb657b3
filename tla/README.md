# TLA+ verification of agg-certificate-proxy

The proxy stands between certificate submitters and an AggLayer node. It
delays suspicious certificates of chosen chains in a SQLite table, sends them
later, lets an operator override the delay of one certificate or stop all
delayed sending (the kill switch), answers header lookups, exports gauges, and
relays every other gRPC call. This directory models its state and control in
TLA+, checks small instances with TLC and proves the main results with TLAPS.

    tlc  -config MCHeaderLookup.cfg MCHeaderLookup   # one run
    tlapm QueueProofs.tla                            # one proof module

Paths below are relative to the repository; `certificate/` is
`src/internal/certificate/`.

## 1. Inventory

| Component | Code | State it keeps | Operations | Modelled in |
|---|---|---|---|---|
| Delayed-certificate queue | `certificate/sqlite.go`, `schedule.go`, `service.go` | tables `certificates`, `scheduler_status`, `delay_seconds`; the running task | store, override, list due, send, mark, stop | `CertQueue`, `HoldAndForward` |
| Kill switch | `certificate/api.go` 401-561 | table `kill_switch_attempts`, `scheduler_status` | kill, restart | `KillSwitch` |
| Submission | `certificate/grpc.go` 48-219 | none of its own; reads the configuration | SubmitCertificate | `Submission`, `SuspiciousValue` |
| Token configuration | `certificate/tokens.go` | text in table `configuration` | ParseTokenValues, ID | `SuspiciousValue` |
| Boot and configuration | `src/cmd/proxy/main.go` 28-204, 316-327 | tables `credentials`, `configuration` | flags overwrite stored values, or end the boot | `Lifecycle`, `ProcessLife` |
| Servers and shutdown | `main.go` 205-314, `schedule.go` 25-75, `src/internal/health` | root context, wait group, two servers | start, serve, signal, stop, health | `Lifecycle`, `ProcessLife` |
| Header lookup | `grpc.go` 229-302 | none | GetCertificateHeader, GetLatestCertificateHeader | `HeaderLookup` |
| Metrics | `src/internal/metrics` | trigger channel (256), gauges | Trigger, ticker, UpdateMetrics | `Metrics` |
| Stream proxy | `proxy.go`, `proxy_handler.go` | two streams, two error channels | relay both ways, select | `StreamRelay`, `DirectCall` |
| JSON loader | `certificate/marshal.go` | none | CertificateFromJSON | `Certificate` |
| Hashing | `certificate/hashing.go` | none | generateCertificateId | `CertificateId` |
| Metadata and HTTP views | `grpc.go` 305-456, `api.go` 150-400 | text in column `metadata` | extractMetadata, viewCerts; the gauges read the same text | `CertificateViews`, `CertificateData` |
| Generated code, test programs | `src/pkg/proto`, test directories | none | | no (section 7) |

How they interact. Everything shared is in the database, and there are no
transactions: each store method is one SQL statement. gRPC handlers, HTTP
handlers, the scheduler's goroutine and the metrics goroutine interleave between
any two statements. Submission inserts rows, the scheduler reads and marks them,
override and the kill handlers update the columns and the status it reads.
Submission and scheduler both call the upstream through `SendToAggSender`, with
a ten-second deadline. The configuration is written by `main` before anything
else runs and only read afterwards. Page and gauges share no code: each parses
the metadata text that the submission wrote. A panic in a gRPC handler or in the
scheduler's goroutine ends the process; a panic in an HTTP handler does not.

What is hard here, and the property each part owes:

* the queue must not lose a certificate, release it early, write it off
  undelivered, or send it again once it is marked, although any send, read or
  UPDATE may fail, a call may time out after the upstream accepted it, and the
  process may die between any two statements; a due certificate must get out
  although another one is refused in every run; a shutdown must not wait for
  ever for the running task, so that only an open call can still hold it;
* the kill switch must not miss three concurrent calls, nor act on fewer, and
  the kill must survive a restart of the process;
* a submission must be answered only when its certificate is safe, and must be
  sent undelayed, or locked, only for a documented reason;
* what a poller is told about its certificate must not go back, whatever the
  queue does meanwhile and however often the certificate was submitted;
* the gauges must catch up with the table although triggers are dropped, marks
  trigger nothing and reads fail;
* nothing may serve with credentials of two boots, nothing that does not parse
  may be stored, and an orderly exit must cut off neither a run nor a call;
* the id of a certificate must tell withdrawals apart and nothing else, and what
  page and gauges say must be what was submitted, and agree;
* a relayed call must look like a direct one to both ends, carry the upstream's
  own status, end when either end does and leave no goroutine behind.

`PROJECT.json` lists the hazards one by one with their lines.

## 2. Modules

`HoldAndForward` is the promise about a locked certificate, without any
mechanism: a row goes absent, held, sent, delivered, retired; it is sent only
while permitted, may come back from sent to held, and is retired only after it
was delivered.

`CertQueue` is the mechanism. Its variables are in three groups: the database
(`received`, `processed`, `overridden`, `active`, `delay`), which survives a
crash; the process (`proc`, and the task's `pc`, `batch`, `current`, `call`),
which does not; and the world (`now`, `accepted`, `orphans`) with two history
variables for the kill (`killed`, `killSends`).

| Code | Action |
|---|---|
| `main` 115-130, `SqliteStore.Init` | `Boot`: the delay flag overwrites or its write fails; the status is kept |
| a kill -9, a panic elsewhere | `Crash` |
| `SendToAggSender` 205, nil id | `PanicOnMissingId` |
| signal, `cancel()` | `Cancel` |
| `main` 286-314 | `Exit`: `main` returns, some time after `Scheduler.Stop` found no task running; nothing says that it does, since `GracefulStop` waits for open calls without a deadline |
| `StoreCertificate`, `handleOverride`, `SetSchedulerStatus` | actions of the same name, by any handler at any time |
| `processCertificates` | `TaskStart`, `ReadStatusActive`, `ReadStatusSkip` |
| `GetProcessableCertificates` | `ListProcessable`, `ListError`, `ListCutShort` (`rows.Err` is never asked) |
| the loop of `ProcessPendingCertificates` | `BeginSend`, `LoopEnd`, `SendOk`, `SendRefused`, `SendTimeout`, `MarkProcessed`, `MarkError` |
| the upstream (external) | `UpstreamAccept`, and `UpstreamAcceptLate` for a request whose caller gave up or died (`orphans`) |

The list has no ORDER BY, so the batch is a set and any of its rows is next.
gocron's singleton mode means one run at a time, hence one program counter.

`KillSwitch` follows `handleKillSwitch` and `handleRestart`, which do the same
four statements: record, clean up, count, set the status. A call is a constant
with a program counter of its own; a failed record or cleanup is only logged
and goes on, a failed count or set answers 500. The clock is read by the handler
and not by the statement, so a statement may work with an older time than the
one it runs at: `Arrive` reads the time of the attempt, and cleanup and count use
any time of `ClockRead`, from then to now. The table is the set `attempts`
with `at`; `countedAt`, `sawEnough` and `disputed` are history. A call that saw
enough is disputed when one of the other endpoint sees enough after it, or saw
enough before and has not set the status yet; the code orders the two UPDATEs in
no way, and `ThreeCallsDecide` says that without such a call the status stands.

`SuspiciousValue` is `ParseTokenValues` and `checkForSuspiciousValue` as
operators. The configured text is a sequence of entries of fields; an address in
it has a length and letters in lower, upper or mixed case, and of two entries
for one token the map keeps the last. `Verdict` is suspicious, clean, error or
panic. The reference, `ExactValue` with `Slack`, goes from the text to the value
on its own, without the map, the lowered addresses and the truncation.
`Submission` is the handler around it, for several submissions: `Route` after
the chain check, `CheckForSuspiciousValue`, the store or the send, and the
answer. Failed sends and stores panic (`StoreError`, `SendError`) because line
113 dereferences the nil response; `Down` takes every other submission along.
`Boot` overwrites the values whose flags are given and keeps the others;
`BootRefused` is a boot whose token values do not parse, which may have stored
the limit before it ends.

`HeaderLookup` extends `CertQueue` with one poller of one certificate, which may
have several rows (`Copies`). `first` is the row the SELECT returns. A lookup is
two steps, the read (`LookupPending`, `LookupElsewhere`, `LookupError`) and the
upstream's answer, between which the queue may do anything; `QueueStep` is any
step of the queue and ends the lookup when the process dies. `told` is history.
A lookup that found no row may be overtaken by the submission, the send and the
acceptance of the very certificate, so that the poller gets the upstream's
header and, from the next lookup, PENDING, until the row is marked. Nothing in
the code or its documents excludes that; `PollGoesForward` says what is
excluded.

`Metrics` models the trigger channel as a counter of tokens (`trigger`, at most
`Capacity`), those who offer tokens (`Trigger` after an insert, `TriggerAnyway`
for overrides), the `ticker` goroutine, whose send blocks, and the `updater`
goroutine: take, read, and report gauge by gauge (`ReportCount`, `ReportNetwork`
for each network in `unset`, `ReportGrandTotal`). `stored` and `queue` are the
certificates table. `Totals` is what the gauges show of the rows just read: the
count, a sum per network that got a gauge at the boot, and the sum of those sums,
each amount reduced to its low eight bytes (`% Word`).

`DirectCall` is the promise of a streaming call between two ends: a receiver gets
a prefix of what was sent, and sees a complete end only after everything.
Messages are counted. In
`StreamRelay` one call goes through the handler; `up` is the direction from the
caller, `down` the other. `Recv`, `RecvEof`, `RecvError`, `RecvRefuses`, `Send`,
`SendEof`, `SendError` and `Report` are the statements of
`forwardServerToClient` (up) and `forwardClientToServer` (down); `CloseSend`,
`ReturnInternal` and `ReturnStatus` the branches of the select. The two ends and
the connection are the environment: the caller may leave at any time, the
upstream may end at any time, the connection may break.

`Lifecycle` is `main`, boot after boot over one database. `credentials` and
`config` are the tables, `flags` the command line, `main` and `step` where `main`
is, `task`, `grpc`, `http`, `calls`, `requests` what runs beside it.

| Code | Action |
|---|---|
| `NewSqliteStore` and its defaults | `Boot` |
| `main` 71-105, the four keys | `StoreKey`, `RefuseKey` |
| 107-168, the five values; `parseChainIDs` 316-327 | `StoreValue` (a failed write is only logged), `SkipValue`, `RejectValue` |
| 170-204, reading it back, the scheduler | `ReadConfiguration`, `ReadConfigurationError`, `StartScheduler`, `NewSchedulerFatal` |
| the reporter, which panics when a chain is given twice | `NewPrometheusReporter`, `ReporterPanics` |
| the servers and their goroutines | `StartGrpc`, `NewTransparentProxyFatal`, `StartHttp`, `ServeGrpc`, `GrpcFatal`, `ListenAndServe`, `HttpFatal` |
| `processCertificates`: the check of the context, then the wait group | `TaskStart`, `TaskCounts`, `TaskEnd` |
| calls and requests; `GetHealth` reads the root context | `OpenCall`, `CloseCall`, `OpenRequest`, `HandleRequest`, `GetHealth` |
| 270-314, the signal and after | `Signal`, `StopJobs`, `WaitForTasks`, `GracefulStop`, `Shutdown`, `Return` |

`ProcessLife` is the life of a process as `CertQueue`, `Submission` and `Metrics`
take it for granted in their own `Boot`, `Exit` and `Crash`: configuration
changes only while nothing runs, a run begins only before the signal, an orderly
exit waits for it, and `/health` tells running from stopping. `Lifecycle`
implements it, which is what entitles the other modules to one `Boot` step.

`Certificate` has the messages and `CertificateFromJSON`, which builds one from a
JSON value, a pair of kind and content; what is missing or of the wrong kind
stays at its zero value. Every `Number` of a document goes through a float64
(`Float64`: the nearest of the numbers that have so many digits, the even one
half way) and then into an unsigned word (`Unsigned`), where Go leaves a number
that does not fit to the processor (`Overflow`; the workflow builds for two).
`CertificateId` is `generateCertificateId` over symbolic
bytes: a digest is the pair of the word keccak and what was hashed. `Hashable`
says which fields it dereferences unasked, `Widths` how wide it takes them to be,
and `Withdrawals` is the reference: what two certificates must share to share an
id. `CertificateViews` has
`ExtractMetadata`, which writes the `MetadataFields` that are there, and its two
readers, `View` with
`ChainTotals` for the page and `NetworkTotals` for the gauges; both read the
numbers of that text through `Number` once more. `CertificateData`
puts them in sequence: a document is loaded, perhaps completed by its submitter,
submitted (`Submit`, or `SubmitPanics` in the hash) and later marked
(`MarkProcessed`); `rows` is the table.

The `MC...` modules hold the constants of the TLC instances only. Operators
whose comment begins with "Mutant:" are faulty variants of the definition that
follows them; nothing uses them, and putting one in its place must break the
property it is listed with in `PROJECT.json`.

## 3. Runs

| Run | Configuration | Shows |
|---|---|---|
| `header_lookup` | 2 rows, both copies of the polled certificate, delays 1 and 2, clock 0..2 | the queue's safety: `ProcessedWasAccepted`, `NeverResendProcessed`, `ReleasedOnlyWhenDue`, `KilledSendsAtMostOnce`, and that it implements `HoldAndForward`; the poller's: `ProcessedIsKnown`, `PollGoesForward` |
| `queue_liveness` | 2 rows, one refused for ever, clock 0..1 | `DueIsProcessed`, `TaskStops` |
| `queue_kill_midrun` | 2 rows | violated: `NoSendWhileKilled` |
| `kill_switch` | 2 kills, 2 restarts, threshold 2, window 1, horizon 1, clock 0..2 | `RecentIsKept`, `SomeoneSeesEnough`, `ThreeCallsDecide`, `ChangeIsBacked` |
| `submission` | 2 submissions, 9 certificates, 5 token texts of which two do not parse and one names a token twice | `AnsweredIsSafe`, `SentIsJustified`, `LockedIsJustified` |
| `submission_flags_omitted` | 1 submission | violated: `OmittedFlagsLock` |
| `submission_failure` | 1 submission | violated: `FailureIsAnswered` |
| `metrics` | 2 rows on 2 networks, one or both with a gauge, capacity 1, one amount longer than the word | `NoUpdateLost`, `GaugesCatchUp` |
| `stream_relay` | 1 call, 2 messages each way, window 1 | `StatusIsUpstreams`, `GoroutinesEnd`, `CallEnds`; `StreamRelay` implements `DirectCall` |
| `lifecycle` | 6 command lines, 2 calls, one of them endless, 1 request | `ServesOnlyComplete`, `StoredConfigParses`, `OrderlyExitCutsNothing`, `NothingElseHolds`; `Lifecycle` implements `ProcessLife` |
| `shutdown_http` | the same | violated: `OrderlyExitWaitsForRequests` |
| `certificate_data` | 21 documents with each of 3 completions, 2 rows | `SameIdSameWithdrawals`, `PageShowsTheDocument`, `GlobalIndexIsBigEndian`, `PageAgreesWithGauges` |

Bounds, and why they are enough. Rows never look at one another except through
the batch: two rows give a row in hand beside one waiting, a row marked beside
one refused, and a kill between two sends. Two delays and three clock values give
a boot that lengthens and one that shortens the delay after a row was stored. The
kill switch has a clock longer than the horizon, so that attempts leave the
window and the table; window and horizon are equal, the tightest case of `Window
<= Horizon`, where a cleanup can come closest to what counts. Its threshold,
three in the code, is two so that both endpoints can reach it in a small instance
(the proofs are for every threshold, any window and horizon and any number of
calls). The certificates have no exit, no value, a fraction of a token, several
exits, an unknown token before and after one with multiplier zero, and an exit
without token info; amounts straddle the limit. The token texts write one address
in all three cases of letters and have an address of the wrong length and an
entry of too few fields. The command lines are a complete one, one that gives the
keys and nothing else that parses, one without a key, and one each with a bad
delay, a bad limit and bad token values; two of them repeat a chain. Any order of
them over one database is explored, so a boot meets what every other one left,
half way through its keys or its values. The documents differ from the first in
one thing each: some of them in something the id must not see (leading zeros, an
unknown leaf type, a leaf count), most in something it must, two in lacking what
it is made of; amounts include one of seventeen digits whose low eight bytes are
the first one's. Words are scaled down: 2^32 is 512, 2^64 is 4096, and float64s
are exact up to 1024 and then two, four and eight apart. Three documents lie
beyond: a network that does not fit its word, a height that is no float64, and
one that is rounded up to the end of the word. Two rows compare every pair. A
channel of capacity one is full after one token, so every producer meets a full
channel, and the word of the metrics is 4, which one amount exceeds and the
others do not. In the relay a window of one makes a send wait for the second
message, with a third state (one message in the goroutine's hand) in between. The
clock is bounded by `MaxTime` in `Tick`'s guard and the messages of an end by
`Most`; no other counter is cut off, the table of `certificate_data` apart
(`MaxRows`). Deadlock is checked in every run but `stream_relay`, whose one call
ends. Symmetry is used in `header_lookup`, over rows that are both copies and
that the upstream treats alike, and in `kill_switch`, over calls of one endpoint;
neither checks liveness.

### Where code and documents disagree

* `NoSendWhileKilled`: the README says that once the kill switch is activated
  the scheduler stops processing. A run that read the status before the kill
  sends its whole batch after it. What does hold, and is proved, is
  `KilledSendsAtMostOnce`.
* `OmittedFlagsLock`: the README says that omitting either flag treats every
  certificate with exits as suspicious. With token values and no limit at all
  the check panics, which is the counterexample; where an earlier boot gave the
  limit, omitting the flag keeps the stored value and certificates go out.
* `FailureIsAnswered`: the errors of a failed send or store never reach the
  submitter; the handler panics first and the process goes down.
* `OrderlyExitWaitsForRequests`: `main.go` 301 says that the shutdown of the HTTP
  server waits for all active requests. Its context (303) is derived from the root
  context, cancelled at 285, so it waits for none.

Five more are bounded by a property instead of refuted by a run. A comment in
`grpc.go` says that a certificate over the threshold is locked, but each exit is
truncated to whole tokens first (207), so that 5 units at multiplier 2 and 2
dollars count as 4; `SentIsJustified` says that no more than the limit plus one
whole token of each exit goes out. The total gauge's help (`prometheus.go` 26)
says it covers the queue across all networks. The metadata keeps the low eight
bytes of an amount (`grpc.go` 305), so amounts wrap round from 2^64 wei (about
18.4 ETH), on the page as well; and a row of a network that had no gauge at the
boot is in no total. `PageShowsTheDocument` is therefore stated for the low eight
bytes, and `GaugesCatchUp` for the totals of `Metrics`, which have the same two
limits. The comments of `hashing.go` (67-90) say that an address is hashed as 20
bytes and metadata as 32; the code appends the bytes the message has, however
many. `SameIdSameWithdrawals` holds, and is proved, for fields of those widths.
And the message and the page have a height of 64 bits, which the loader and then
the page read through a float64: above 2^53 it may differ from the document's,
and a number that does not fit its word becomes what the processor makes of it.
`PageShowsTheDocument` says that the page has the document's height up to 2^53
and above it the nearest float64, as long as that fits 64 bits, and the
document's network if it is below 2^32.

The repository's README says three calls within one minute. A handler reads the
clock for its count before the query, so that a statement that waits counts what
was recent then and what came since. `ChangeIsBacked` therefore puts the window
before the counting call's own attempt: each call behind a change was made no more
than a window before that one's attempt, or after it.

## 4. Fairness

`queue_liveness`, `metrics`, `stream_relay` and `lifecycle` need it. In the queue
the scheduler's goroutine is weakly fair: Go schedules it and gocron's ticker
fires for ever. Nothing is assumed of `Exit`: `main` waits for the task
(`TaskStops` says that this ends) and then for open calls, which may last for
ever; that nothing else holds it is `NothingElseHolds` of `Lifecycle`. Strong
fairness of reading the status, listing, the upstream's acceptance, the answer in
time and the marking UPDATE says that none of these fails on every attempt for
ever; without it a database or an upstream that always fails would keep a row for
ever, which is what the code does then. Nothing is assumed of the clock, the
operator or crashes: `DueIsProcessed` has as its condition that from some time on
the process runs, the scheduler is active and the row stays due. The run has a
second row that the upstream refuses for ever, for which nothing is assumed.

In `Metrics` both goroutines are weakly fair. Strong fairness of `TickerSends`
says that a blocked sender is served in the end although handlers keep filling
the channel: Go's channels queue their blocked senders, and a try-send that
finds the buffer full does not overtake them. Strong fairness of the complete
read says that reading does not fail every time for ever. `GaugesCatchUp` has as
its condition that the process runs and the table has settled.

In `StreamRelay` the goroutines and the handler are weakly fair, and the caller
reads what comes; the handler cannot return while a caller neither reads nor
leaves, as gRPC's flow control has it. Nothing is assumed of the upstream.

In `Lifecycle` `main` is weakly fair in each of its three parts, since Go runs it
on, and so are the task, whose statements all have deadlines, and the end of every
call its client ends. Nothing is assumed of boots, signals, requests, fatal errors
or crashes, nor that an endless call ends: `NothingElseHolds` says that such a
call is the only thing that can hold a boot or a shutdown.

## 5. Proofs

Every invariant, action property and refinement of the runs that pass is proved
for every value of the constants, from the named assumptions in the modules:
constants of the right sets, `NoRow` no row, kills and restarts disjoint and
finite, threshold at least one, `Window <= Horizon` (one and five minutes), at
least one chain, command lines of four keys and five values, defaults that parse.
Of submissions: exits are finitely many, amounts are unsigned, the limit is
unsigned or unset, a token text that parses is a sequence of entries with an
address and two unsigned numbers, and the reference counts dollars in a unit that
every multiplier divides. Of documents: their lists are sequences, network and
height are unsigned and within a float64's range, what is loaded as a network
fits its 32 bits (whatever the processor made of it), an amount in hex is made of
digits, and the parts of a global index have 32 bits. `NumberAssumption` relates
the words to the float64s and no more: every power of two may be a spacing. TLC
evaluates each assumption on the run of its module.

* `QueueProofs`, queue. The properties are not inductive: to know that a row that
  is marked was accepted one must know what an accepted call means, and to know
  that a kill lets each row go once one must know which rows the one surviving
  run can still send. `Bookkeeping` says so: the status column is the negation of
  the kill in force; the row in the mark state and the
  row of an accepted call are in `accepted`; under a kill a row still in the
  batch has not been sent since, and a run that is about to list has sent
  nothing. `IInv` is `TypeOK`, the safety properties and `Bookkeeping`; one
  lemma shows each part preserved, action by action. `Implementation` shows that
  the mapping `Phase`, `Permitted` takes every step to a step or a stutter of
  `HoldAndForward`; it needs `IInv` because a send of an unheld row, or a mark
  of an undelivered one, would be no abstract step.
* `QueueProofs`, lookups. `PollRecord` says what is behind the lookup's state: a
  lookup that was sent on for a processed row has one, a lookup that found no row
  was begun before anything was told. `TableGrows` is the fact about the queue it
  needs: rows stay, and processed rows stay processed. With
  `ProcessedWasAccepted` this gives `ProcessedIsKnown` and `PollGoesForward` for
  any number of copies.
* `KillSwitchProofs`. `RecentIsKept` is the link: because cleanup keeps more than
  is counted, of any set of calls recorded and counted inside one window the last
  one recorded is counted after all rows are there, so it sees them all
  (`SomeoneSeesEnough`). While a call that saw enough is undisputed nothing of
  the other endpoint is about to set the status, and once it has answered the
  status is its own (`UndisputedStands`), which gives `ThreeCallsDecide`; a call
  in the set state has a set of calls behind it, none more than a window before
  its own attempt (`SetIsBacked`), which gives `ChangeIsBacked`: whenever the
  clock was read, it was not before that attempt.
* `SubmissionProofs`. `Placed` says for every place of the handler whether the
  certificate is in the table or at the upstream; with it `AnsweredIsSafe` holds
  for any number of submissions over failed reads, panics, crashes, boots and
  refused boots. `Justified` joins `SentIsJustified` and `LockedIsJustified`,
  which are inductive together with the types because no boot changes the
  configuration while a handler that has judged runs on. What is left is
  arithmetic: `PricesAreTheLastEntries`, that the map parsed from a text is the
  reference reading of it, and `TruncationBounds`, that the sum of truncated
  exits is not above the exact sum and not below it by more than a whole token of
  each exit. Both hold for any number of exits, tokens and entries.
* `MetricsProofs`. `NoUpdateLost` is inductive together with the types: a
  dropped offer means a full channel, hence a token that is still to be taken,
  and a token that is taken opens the read that covers the row.
* `StreamRelayProofs`. `Reasons` says what is behind each error a goroutine may
  raise, in particular that an EOF of the caller's direction means that all was
  passed on or that the client stream was over; `Outcome` what follows for
  `closeSent` and for what the handler returns. From both every step maps to a
  step of `DirectCall` or to none, for any number of messages and any window.
* `LifecycleProofs`. `TypeOK` carries the order of `main`: what may run where, and
  that no call is left past GracefulStop. `Keyed` says that the keys before `step`
  are those of the command line, and all of them once `main` is past the keys; it
  gives `ServesOnlyComplete` for any command lines. `StoredConfigParses` is
  inductive on top of the types. `TasksOver` says that no run is left once the
  scheduler was stopped; it gives `OrderlyExitCutsNothing` and the refinement of
  `ProcessLife`. It rests on `StopJobs`: a task that has passed its context check
  joins the wait group within the ten seconds StopJobs gives it.
* `CertificateDataProofs`. The inductive invariant is small, `IInv`: every row is
  made of some document and some completion that hash. The work is in what
  loader, hash, metadata and views compute from them. `GlobalIndexIsBigEndian`
  follows from where reversal puts each byte and from what four bytes spell.
  `PageAgreesWithGauges` and `PageShowsTheDocument` follow from which keys the
  metadata has, from the amounts read back from it, whose bytes spell what the
  low sixteen digits of the document spell, and from the sums: those of the page
  are built exit by exit or by network, those of the gauges row by row, and all
  are one sum over the same exits. The network and the height come through two
  conversions unchanged or rounded once: a network is below what a float64 holds
  exactly (`WordSurvives`), and a rounded height is a float64, also when rounding
  carries it to the next power of two, and is not rounded again (`RoundedOnce`).
  `WithdrawalHasOneId` is one half of `SameIdSameWithdrawals`: what one withdraws
  has one id, in whatever form it was written, because what is hashed of an
  amount depends on its significant bytes only. The other half, that an id says
  what is withdrawn, needs that what is hashed can be taken apart. The code joins
  the fields without their lengths and does not look at the lengths it is given,
  so that half is false when, say, one certificate's roots have 31 and 33 bytes
  and another's 32 each. `SameIdSameWithdrawalsHolds` therefore has `FixedWidths`
  as its hypothesis: every field that is there has the width that the comments of
  `hashing.go` and the message types state, 20 bytes for an address, 32 for a
  root, a hash and metadata, at most 32 for an amount. The run's documents have
  these widths (`MCDocumentsHaveFixedWidths`). The proof splits the
  concatenations part by part (`JoinSame`, `FlattenSame`); that a mainnet claim
  is told from a rollup claim, and a claim from none, is a matter of their
  lengths, 3 and 37 units, 1 and 0.
* `FoldLemmas` has what the last but one and `SubmissionProofs` need of the
  community modules' folds, sums and sequences. Induction over subsets and numbers
  is stated for a set instead of an operator (`SubsetInduction`,
  `NaturalInduction`), through the element of a well-founded ordering that would be
  minimal outside it; with it the function that defines a fold exists and is unique
  (`FoldExists`, `FoldUnique`), so that `SumFunction` has the equations of a sum
  (`SumEquations`), and is additive, monotone, invariant under renaming and
  partition. The second part is about where concatenating, cutting and reversing
  put the elements of a sequence.

Only model-checked: the liveness properties `DueIsProcessed`, `TaskStops`,
`GaugesCatchUp`, `GoroutinesEnd`, `CallEnds` and `NothingElseHolds` (fairness and
`ENABLED` are out of the prover's reach), and the four violated statements.

## 6. Abstractions

The clock is a number and timestamps are compared as numbers; the code compares
their text. The earliest time a handler of the kill switch may have read is that of
its own attempt; the code reads it anew before each statement, which is later. A
certificate is a row id, or its exits where amounts matter. Each
SQL statement is atomic, and listing the rows is one read followed by iterating;
`ListCutShort` covers an iteration that ends early. The upstream is the server
the call went to: the fallback to `localhost:50052` when the address cannot be
read is not distinguished, nor the stored address of the submissions from the
flag's address of the relay; no more is claimed than that a certificate is
accepted by the server its call went to. In `CertQueue` a boot that returns half
way, after some of its writes, is a boot followed by a crash. An override for an
id that has no row changes nothing, as the UPDATE does.

`StreamRelay` counts messages, so that what a receiver got is what was sent, and in
its order, but not which bytes. `frame.Unmarshal` (`proxy_handler.go` 137-140) keeps
the codec's buffer without copying it; that nobody writes to that buffer before the
message is sent on is a matter of the gRPC library, and assumed.

`ThreeCallsDecide` leaves disputed calls out, so it says nothing of a handler that
stalls before its UPDATE and overrules a call of the other endpoint much later: that
may happen, and `PROJECT.json` lists it as a hazard without a property.
`ProcessLife` and `NothingElseHolds` take a panic or a fatal error for a death like
any other; that the process should not die of it is not claimed.

In `CertificateData` Keccak is free of collisions, and a bool or a string of hex
digits is a value of its kind. A JSON number is unsigned and whole and goes
through a float64; fractions and negative numbers are left out; the SP1 proof's
fields are one value, and the context of an aggchain proof is the set of its
keys. TLC's integers have 32 bits, so the amounts that must be summed are small,
while their length in bytes is not. In the token texts an address is a name with
a length and the case of its letters, and a field is a number or does not parse.
In `Lifecycle` a flag's value is a model value, a number, a set of chains or one
of the marks omitted and bad.

## 7. Not modelled, and the plan

Not modelled for good: the formatting of the page and the shortened copy of the
metadata it shows, and the data key's check in front of it, a comparison;
`viewConfig`, which prints the delay; `GetLatestCertificateHeader`, which forwards
one call and reads nothing; the conversion of the gauges to floating point; the
interceptors, which log; generated protocol code; the mock receiver and the test
programs.

What is left to do:

1. `Proxy`: `Submission`, `CertQueue` and `KillSwitch` over one store with the two
   upstream addresses, the stored one and the flag's, and the fallback; end to
   end, an answered certificate is accepted by some upstream or still in the table.
2. The textual order of timestamps (`sqlite.go` 171) as an operator against the
   order of the instants; how the driver writes a time is outside the repository.
