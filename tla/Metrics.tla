------------------------------- MODULE Metrics -------------------------------
(***************************************************************************)
(* The gauges: handlers put a token in a bounded trigger channel, without  *)
(* waiting, after they changed the certificates table; a ticker puts one   *)
(* every five seconds, and waits for room; one goroutine takes the tokens, *)
(* reads the unprocessed rows and sets the gauges one by one from what it  *)
(* read.  The scheduler marks rows and triggers nothing.                   *)
(***************************************************************************)
EXTENDS Integers, FiniteSets, FiniteSetsExt, TLC

CONSTANTS
    Rows,          \* ids of the certificates table
    Networks,      \* network ids
    Network,       \* Network[r]: network_id of the row's certificate
    Exits,         \* Exits[r]: the set of the indices of its bridge exits
    Amount,        \* Amount[r][i]: the amount of an exit, in wei
    ChainConfigs,  \* values of the delayed chains at a boot
    Capacity,      \* slots of the trigger channel (256)
    Word           \* one more than the largest amount metadata holds (2^64)

ASSUME CapacityAssumption == Capacity \in Nat \ {0}
ASSUME NetworkAssumption ==
    Network \in [Rows -> Networks] /\ ChainConfigs \subseteq SUBSET Networks

VARIABLES
    stored,     \* rows of the table, processed or not
    queue,      \* rows without a processed_at
    proc,       \* down, running or stopping
    gauged,     \* networks that got a gauge at the boot
    owing,      \* rows inserted by a handler that has not triggered yet
    trigger,    \* tokens in the channel
    updater,    \* the consumer: idle, read, report, networks or gone
    ticker,     \* the ticker: wait, send (a tick to deliver) or gone
    listed,     \* rows the consumer's last read returned
    unset,      \* networks whose gauge the report in progress has yet to set
    gauges,     \* what a scrape sees
    triggered,  \* history: rows whose handler triggered in this process
    covered,    \* history: rows that were there at the last complete read
    complete    \* history: the last read was complete

table == <<stored, queue>>
goroutines == <<owing, trigger, updater, ticker, listed, unset>>
history == <<triggered, covered, complete>>
vars == <<stored, queue, proc, gauged, owing, trigger, updater, ticker, listed,
          unset, gauges, triggered, covered, complete>>

Alive == proc \in {"running", "stopping"}
NoGauges == [count |-> 0, network |-> [n \in {} |-> 0], total |-> 0]

Init ==
    /\ stored = {} /\ queue = {}
    /\ proc = "down" /\ gauged = {}
    /\ owing = {} /\ trigger = 0 /\ listed = {} /\ unset = {}
    /\ updater = "gone" /\ ticker = "gone"
    /\ gauges = NoGauges
    /\ triggered = {} /\ covered = {} /\ complete = TRUE

\* One gauge per delayed chain, both goroutines, and the first trigger.
Boot ==
    /\ proc = "down"
    /\ proc' = "running"
    /\ gauged' \in ChainConfigs
    /\ trigger' = 1 /\ updater' = "idle" /\ ticker' = "wait"
    /\ gauges' = NoGauges
    /\ triggered' = stored /\ covered' = {} /\ complete' = TRUE
    /\ UNCHANGED <<table, owing, listed, unset>>

\* The process ends, by a crash or at the end of main, which waits for neither
\* goroutine.
Down ==
    /\ Alive
    /\ proc' = "down"
    /\ owing' = {} /\ trigger' = 0 /\ updater' = "gone" /\ ticker' = "gone"
    /\ listed' = {} /\ unset' = {}
    /\ UNCHANGED <<table, gauged, gauges, history>>

Cancel ==
    /\ proc = "running"
    /\ proc' = "stopping"
    /\ UNCHANGED <<table, gauged, goroutines, gauges, history>>

-----------------------------------------------------------------------------
(* Those who change the table, and the trigger *)

\* Of any network: a delayed chain of this boot, which has a gauge, or one the
\* handler delayed because it could not read the configuration.
StoreCertificate(r) ==
    /\ Alive /\ r \notin stored
    /\ stored' = stored \cup {r} /\ queue' = queue \cup {r}
    /\ owing' = owing \cup {r}
    /\ UNCHANGED <<proc, gauged, trigger, updater, ticker, listed, unset,
                   gauges, history>>

\* The scheduler.
MarkCertificateProcessed(r) ==
    /\ Alive /\ r \in queue
    /\ queue' = queue \ {r}
    /\ UNCHANGED <<stored, proc, gauged, goroutines, gauges, history>>

\* Mutant: a trigger is dropped unless the consumer waits for one.
OfferToIdle == trigger' = IF updater = "idle" /\ trigger = 0 THEN 1 ELSE trigger

\* Mutant: one token more than the channel holds.
OfferPastCapacity == trigger' = IF trigger <= Capacity THEN trigger + 1 ELSE trigger

\* The select with a default: a full channel drops the token.
Offer == trigger' = IF trigger < Capacity THEN trigger + 1 ELSE trigger

\* The deferred Trigger of a submission that stored a row.
Trigger(r) ==
    /\ r \in owing
    /\ owing' = owing \ {r} /\ triggered' = triggered \cup {r}
    /\ Offer
    /\ UNCHANGED <<table, proc, gauged, updater, ticker, listed, unset, gauges,
                   covered, complete>>

\* The Trigger of an override, or of a submission that stored nothing.
TriggerAnyway ==
    /\ Alive
    /\ Offer
    /\ UNCHANGED <<table, proc, gauged, owing, updater, ticker, listed, unset,
                   gauges, history>>

-----------------------------------------------------------------------------
(* The ticker *)

\* Mutant: there is no second goroutine.
NoTicker == FALSE

TickerFires ==
    /\ ticker = "wait"
    /\ ticker' = "send"
    /\ UNCHANGED <<table, proc, gauged, owing, trigger, updater, listed, unset,
                   gauges, history>>

\* A plain send: it waits while the channel is full, and looks at nothing else.
TickerSends ==
    /\ ticker = "send" /\ trigger < Capacity
    /\ ticker' = "wait" /\ trigger' = trigger + 1
    /\ UNCHANGED <<table, proc, gauged, owing, updater, listed, unset, gauges,
                   history>>

TickerStops ==
    /\ proc = "stopping" /\ ticker = "wait"
    /\ ticker' = "gone"
    /\ UNCHANGED <<table, proc, gauged, owing, trigger, updater, listed, unset,
                   gauges, history>>

-----------------------------------------------------------------------------
(* The consumer *)

UpdaterTakes ==
    /\ updater = "idle" /\ trigger > 0
    /\ updater' = "read" /\ trigger' = trigger - 1
    /\ UNCHANGED <<table, proc, gauged, owing, ticker, listed, unset, gauges,
                   history>>

\* The select takes either case when the context is done and a token is there.
UpdaterStops ==
    /\ proc = "stopping" /\ updater = "idle"
    /\ updater' = "gone"
    /\ UNCHANGED <<table, proc, gauged, owing, trigger, ticker, listed, unset,
                   gauges, history>>

GetUnprocessedCertificates ==
    /\ updater = "read"
    /\ updater' = "report" /\ listed' = queue
    /\ covered' = stored /\ complete' = TRUE
    /\ UNCHANGED <<table, proc, gauged, owing, trigger, ticker, unset, gauges,
                   triggered>>

\* The iteration ends early at an error nobody asks for.
ReadCutShort ==
    /\ updater = "read"
    /\ updater' = "report" /\ listed' \in SUBSET queue
    /\ complete' = FALSE
    /\ UNCHANGED <<table, proc, gauged, owing, trigger, ticker, unset, gauges,
                   triggered, covered>>

ReadError ==
    /\ updater = "read"
    /\ updater' = "idle"
    /\ complete' = FALSE
    /\ UNCHANGED <<table, proc, gauged, owing, trigger, ticker, listed, unset,
                   gauges, triggered, covered>>

\* bytesToUint64 keeps the last eight bytes of each amount.
Recorded(r) == MapThenSumSet(LAMBDA i : Amount[r][i] % Word, Exits[r])

OfNetworks(rows, ns) == {r \in rows : Network[r] \in ns}

\* The grand total sums the networks that have a gauge.
Totals(rows) ==
    [count   |-> Cardinality(rows),
     network |-> [n \in gauged |-> MapThenSumSet(Recorded, OfNetworks(rows, {n}))],
     total   |-> MapThenSumSet(Recorded, OfNetworks(rows, gauged))]

\* ReportTotals sets the gauges one by one: the count, those of the networks, in any
\* order, and the grand total.  A scrape may come in between.
ReportCount ==
    /\ updater = "report"
    /\ updater' = "networks" /\ unset' = gauged
    /\ gauges' = [gauges EXCEPT !.count = Totals(listed).count]
    /\ UNCHANGED <<table, proc, gauged, owing, trigger, ticker, listed,
                   history>>

ReportNetwork(n) ==
    /\ updater = "networks" /\ n \in unset
    /\ unset' = unset \ {n}
    /\ gauges' = [gauges EXCEPT !.network = (n :> Totals(listed).network[n]) @@ @]
    /\ UNCHANGED <<table, proc, gauged, owing, trigger, updater, ticker, listed,
                   history>>

ReportGrandTotal ==
    /\ updater = "networks" /\ unset = {}
    /\ updater' = "idle"
    /\ gauges' = [gauges EXCEPT !.total = Totals(listed).total]
    /\ UNCHANGED <<table, proc, gauged, owing, trigger, ticker, listed, unset,
                   history>>

ReportTotals ==
    \/ ReportCount \/ ReportGrandTotal
    \/ \E n \in Networks : ReportNetwork(n)

-----------------------------------------------------------------------------
Ticker == TickerFires \/ TickerSends \/ TickerStops

Updater ==
    \/ UpdaterTakes \/ UpdaterStops \/ ReportTotals
    \/ GetUnprocessedCertificates \/ ReadCutShort \/ ReadError

Others ==
    \/ Boot \/ Down \/ Cancel \/ TriggerAnyway
    \/ \E r \in Rows :
         StoreCertificate(r) \/ MarkCertificateProcessed(r) \/ Trigger(r)

Next == Ticker \/ Updater \/ Others

Spec == Init /\ [][Next]_vars

-----------------------------------------------------------------------------
(* Properties *)

\* Every variable has its type, the channel holds no more than its capacity, and
\* a dead process has no goroutine and no token.
TypeOK ==
    /\ queue \subseteq stored /\ stored \subseteq Rows
    /\ proc \in {"down", "running", "stopping"}
    /\ gauged \in ChainConfigs \cup {{}}
    /\ owing \cup listed \cup triggered \cup covered \subseteq stored
    /\ unset \subseteq gauged /\ (unset # {} => updater = "networks")
    /\ trigger \in 0..Capacity
    /\ updater \in {"idle", "read", "report", "networks", "gone"}
    /\ ticker \in {"wait", "send", "gone"}
    /\ proc = "down" =>
         updater = "gone" /\ ticker = "gone" /\ trigger = 0 /\ owing = {}
    /\ proc = "running" => updater # "gone" /\ ticker # "gone"
    /\ complete \in BOOLEAN

\* However many triggers a full channel drops, a row whose handler has triggered
\* is in what the consumer has read or will be: a token or an open read follows
\* its insertion (updater.go:24-26, 62-68).  Only a read that failed owes the row
\* to the next tick.
NoUpdateLost ==
    (proc = "running" /\ complete) =>
        \A r \in triggered \ covered : trigger > 0 \/ updater = "read"

Fairness ==
    /\ WF_vars(Ticker) /\ WF_vars(Updater)
    /\ SF_vars(TickerSends) /\ SF_vars(GetUnprocessedCertificates)

FairSpec == Spec /\ Fairness

\* While the process runs and the table has settled, the gauges come to show it
\* again and again: for marks too, which trigger nothing, and after a read that
\* failed or was cut short has set them wrong (updater.go:42-57,
\* prometheus.go:61-77).
GaugesCatchUp ==
    \A Q \in SUBSET Rows :
        <>[](proc = "running" /\ queue = Q) => []<>(gauges = Totals(Q))
=============================================================================
