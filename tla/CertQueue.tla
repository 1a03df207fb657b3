------------------------------ MODULE CertQueue ------------------------------
(***************************************************************************)
(* The delayed-certificate queue: the certificates table of the SQLite     *)
(* store, the scheduler task that releases its rows, the upstream call,    *)
(* the operator's override and kill switch, and the process that crashes,  *)
(* stops and boots around them.  A row is one locked certificate (an       *)
(* AUTOINCREMENT id); the columns the code tests are the variables         *)
(* received, processed and overridden.  Everything in the first group      *)
(* below is in the database file and survives a crash; the second group    *)
(* is lost with the process; the third is the upstream and history.        *)
(*                                                                         *)
(* Every store operation is a statement of its own, so every step below    *)
(* is one statement or one network event, and any of them may interleave   *)
(* with the handlers.                                                      *)
(***************************************************************************)
EXTENDS Integers, FiniteSets

CONSTANTS
    Rows,           \* ids of the certificates table
    NoRow,          \* no certificate in hand
    Refused,        \* rows whose certificate the upstream never accepts
    Delays,         \* values an operator passes as --delay, in clock units
    DefaultDelay,   \* delay_seconds of a fresh database
    MaxTime         \* bound of the clock

ASSUME RowsAssumption == NoRow \notin Rows /\ Refused \subseteq Rows
ASSUME DelayAssumption == Delays \subseteq Int /\ DefaultDelay \in Int
ASSUME TimeAssumption == MaxTime \in Nat

VARIABLES
    \* the database file
    received,    \* received_at, or NotStored where the id has no row
    processed,   \* rows with a processed_at
    overridden,  \* rows with an override_sent_at
    active,      \* scheduler_status.is_active
    delay,       \* configuration.delay_seconds
    \* the process
    proc,        \* down, running, or stopping once the root context is done
    pc,          \* where the scheduler task is
    batch,       \* rows of the current run not yet reached
    current,     \* the row in hand
    call,        \* the outstanding SubmitCertificate call: none, sent, accepted
    \* the world
    now,         \* the wall clock
    orphans,     \* rows with a request whose caller gave up or died
    accepted,    \* rows the upstream has accepted at least once
    killed,      \* history: the last kill or restart that took effect was a kill
    killSends    \* history: per row, requests begun since that kill

store == <<received, processed, overridden, active, delay>>
task == <<pc, batch, current, call>>
vars == <<received, processed, overridden, active, delay, proc, pc, batch,
          current, call, now, orphans, accepted, killed, killSends>>

NotStored == -1
Stored(r) == received[r] # NotStored
StoredRows == {r \in Rows : Stored(r)}
Alive == proc \in {"running", "stopping"}

-----------------------------------------------------------------------------
(* The store and the process *)

Init ==
    /\ received = [r \in Rows |-> NotStored]
    /\ processed = {}
    /\ overridden = {}
    /\ active = TRUE
    /\ delay = DefaultDelay
    /\ proc = "down"
    /\ pc = "idle" /\ batch = {} /\ current = NoRow /\ call = "none"
    /\ now = 0
    /\ orphans = {} /\ accepted = {}
    /\ killed = FALSE
    /\ killSends = [r \in Rows |-> 0]

\* main: the flag's delay is written over the stored one; a failed write is
\* only logged and leaves the old value.
BootWith(isActive) ==
    /\ proc = "down"
    /\ proc' = "running"
    /\ delay' \in Delays \cup {delay}
    /\ active' = isActive
    /\ UNCHANGED <<received, processed, overridden, task, now, orphans,
                   accepted, killed, killSends>>

\* Mutant: every boot writes the default status over the stored one.
BootForgetsKill == BootWith(TRUE)

\* Init inserts the default status only into an empty table.
Boot == BootWith(active)

\* What a dying process leaves of the task: a request it had sent is orphaned.
DropTask ==
    /\ pc' = "idle" /\ batch' = {} /\ current' = NoRow /\ call' = "none"
    /\ orphans' = orphans \cup (IF call = "sent" THEN {current} ELSE {})

\* The process dies: a kill -9, or one of the handlers' panics.
Crash ==
    /\ Alive
    /\ proc' = "down"
    /\ DropTask
    /\ UNCHANGED <<store, now, accepted, killed, killSends>>

\* The upstream's answer omits the certificate id: the dereference ahead of the
\* nil check panics in the scheduler's goroutine and takes the process down.
PanicOnMissingId ==
    /\ call = "accepted"
    /\ proc' = "down"
    /\ DropTask
    /\ UNCHANGED <<store, now, accepted, killed, killSends>>

\* A signal: the root context is cancelled.
Cancel ==
    /\ proc = "running"
    /\ proc' = "stopping"
    /\ UNCHANGED <<store, task, now, orphans, accepted, killed, killSends>>

\* main returns, some time after scheduler.Stop has waited for the running task.
\* In between GracefulStop waits for open calls, for as long as they last: Exit may
\* come, and nothing says that it does.
Exit ==
    /\ proc = "stopping" /\ pc = "idle"
    /\ proc' = "down"
    /\ UNCHANGED <<store, task, now, orphans, accepted, killed, killSends>>

Tick ==
    /\ now < MaxTime
    /\ now' = now + 1
    /\ UNCHANGED <<store, proc, task, orphans, accepted, killed, killSends>>

-----------------------------------------------------------------------------
(* The handlers *)

\* StoreCertificate, called while any server still serves.
StoreCertificate(r) ==
    /\ Alive /\ ~Stored(r)
    /\ received' = [received EXCEPT ![r] = now]
    /\ UNCHANGED <<processed, overridden, active, delay, proc, task, now,
                   orphans, accepted, killed, killSends>>

\* MarkCertificateOverrideSent: an UPDATE that matches no row changes nothing.
Override(r) ==
    /\ Alive
    /\ overridden' = overridden \cup ({r} \cap StoredRows)
    /\ UNCHANGED <<received, processed, active, delay, proc, task, now,
                   orphans, accepted, killed, killSends>>

\* SetSchedulerStatus, reached from the kill and restart handlers.
SetSchedulerStatus(isActive) ==
    /\ Alive
    /\ active' = isActive
    /\ killed' = ~isActive
    /\ killSends' = IF isActive THEN [r \in Rows |-> 0] ELSE killSends
    /\ UNCHANGED <<received, processed, overridden, delay, proc, task, now,
                   orphans, accepted>>

-----------------------------------------------------------------------------
(* The scheduler task: processCertificates, ProcessPendingCertificates and  *)
(* SendToAggSender.  gocron's singleton mode starts no second run while one *)
(* is in progress, so the task is one program counter.                      *)

TaskStart ==
    /\ proc = "running" /\ pc = "idle"
    /\ pc' = "status"
    /\ UNCHANGED <<store, proc, batch, current, call, now, orphans, accepted,
                   killed, killSends>>

\* The run ends: it returns before its loop, or its loop is over.
Finish ==
    /\ pc' = "idle" /\ batch' = {}
    /\ UNCHANGED <<store, proc, current, call, now, orphans, accepted,
                   killed, killSends>>

ReadStatusActive ==
    /\ pc = "status" /\ active
    /\ pc' = "list"
    /\ UNCHANGED <<store, proc, batch, current, call, now, orphans, accepted,
                   killed, killSends>>

\* The scheduler is disabled, or its status cannot be read.
ReadStatusSkip == pc = "status" /\ Finish

Elapsed(r) == received[r] + delay <= now

\* Mutant: the list is not restricted to unprocessed rows.
ProcessableIgnoresProcessed ==
    {r \in StoredRows : Elapsed(r) \/ r \in overridden}

\* Mutant: the cutoff is the present moment, the delay is not subtracted.
ProcessableIgnoresDelay ==
    {r \in StoredRows \ processed : received[r] <= now \/ r \in overridden}

Processable ==
    {r \in StoredRows \ processed : Elapsed(r) \/ r \in overridden}

ListRows(rows) ==
    /\ pc = "list"
    /\ batch' = rows
    /\ pc' = IF rows = {} THEN "idle" ELSE "loop"
    /\ UNCHANGED <<store, proc, current, call, now, orphans, accepted,
                   killed, killSends>>

ListProcessable == ListRows(Processable)

\* rows.Next ends at an error as it does at the last row, and nobody asks rows.Err.
ListCutShort == \E rows \in SUBSET Processable : ListRows(rows)

ListError == pc = "list" /\ Finish

\* The list is not ordered: the next certificate is any of the rest.
BeginSend(r) ==
    /\ pc = "loop" /\ proc = "running" /\ r \in batch
    /\ pc' = "send" /\ call' = "sent"
    /\ batch' = batch \ {r} /\ current' = r
    /\ killSends' = IF killed THEN [killSends EXCEPT ![r] = @ + 1] ELSE killSends
    /\ UNCHANGED <<store, proc, now, orphans, accepted, killed>>

\* The loop is exhausted, or it sees the cancelled context.
LoopEnd == pc = "loop" /\ (batch = {} \/ proc = "stopping") /\ Finish

\* Mutant: the row in hand is not let go.
NextInLoopKeepsRow == pc' = "loop" /\ UNCHANGED current /\ call' = "none"

\* Back to the loop: the row in hand is done with, whatever became of it.
NextInLoop == pc' = "loop" /\ current' = NoRow /\ call' = "none"

\* The answer arrives within the timeout.
SendOk(r) ==
    /\ call = "accepted" /\ current = r
    /\ pc' = "mark" /\ call' = "none"
    /\ UNCHANGED <<store, proc, batch, current, now, orphans, accepted,
                   killed, killSends>>

\* Mutant: the first failed send ends the run instead of going on to the next.
SendRefusedEndsRun ==
    /\ call = "sent"
    /\ pc' = "idle" /\ batch' = {} /\ current' = NoRow /\ call' = "none"
    /\ UNCHANGED <<store, proc, now, orphans, accepted, killed, killSends>>

\* The upstream cannot be reached or turns the certificate down.
SendRefused ==
    /\ call = "sent"
    /\ NextInLoop
    /\ UNCHANGED <<store, proc, batch, now, orphans, accepted, killed, killSends>>

\* Mutant: the error of a call that timed out is not looked at.
TimeoutTakenForSuccess ==
    /\ call \in {"sent", "accepted"}
    /\ pc' = "mark" /\ call' = "none"
    /\ UNCHANGED <<store, proc, batch, current, now, orphans, accepted,
                   killed, killSends>>

\* Mutant: the call is made without a deadline.
NoDeadline == FALSE

\* Ten seconds pass, or the connection breaks: the upstream may have accepted,
\* or may still.
SendTimeout ==
    /\ call \in {"sent", "accepted"}
    /\ NextInLoop
    /\ orphans' = orphans \cup (IF call = "sent" THEN {current} ELSE {})
    /\ UNCHANGED <<store, proc, batch, now, accepted, killed, killSends>>

\* Mutant: the UPDATE has lost its WHERE clause.
MarkAllProcessed(r) ==
    /\ pc = "mark" /\ current = r
    /\ processed' = StoredRows
    /\ NextInLoop
    /\ UNCHANGED <<received, overridden, active, delay, proc, batch, now,
                   orphans, accepted, killed, killSends>>

MarkProcessed(r) ==
    /\ pc = "mark" /\ current = r
    /\ processed' = processed \cup {r}
    /\ NextInLoop
    /\ UNCHANGED <<received, overridden, active, delay, proc, batch, now,
                   orphans, accepted, killed, killSends>>

\* A failed UPDATE is only logged: the row stays unprocessed, though sent.
MarkError ==
    /\ pc = "mark"
    /\ NextInLoop
    /\ UNCHANGED <<store, proc, batch, now, orphans, accepted, killed, killSends>>

-----------------------------------------------------------------------------
(* The upstream: the interop aggsender's SubmitCertificate *)

UpstreamAccept(r) ==
    /\ call = "sent" /\ current = r /\ r \notin Refused
    /\ call' = "accepted"
    /\ accepted' = accepted \cup {r}
    /\ UNCHANGED <<store, proc, pc, batch, current, now, orphans, killed, killSends>>

\* A request nobody waits for any more is served after all.
UpstreamAcceptLate(r) ==
    /\ r \in orphans \ Refused
    /\ accepted' = accepted \cup {r}
    /\ orphans' \in {orphans, orphans \ {r}}
    /\ UNCHANGED <<store, proc, task, now, killed, killSends>>

-----------------------------------------------------------------------------
Process == Boot \/ Crash \/ PanicOnMissingId \/ Cancel \/ Exit

Handlers ==
    \/ \E r \in Rows : StoreCertificate(r) \/ Override(r)
    \/ \E isActive \in BOOLEAN : SetSchedulerStatus(isActive)

Scheduler ==
    \/ TaskStart \/ ReadStatusActive \/ ReadStatusSkip
    \/ ListProcessable \/ ListCutShort \/ ListError \/ LoopEnd
    \/ SendTimeout \/ MarkError
    \/ \E r \in Rows : BeginSend(r) \/ MarkProcessed(r)

Upstream ==
    \/ SendRefused
    \/ \E r \in Rows : UpstreamAccept(r) \/ UpstreamAcceptLate(r) \/ SendOk(r)

Next == Process \/ Tick \/ Handlers \/ Scheduler \/ Upstream

Spec == Init /\ [][Next]_vars

-----------------------------------------------------------------------------
(* Properties *)

\* The rows the current run holds: still to be sent, being sent, or being marked.
InHand == batch \cup ({current} \ {NoRow})

Due(r) == Stored(r) /\ (Elapsed(r) \/ r \in overridden)

\* Every variable has its type, a row is in hand exactly in the two states that
\* name it, a call is out exactly in the send state, and only rows that exist
\* are sent, overridden or processed.
TypeOK ==
    /\ received \in [Rows -> Int]
    /\ \A r \in Rows : Stored(r) => received[r] \in 0..now
    /\ now \in 0..MaxTime /\ delay \in Int
    /\ active \in BOOLEAN /\ killed \in BOOLEAN
    /\ proc \in {"down", "running", "stopping"}
    /\ pc \in {"idle", "status", "list", "loop", "send", "mark"}
    /\ call \in {"none", "sent", "accepted"}
    /\ current \in Rows \cup {NoRow}
    /\ (current # NoRow) <=> (pc \in {"send", "mark"})
    /\ (call # "none") <=> (pc = "send")
    /\ (batch # {}) => (pc \in {"loop", "send", "mark"})
    /\ (proc = "down") => (pc = "idle")
    /\ processed \cup overridden \cup orphans \cup accepted \cup InHand
         \subseteq StoredRows
    /\ killSends \in [Rows -> Nat]

\* A certificate the proxy has written off is one the upstream has accepted,
\* whatever calls failed, timed out or outlived the process that made them:
\* ProcessPendingCertificates marks a row only after SendToAggSender returned
\* no error (service.go:144-149).
ProcessedWasAccepted == processed \subseteq accepted

\* No request is ever made for a row that is already processed: the list is
\* read once per run, and only this run, being the only one, marks rows
\* (service.go:123, schedule.go:35).
NeverResendProcessed == InHand \cap processed = {}

\* A certificate leaves only after its delay or an override, however late in a
\* run it is reached and whatever restarts with another delay came before
\* (sqlite.go:168-171, service.go:136).
ReleasedOnlyWhenDue == \A r \in InHand : Due(r)

\* From the moment a kill takes effect until a restart does, every certificate
\* is sent at most once more: by the run that read the status before the kill,
\* and by no later run, crash or reboot (schedule.go:87-96).
KilledSendsAtMostOnce == \A r \in Rows : killSends[r] <= 1

\* What the README says of the kill switch: "Once activated, the scheduler
\* stops processing certificates", so that no request starts under a kill.
NoSendWhileKilled == [][killed => killSends' = killSends \/ ~killed']_vars

\* A request for the row may still reach the upstream.
InFlight(r) == r \in orphans \/ (call = "sent" /\ current = r)

Phase == [r \in Rows |->
    IF ~Stored(r) THEN "absent"
    ELSE IF r \in processed THEN "retired"
    ELSE IF r \in accepted THEN "delivered"
    ELSE IF InFlight(r) THEN "sent"
    ELSE "held"]

Permitted == {r \in Rows : Due(r)}

HF == INSTANCE HoldAndForward WITH phase <- Phase, permitted <- Permitted

\* The queue implements the promise HoldAndForward states: no row is lost,
\* released without permission, or retired before it was delivered.
HoldAndForwardSpec == HF!HSpec

-----------------------------------------------------------------------------
(* Fairness.  The scheduler's goroutine is scheduled and gocron's ticker     *)
(* fires (weak).  The store's statements and the upstream fail, but not      *)
(* every time for ever (strong); nothing is assumed of the clock, of the     *)
(* operator, of crashes or of the process's exit.                            *)

Fairness ==
    /\ WF_vars(Scheduler)
    /\ SF_vars(ReadStatusActive) /\ SF_vars(ListProcessable)
    /\ \A r \in Rows :
         /\ SF_vars(UpstreamAccept(r))
         /\ SF_vars(SendOk(r))
         /\ SF_vars(MarkProcessed(r))

FairSpec == Spec /\ Fairness

\* A certificate that is due is eventually processed, if from some time on the
\* process stays up and is not killed: another certificate that the upstream
\* refuses for ever, a lost answer or a failed UPDATE does not hold it up
\* (service.go:144-147 continues with the next one).
DueIsProcessed ==
    \A r \in Rows \ Refused :
        (<>[](Due(r) /\ active /\ proc = "running")) => <>(r \in processed)

\* A shutdown's wait for the scheduler ends: the running task notices the cancelled
\* context and its outstanding call times out (service.go:137-142, 171;
\* schedule.go:61).
TaskStops == (proc = "stopping") ~> (pc = "idle")
=============================================================================
