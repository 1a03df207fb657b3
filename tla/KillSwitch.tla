----------------------------- MODULE KillSwitch -----------------------------
(***************************************************************************)
(* The kill switch: POST /kill and POST /restart, handled by concurrent    *)
(* HTTP goroutines over the kill_switch_attempts table and the single row  *)
(* of scheduler_status.  Both handlers do the same four statements, none   *)
(* of them in a transaction: record the attempt, clean up old ones, count  *)
(* the recent ones of their type, and, with enough of them, set the        *)
(* status.  A failed record or cleanup is only logged; a failed count or   *)
(* set ends the request with a 500.  The first three take a time that the  *)
(* handler reads before the statement: the database may let it wait.       *)
(*                                                                         *)
(* A request is one authorised call.  Calls with a wrong method or key     *)
(* return before the first statement and are not modelled.                 *)
(***************************************************************************)
EXTENDS Integers, FiniteSets

CONSTANTS
    Kills, Restarts,  \* the authorised calls of either endpoint
    Needed,           \* attempts that make a call effective (3 in the code)
    Window,           \* how far back attempts count (one minute)
    Horizon,          \* how far back attempts are kept (five minutes)
    MaxTime           \* bound of the clock

Requests == Kills \cup Restarts

ASSUME RequestsAssumption == Kills \cap Restarts = {} /\ IsFiniteSet(Requests)
ASSUME WindowAssumption ==
    Needed \in Nat \ {0} /\ Window \in Nat /\ Horizon \in Nat /\ Window <= Horizon
ASSUME TimeAssumption == MaxTime \in Nat

VARIABLES
    attempts,   \* the calls that have a row in kill_switch_attempts
    at,         \* attempted_at of each call's row
    active,     \* scheduler_status.is_active
    up,         \* the process is alive
    pc,         \* where the handler of each call is
    now,        \* the wall clock
    recorded,   \* history: calls whose row was ever inserted
    countedAt,  \* history: when a call counted, or Never
    sawEnough,  \* history: calls that counted at least Needed attempts
    disputed    \* history: those of them that a call of the other endpoint
                \* followed, or preceded with its UPDATE still to come

vars == <<attempts, at, active, up, pc, now, recorded, countedAt, sawEnough, disputed>>

Never == -1
Type(q) == IF q \in Kills THEN Kills ELSE Restarts
Goto(q, from, to) == up /\ pc[q] = from /\ pc' = [pc EXCEPT ![q] = to]

Init ==
    /\ attempts = {} /\ recorded = {} /\ sawEnough = {} /\ disputed = {}
    /\ at = [q \in Requests |-> 0]
    /\ countedAt = [q \in Requests |-> Never]
    /\ active = TRUE /\ up = TRUE
    /\ pc = [q \in Requests |-> "idle"]
    /\ now = 0

\* The call passes the method and key checks, and reads the time of its attempt.
Arrive(q) ==
    /\ Goto(q, "idle", "record")
    /\ at' = [at EXCEPT ![q] = now]
    /\ UNCHANGED <<attempts, active, up, now, recorded, countedAt, sawEnough, disputed>>

RecordKillSwitchAttempt(q) ==
    /\ Goto(q, "record", "cleanup")
    /\ attempts' = attempts \cup {q} /\ recorded' = recorded \cup {q}
    /\ UNCHANGED <<at, active, up, now, countedAt, sawEnough, disputed>>

\* Mutant: an INSERT that reports an error has left its row all the same.
RecordErrorLeavesRow(q) ==
    /\ Goto(q, "record", "cleanup")
    /\ attempts' = attempts \cup {q}
    /\ UNCHANGED <<at, active, up, now, recorded, countedAt, sawEnough, disputed>>

RecordError(q) ==
    /\ Goto(q, "record", "cleanup")
    /\ UNCHANGED <<attempts, at, active, up, now, recorded, countedAt, sawEnough, disputed>>

\* Mutant: the cleanup's cutoff falls inside the window that is counted.
ExpiredWithinWindow(t) == {q \in attempts : at[q] < t}

\* The rows, of either type, that the cleanup's DELETE removes at time t.
Expired(t) == {q \in attempts : at[q] < t - Horizon}

\* The times a handler may have read before a statement it now executes: none is
\* earlier than its own attempt.
ClockRead(q) == at[q]..now

CleanupOldKillSwitchAttempts(q) ==
    /\ Goto(q, "cleanup", "count")
    /\ \E t \in ClockRead(q) : attempts' = attempts \ Expired(t)
    /\ UNCHANGED <<at, active, up, now, recorded, countedAt, sawEnough, disputed>>

CleanupError(q) ==
    /\ Goto(q, "cleanup", "count")
    /\ UNCHANGED <<attempts, at, active, up, now, recorded, countedAt, sawEnough, disputed>>

\* Mutant: an attempt exactly one window old no longer counts.
RecentExclusive(q, t) == {a \in attempts \cap Type(q) : at[a] > t - Window}

\* Mutant: kill and restart attempts are counted together.
RecentOfAnyType(q, t) == {a \in attempts : at[a] >= t - Window}

Recent(q, t) == {a \in attempts \cap Type(q) : at[a] >= t - Window}

IsEnough(n) == n >= Needed

\* When q has seen enough, every call of the other endpoint that did so before
\* may be overruled; so may q itself, if one of them has yet to set the status.
Opponents(q) == {p \in sawEnough : Type(p) # Type(q)}
Disputes(q) ==
    Opponents(q) \cup IF \E p \in Opponents(q) : pc[p] = "set" THEN {q} ELSE {}

\* Count, and either go on to set the status or answer "attempt recorded".
GetRecentKillSwitchAttempts(q) ==
    /\ \E t \in ClockRead(q) :
         \/ /\ IsEnough(Cardinality(Recent(q, t)))
            /\ Goto(q, "count", "set")
            /\ sawEnough' = sawEnough \cup {q}
            /\ disputed' = disputed \cup Disputes(q)
         \/ /\ ~IsEnough(Cardinality(Recent(q, t)))
            /\ Goto(q, "count", "done")
            /\ UNCHANGED <<sawEnough, disputed>>
    /\ countedAt' = [countedAt EXCEPT ![q] = now]
    /\ UNCHANGED <<attempts, at, active, up, now, recorded>>

\* The count or the final UPDATE fails: the caller gets a 500.
CountOrSetError(q) ==
    /\ pc[q] \in {"count", "set"}
    /\ Goto(q, pc[q], "failed")
    /\ UNCHANGED <<attempts, at, active, up, now, recorded, countedAt, sawEnough, disputed>>

SetSchedulerStatus(q) ==
    /\ Goto(q, "set", "done")
    /\ active' = (q \in Restarts)
    /\ UNCHANGED <<attempts, at, up, now, recorded, countedAt, sawEnough, disputed>>

\* The process dies and takes its handlers with it; the tables stay.
Crash ==
    /\ up
    /\ up' = FALSE
    /\ pc' = [q \in Requests |->
                IF pc[q] \in {"idle", "done"} THEN pc[q] ELSE "failed"]
    /\ UNCHANGED <<attempts, at, active, now, recorded, countedAt, sawEnough, disputed>>

\* Mutant: the row of the status is written anew, not only if it is missing.
BootResetsStatus ==
    /\ ~up
    /\ up' = TRUE /\ active' = TRUE
    /\ UNCHANGED <<attempts, at, pc, now, recorded, countedAt, sawEnough, disputed>>

Boot ==
    /\ ~up
    /\ up' = TRUE
    /\ UNCHANGED <<attempts, at, active, pc, now, recorded, countedAt, sawEnough, disputed>>

Tick ==
    /\ now < MaxTime
    /\ now' = now + 1
    /\ UNCHANGED <<attempts, at, active, up, pc, recorded, countedAt, sawEnough, disputed>>

Handle(q) ==
    \/ Arrive(q)
    \/ RecordKillSwitchAttempt(q) \/ RecordError(q)
    \/ CleanupOldKillSwitchAttempts(q) \/ CleanupError(q)
    \/ GetRecentKillSwitchAttempts(q) \/ CountOrSetError(q)
    \/ SetSchedulerStatus(q)

Next == Crash \/ Boot \/ Tick \/ \E q \in Requests : Handle(q)

Spec == Init /\ [][Next]_vars

-----------------------------------------------------------------------------
(* Properties *)

\* Every variable has its type; a handler is past its record only if the process
\* has not died under it; a row is one that was inserted, of a time not after now.
TypeOK ==
    /\ attempts \subseteq recorded /\ recorded \subseteq Requests
    /\ disputed \subseteq sawEnough /\ sawEnough \subseteq Requests
    /\ at \in [Requests -> 0..MaxTime]
    /\ countedAt \in [Requests -> 0..MaxTime \cup {Never}]
    /\ active \in BOOLEAN /\ up \in BOOLEAN
    /\ pc \in [Requests ->
                 {"idle", "record", "cleanup", "count", "set", "done", "failed"}]
    /\ now \in 0..MaxTime
    /\ \A q \in Requests : at[q] <= now /\ countedAt[q] <= now
    /\ ~up => \A q \in Requests : pc[q] \in {"idle", "done", "failed"}

SameType(S) == S \subseteq Kills \/ S \subseteq Restarts

\* Enough calls of one type to be effective.
Enough(S) == SameType(S) /\ Cardinality(S) = Needed

\* Every call of S counted within Window of every call of S being recorded.
Together(S) == \A a, b \in S : countedAt[a] - at[b] <= Window

\* A cleanup, by a handler of either endpoint, never takes away an attempt that
\* still counts (api.go:436 keeps five minutes, api.go:441 counts one).
RecentIsKept ==
    \A q \in recorded : at[q] >= now - Window => q \in attempts

\* Of any three calls of one endpoint that were recorded and counted inside one
\* window, however their handlers interleave, at least one sees all three: each
\* records before it counts (api.go:431-441, 512-522).
SomeoneSeesEnough ==
    \A S \in SUBSET recorded :
        (Enough(S) /\ Together(S) /\ \A q \in S : countedAt[q] # Never)
            => S \cap sawEnough # {}

\* README: three kill calls within a minute stop the scheduler, three restart
\* calls start it again.  If all three were recorded and answered without an
\* error, inside one window, the status is theirs, unless a call of the other
\* endpoint saw enough after one of them did, or had seen enough before and was
\* slow to set it (api.go:441-450, 522-531): that UPDATE comes last.
ThreeCallsDecide ==
    \A S \in SUBSET (recorded \ disputed) :
        Enough(S) /\ Together(S) /\ (\A q \in S : pc[q] = "done")
            => active = (S \subseteq Restarts)

\* A set of calls that justifies q's setting the status: enough of its endpoint, of
\* no earlier than one window before q's own attempt and no later than its count.
Backing(q, S) ==
    /\ S \subseteq recorded \cap Type(q) /\ Cardinality(S) >= Needed
    /\ \A a \in S : at[a] \in (at[q] - Window)..countedAt[q]

\* The status changes only on behalf of a call of the right endpoint, and only
\* when at least three calls of that endpoint were recorded between a minute
\* before its attempt and its count: fewer never do it, attempts at the other
\* endpoint never help, and a handler held up between the clock and the query
\* counts later attempts too, never earlier ones (api.go:441-450, 522-531;
\* sqlite.go:312).
ChangeIsBacked ==
    [][active' # active =>
          \E q \in IF active' THEN Restarts ELSE Kills :
             /\ pc[q] = "set" /\ pc'[q] = "done"
             /\ \E S \in SUBSET recorded : Backing(q, S)]_vars
=============================================================================
