-------------------------- MODULE KillSwitchProofs --------------------------
(***************************************************************************)
(* The kill switch's safety, for any finite set of calls, any number of    *)
(* needed attempts, and any window no longer than the cleanup's horizon.   *)
(***************************************************************************)
EXTENDS KillSwitch, FiniteSetTheorems, TLAPS

\* How far a handler has come and what it has left behind: it records before it
\* counts, and each only once.
Progress ==
    \A q \in Requests :
        /\ pc[q] \in {"idle", "record"} => q \notin recorded
        /\ pc[q] \in {"idle", "record", "cleanup", "count"}
             => countedAt[q] = Never /\ q \notin sawEnough
        /\ pc[q] \in {"set", "done"} => countedAt[q] # Never
        /\ pc[q] = "set" => q \in sawEnough

\* A call about to set the status has seen a set of calls that backs it.
SetIsBacked ==
    \A q \in Requests : pc[q] = "set" =>
        \E S \in SUBSET recorded : Backing(q, S)

\* While a call that saw enough is undisputed no call of the other endpoint is
\* about to set the status, and once it has answered the status is its own.
UndisputedStands ==
    \A q \in sawEnough \ disputed :
        /\ \A p \in sawEnough : pc[p] = "set" => Type(p) = Type(q)
        /\ pc[q] = "done" => active = (q \in Restarts)

Safe ==
    /\ Progress
    /\ RecentIsKept
    /\ SomeoneSeesEnough
    /\ SetIsBacked
    /\ UndisputedStands

IInv == TypeOK /\ Safe

USE DEF Requests, Never, Goto

-----------------------------------------------------------------------------
(* Types *)

\* Types and the coherence of down processes are inductive by themselves.
LEMMA TypeOKStep == TypeOK /\ [Next]_vars => TypeOK'
<1> SUFFICES ASSUME TypeOK, [Next]_vars PROVE TypeOK'
    OBVIOUS
<1> USE WindowAssumption, TimeAssumption DEF TypeOK
<1>1. CASE Crash
    BY <1>1 DEF Crash
<1>2. CASE Boot
    BY <1>2 DEF Boot
<1>3. CASE Tick
    BY <1>3 DEF Tick
<1>4. ASSUME NEW q \in Requests, Handle(q) PROVE TypeOK'
    <2>1. CASE Arrive(q)
        BY <2>1 DEF Arrive
    <2>2. CASE RecordKillSwitchAttempt(q)
        BY <2>2 DEF RecordKillSwitchAttempt
    <2>3. CASE RecordError(q) \/ CleanupError(q)
        BY <2>3 DEF RecordError, CleanupError
    <2>4. CASE CleanupOldKillSwitchAttempts(q)
        BY <2>4 DEF CleanupOldKillSwitchAttempts
    <2>5. CASE GetRecentKillSwitchAttempts(q)
        BY <2>5 DEF GetRecentKillSwitchAttempts, Disputes, Opponents
    <2>6. CASE CountOrSetError(q)
        BY <2>6 DEF CountOrSetError
    <2>7. CASE SetSchedulerStatus(q)
        BY <2>7 DEF SetSchedulerStatus
    <2> QED
        BY <1>4, <2>1, <2>2, <2>3, <2>4, <2>5, <2>6, <2>7 DEF Handle
<1>5. CASE UNCHANGED vars
    BY <1>5 DEF vars
<1> QED
    BY <1>1, <1>2, <1>3, <1>4, <1>5 DEF Next

-----------------------------------------------------------------------------
(* Counting *)

\* What a handler counts is a finite set of recorded calls of its own endpoint.
LEMMA RecentBacks ==
    ASSUME TypeOK, NEW q \in Requests, NEW t
    PROVE  /\ IsFiniteSet(Recent(q, t))
           /\ Recent(q, t) \subseteq recorded \cap Type(q)
<1>1. Recent(q, t) \subseteq recorded \cap Type(q)
    BY DEF Recent, TypeOK
<1>2. IsFiniteSet(Recent(q, t))
    BY <1>1, RequestsAssumption, FS_Subset DEF TypeOK
<1> QED
    BY <1>1, <1>2

\* The last call of a group to count sees the whole group.
LEMMA LastCounterSeesAll ==
    ASSUME TypeOK, RecentIsKept, NEW q \in Requests, NEW S \in SUBSET recorded,
           q \in S, Enough(S), \A b \in S : at[b] >= now - Window,
           NEW t \in ClockRead(q)
    PROVE  Cardinality(Recent(q, t)) >= Needed
<1>1. S \subseteq Type(q)
    BY RequestsAssumption DEF Enough, SameType, Type
<1>2. \A b \in S : at[b] >= t - Window
    BY WindowAssumption DEF ClockRead, TypeOK
<1>3. Cardinality(S) <= Cardinality(Recent(q, t))
    <2>1. S \subseteq Recent(q, t)
        BY <1>1, <1>2 DEF RecentIsKept, Recent
    <2> QED
        BY <2>1, RecentBacks, FS_Subset
<1>4. Cardinality(Recent(q, t)) \in Nat
    BY RecentBacks, FS_CardinalityType
<1> QED
    BY <1>3, <1>4, WindowAssumption DEF Enough

-----------------------------------------------------------------------------
(* The inductive invariant, conjunct by conjunct *)

\* No handler records or counts twice.
LEMMA ProgressStep == TypeOK /\ Safe /\ [Next]_vars => Progress'
<1> SUFFICES ASSUME TypeOK, Safe, [Next]_vars PROVE Progress'
    OBVIOUS
<1>0. TypeOK'
    BY TypeOKStep
<1> USE <1>0 DEF Safe, Progress, TypeOK
<1>1. CASE Crash
    BY <1>1 DEF Crash
<1>2. CASE Boot
    BY <1>2 DEF Boot
<1>3. CASE Tick
    BY <1>3 DEF Tick
<1>4. ASSUME NEW q \in Requests, Handle(q) PROVE Progress'
    <2>1. CASE Arrive(q)
        BY <2>1 DEF Arrive
    <2>2. CASE RecordKillSwitchAttempt(q)
        BY <2>2 DEF RecordKillSwitchAttempt
    <2>3. CASE RecordError(q) \/ CleanupError(q)
        BY <2>3 DEF RecordError, CleanupError
    <2>4. CASE CleanupOldKillSwitchAttempts(q)
        BY <2>4 DEF CleanupOldKillSwitchAttempts
    <2>5. CASE GetRecentKillSwitchAttempts(q)
        BY <2>5 DEF GetRecentKillSwitchAttempts
    <2>6. CASE CountOrSetError(q)
        BY <2>6 DEF CountOrSetError
    <2>7. CASE SetSchedulerStatus(q)
        BY <2>7 DEF SetSchedulerStatus
    <2> QED
        BY <1>4, <2>1, <2>2, <2>3, <2>4, <2>5, <2>6, <2>7 DEF Handle
<1>5. CASE UNCHANGED vars
    BY <1>5 DEF vars
<1> QED
    BY <1>1, <1>2, <1>3, <1>4, <1>5 DEF Next

\* The horizon being no shorter than the window, a cleanup keeps what counts.
LEMMA RecentIsKeptStep == TypeOK /\ Safe /\ [Next]_vars => RecentIsKept'
<1> SUFFICES ASSUME TypeOK, Safe, [Next]_vars PROVE RecentIsKept'
    OBVIOUS
<1>0. TypeOK'
    BY TypeOKStep
<1> USE <1>0, WindowAssumption, TimeAssumption DEF Safe, RecentIsKept, TypeOK, Progress
<1>1. CASE Crash
    BY <1>1 DEF Crash
<1>2. CASE Boot
    BY <1>2 DEF Boot
<1>3. CASE Tick
    BY <1>3 DEF Tick
<1>4. ASSUME NEW q \in Requests, Handle(q) PROVE RecentIsKept'
    <2>1. CASE Arrive(q)
        BY <2>1 DEF Arrive
    <2>2. CASE RecordKillSwitchAttempt(q)
        BY <2>2 DEF RecordKillSwitchAttempt
    <2>3. CASE RecordError(q) \/ CleanupError(q)
        BY <2>3 DEF RecordError, CleanupError
    <2>4. CASE CleanupOldKillSwitchAttempts(q)
        BY <2>4 DEF CleanupOldKillSwitchAttempts, Expired, ClockRead
    <2>5. CASE GetRecentKillSwitchAttempts(q)
        BY <2>5 DEF GetRecentKillSwitchAttempts
    <2>6. CASE CountOrSetError(q)
        BY <2>6 DEF CountOrSetError
    <2>7. CASE SetSchedulerStatus(q)
        BY <2>7 DEF SetSchedulerStatus
    <2> QED
        BY <1>4, <2>1, <2>2, <2>3, <2>4, <2>5, <2>6, <2>7 DEF Handle
<1>5. CASE UNCHANGED vars
    BY <1>5 DEF vars
<1> QED
    BY <1>1, <1>2, <1>3, <1>4, <1>5 DEF Next

\* Only a count can complete a group, and the count that does sees all of it.
LEMMA SomeoneSeesEnoughStep == TypeOK /\ Safe /\ [Next]_vars => SomeoneSeesEnough'
<1> SUFFICES ASSUME TypeOK, Safe, [Next]_vars PROVE SomeoneSeesEnough'
    OBVIOUS
<1>0. TypeOK'
    BY TypeOKStep
<1> USE <1>0, WindowAssumption, TimeAssumption DEF Safe, SomeoneSeesEnough, TypeOK, Progress, Enough, SameType, Together
<1>1. CASE Crash
    BY <1>1 DEF Crash
<1>2. CASE Boot
    BY <1>2 DEF Boot
<1>3. CASE Tick
    BY <1>3 DEF Tick
<1>4. ASSUME NEW q \in Requests, Handle(q) PROVE SomeoneSeesEnough'
    <2>1. CASE Arrive(q)
        BY <2>1 DEF Arrive
    <2>2. CASE RecordKillSwitchAttempt(q)
        BY <2>2 DEF RecordKillSwitchAttempt
    <2>3. CASE RecordError(q) \/ CleanupError(q)
        BY <2>3 DEF RecordError, CleanupError
    <2>4. CASE CleanupOldKillSwitchAttempts(q)
        BY <2>4 DEF CleanupOldKillSwitchAttempts
    <2>5. CASE GetRecentKillSwitchAttempts(q)
        <3> SUFFICES ASSUME NEW S \in SUBSET recorded', Enough(S), Together(S)',
                            \A b \in S : countedAt'[b] # Never
                     PROVE  S \cap sawEnough' # {}
            BY DEF SomeoneSeesEnough
        <3>1. S \in SUBSET recorded /\ UNCHANGED <<recorded, at>>
            BY <2>5 DEF GetRecentKillSwitchAttempts
        <3>2. CASE q \in S
            <4>1. \A b \in S : at[b] >= now - Window
                BY <2>5, <3>1, <3>2 DEF GetRecentKillSwitchAttempts
            <4>2. \A t \in ClockRead(q) : Cardinality(Recent(q, t)) >= Needed
                BY <3>1, <3>2, <4>1, LastCounterSeesAll
            <4>3. q \in sawEnough'
                BY <2>5, <4>2, RecentBacks, FS_CardinalityType
                DEF GetRecentKillSwitchAttempts, IsEnough
            <4> QED
                BY <3>2, <4>3
        <3>3. CASE q \notin S
            <4>1. \A b \in S : countedAt'[b] = countedAt[b]
                BY <2>5, <3>1, <3>3 DEF GetRecentKillSwitchAttempts
            <4>2. S \cap sawEnough # {}
                BY <3>1, <4>1
            <4> QED
                BY <2>5, <4>2 DEF GetRecentKillSwitchAttempts
        <3> QED
            BY <3>2, <3>3
    <2>6. CASE CountOrSetError(q)
        BY <2>6 DEF CountOrSetError
    <2>7. CASE SetSchedulerStatus(q)
        BY <2>7 DEF SetSchedulerStatus
    <2> QED
        BY <1>4, <2>1, <2>2, <2>3, <2>4, <2>5, <2>6, <2>7 DEF Handle
<1>5. CASE UNCHANGED vars
    BY <1>5 DEF vars
<1> QED
    BY <1>1, <1>2, <1>3, <1>4, <1>5 DEF Next

\* A handler goes on to set the status only from a count that backs it.
LEMMA SetIsBackedStep == TypeOK /\ Safe /\ [Next]_vars => SetIsBacked'
<1> SUFFICES ASSUME TypeOK, Safe, [Next]_vars PROVE SetIsBacked'
    OBVIOUS
<1>0. TypeOK'
    BY TypeOKStep
<1> USE <1>0 DEF Safe, SetIsBacked, TypeOK, Progress, Backing
<1>1. CASE Crash
    BY <1>1 DEF Crash
<1>2. CASE Boot
    BY <1>2 DEF Boot
<1>3. CASE Tick
    BY <1>3 DEF Tick
<1>4. ASSUME NEW q \in Requests, Handle(q) PROVE SetIsBacked'
    <2>1. CASE Arrive(q)
        BY <2>1 DEF Arrive
    <2>2. CASE RecordKillSwitchAttempt(q)
        BY <2>2 DEF RecordKillSwitchAttempt
    <2>3. CASE RecordError(q) \/ CleanupError(q)
        BY <2>3 DEF RecordError, CleanupError
    <2>4. CASE CleanupOldKillSwitchAttempts(q)
        BY <2>4 DEF CleanupOldKillSwitchAttempts
    <2>5. CASE GetRecentKillSwitchAttempts(q)
        <3> SUFFICES ASSUME NEW p \in Requests, pc'[p] = "set"
                     PROVE  \E S \in SUBSET recorded' : Backing(p, S)'
            BY DEF SetIsBacked
        <3>1. CASE p = q
            <4>1. PICK t \in ClockRead(q) : Cardinality(Recent(q, t)) >= Needed
                BY <2>5, <3>1 DEF GetRecentKillSwitchAttempts, IsEnough
            <4>2. /\ at' = at /\ recorded' = recorded
                  /\ countedAt'[q] = now
                BY <2>5 DEF GetRecentKillSwitchAttempts
            <4>3. Recent(q, t) \subseteq recorded \cap Type(q)
                BY RecentBacks
            <4>4. \A a \in Recent(q, t) : at[a] \in (at[q] - Window)..now
                BY WindowAssumption, TimeAssumption DEF Recent, ClockRead
            <4> HIDE DEF TypeOK
            <4> QED
                BY <3>1, <4>1, <4>2, <4>3, <4>4
        <3>2. CASE p # q
            BY <2>5, <3>2 DEF GetRecentKillSwitchAttempts
        <3> QED
            BY <3>1, <3>2
    <2>6. CASE CountOrSetError(q)
        BY <2>6 DEF CountOrSetError
    <2>7. CASE SetSchedulerStatus(q)
        BY <2>7 DEF SetSchedulerStatus
    <2> QED
        BY <1>4, <2>1, <2>2, <2>3, <2>4, <2>5, <2>6, <2>7 DEF Handle
<1>5. CASE UNCHANGED vars
    BY <1>5 DEF vars
<1> QED
    BY <1>1, <1>2, <1>3, <1>4, <1>5 DEF Next

\* A call whose endpoint is in dispute makes the others disputed before it can
\* set the status.
LEMMA UndisputedStandsStep == TypeOK /\ Safe /\ [Next]_vars => UndisputedStands'
<1> SUFFICES ASSUME TypeOK, Safe, [Next]_vars PROVE UndisputedStands'
    OBVIOUS
<1>0. TypeOK'
    BY TypeOKStep
<1> USE <1>0, RequestsAssumption DEF Safe, UndisputedStands, TypeOK, Progress
<1>1. CASE Crash
    BY <1>1 DEF Crash
<1>2. CASE Boot
    BY <1>2 DEF Boot
<1>3. CASE Tick
    BY <1>3 DEF Tick
<1>4. ASSUME NEW q \in Requests, Handle(q) PROVE UndisputedStands'
    <2>1. CASE Arrive(q)
        BY <2>1 DEF Arrive
    <2>2. CASE RecordKillSwitchAttempt(q)
        BY <2>2 DEF RecordKillSwitchAttempt
    <2>3. CASE RecordError(q) \/ CleanupError(q)
        BY <2>3 DEF RecordError, CleanupError
    <2>4. CASE CleanupOldKillSwitchAttempts(q)
        BY <2>4 DEF CleanupOldKillSwitchAttempts
    <2>5. CASE GetRecentKillSwitchAttempts(q)
        <3> SUFFICES ASSUME NEW c \in sawEnough' \ disputed'
                     PROVE  /\ \A p \in sawEnough' : pc'[p] = "set" => Type(p) = Type(c)
                            /\ pc'[c] = "done" => active' = (c \in Restarts)
            BY DEF UndisputedStands
        <3>1. CASE sawEnough' = sawEnough /\ disputed' = disputed
            BY <2>5, <3>1 DEF GetRecentKillSwitchAttempts
        <3>2. CASE /\ sawEnough' = sawEnough \cup {q}
                   /\ disputed' = disputed \cup Disputes(q) /\ pc'[q] = "set"
            <4>1. CASE c = q
                BY <2>5, <3>2, <4>1 DEF GetRecentKillSwitchAttempts, Disputes, Opponents
            <4>2. CASE c # q
                BY <2>5, <3>2, <4>2 DEF GetRecentKillSwitchAttempts, Disputes, Opponents
            <4> QED
                BY <4>1, <4>2
        <3> QED
            BY <2>5, <3>1, <3>2 DEF GetRecentKillSwitchAttempts
    <2>6. CASE CountOrSetError(q)
        BY <2>6 DEF CountOrSetError
    <2>7. CASE SetSchedulerStatus(q)
        <3>1. active' = (q \in Restarts)
            BY <2>7, Zenon DEF SetSchedulerStatus
        <3>2. \A c \in sawEnough \ disputed : Type(c) = Type(q)
            BY <2>7 DEF SetSchedulerStatus
        <3>3. \A c \in sawEnough \ disputed : c \in Restarts <=> q \in Restarts
            BY <3>2 DEF Type
        <3> QED
            BY <2>7, <3>1, <3>3 DEF SetSchedulerStatus
    <2> QED
        BY <1>4, <2>1, <2>2, <2>3, <2>4, <2>5, <2>6, <2>7 DEF Handle
<1>5. CASE UNCHANGED vars
    BY <1>5 DEF vars
<1> QED
    BY <1>1, <1>2, <1>3, <1>4, <1>5 DEF Next

-----------------------------------------------------------------------------
(* Theorems *)

\* A fresh database satisfies the invariant.
LEMMA InitIInv == Init => IInv
<1> SUFFICES ASSUME Init PROVE IInv
    OBVIOUS
<1>1. TypeOK
    BY TimeAssumption, WindowAssumption DEF Init, TypeOK
<1>2. Progress /\ RecentIsKept /\ SetIsBacked /\ UndisputedStands
    BY DEF Init, Progress, RecentIsKept, SetIsBacked, UndisputedStands
<1>3. SomeoneSeesEnough
    <2> SUFFICES ASSUME NEW S \in SUBSET recorded, Enough(S),
                        \A q \in S : countedAt[q] # Never
                 PROVE  S \cap sawEnough # {}
        BY DEF SomeoneSeesEnough
    <2>1. S = {} /\ Needed # 0
        BY WindowAssumption DEF Init
    <2> QED
        BY <2>1, FS_EmptySet DEF Enough
<1> QED
    BY <1>1, <1>2, <1>3 DEF IInv, Safe

\* Types are right in every reachable state.
THEOREM TypeCorrect == Spec => []TypeOK
<1>1. Init => TypeOK
    BY InitIInv DEF IInv
<1> QED
    BY <1>1, TypeOKStep, PTL DEF Spec

\* IInv, the strengthening, holds of every reachable state.
THEOREM InvariantHolds == Spec => []IInv
<1>1. IInv /\ [Next]_vars => IInv'
    BY TypeOKStep, ProgressStep, RecentIsKeptStep, SomeoneSeesEnoughStep,
       SetIsBackedStep, UndisputedStandsStep DEF IInv, Safe
<1> QED
    BY InitIInv, <1>1, PTL DEF Spec

\* A cleanup never takes away an attempt that still counts.
THEOREM RecentIsKeptHolds == Spec => []RecentIsKept
<1>1. IInv => RecentIsKept
    BY DEF IInv, Safe
<1> QED
    BY InvariantHolds, <1>1, PTL

\* Of enough calls inside one window at least one sees them all.
THEOREM SomeoneSeesEnoughHolds == Spec => []SomeoneSeesEnough
<1>1. IInv => SomeoneSeesEnough
    BY DEF IInv, Safe
<1> QED
    BY InvariantHolds, <1>1, PTL

\* Enough answered calls inside one window decide the status, unless disputed.
THEOREM ThreeCallsDecideHolds == Spec => []ThreeCallsDecide
<1>1. IInv => ThreeCallsDecide
    <2> SUFFICES ASSUME IInv, NEW S \in SUBSET (recorded \ disputed),
                        Enough(S), Together(S), \A q \in S : pc[q] = "done"
                 PROVE  active = (S \subseteq Restarts)
        BY DEF ThreeCallsDecide
    <2>1. \A q \in S : countedAt[q] # Never
        BY DEF IInv, Safe, Progress, TypeOK
    <2>2. PICK q \in S : q \in sawEnough
        BY <2>1 DEF IInv, Safe, SomeoneSeesEnough
    <2>3. active = (q \in Restarts)
        BY <2>2 DEF IInv, Safe, UndisputedStands
    <2>4. q \in Restarts <=> S \subseteq Restarts
        BY <2>2, RequestsAssumption DEF Enough, SameType
    <2> QED
        BY <2>3, <2>4
<1> QED
    BY InvariantHolds, <1>1, PTL

\* The status changes only when enough calls of the right endpoint back it.
THEOREM ChangeIsBackedHolds == Spec => ChangeIsBacked
<1> DEFINE Backed ==
        active' # active =>
          \E q \in IF active' THEN Restarts ELSE Kills :
             /\ pc[q] = "set" /\ pc'[q] = "done"
             /\ \E S \in SUBSET recorded : Backing(q, S)
<1>1. IInv /\ [Next]_vars => [Backed]_vars
    <2> SUFFICES ASSUME IInv, Next, active' # active PROVE Backed
        BY DEF vars
    <2>1. PICK q \in Requests : SetSchedulerStatus(q)
        BY DEF Next, Crash, Boot, Tick, Handle, Arrive, RecordKillSwitchAttempt,
               RecordError, CleanupOldKillSwitchAttempts, CleanupError,
               GetRecentKillSwitchAttempts, CountOrSetError
    <2>2. pc[q] = "set" /\ pc'[q] = "done"
        BY <2>1 DEF SetSchedulerStatus, IInv, TypeOK
    <2>3. \E S \in SUBSET recorded : Backing(q, S)
        BY <2>2 DEF IInv, Safe, SetIsBacked
    <2>4. active' = (q \in Restarts)
        BY <2>1, Zenon DEF SetSchedulerStatus
    <2>5. q \in IF active' THEN Restarts ELSE Kills
        BY <2>4
    <2> QED
        BY <2>2, <2>3, <2>5
<1> QED
    BY InvariantHolds, <1>1, PTL DEF Spec, ChangeIsBacked
=============================================================================
