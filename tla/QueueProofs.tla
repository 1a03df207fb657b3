----------------------------- MODULE QueueProofs -----------------------------
(***************************************************************************)
(* Proofs about the queue, CertQueue, for every set of rows and of delays, *)
(* and about the poller beside it, HeaderLookup, for every set of copies   *)
(* among the rows, on top of the queue's invariant.                        *)
(***************************************************************************)
EXTENDS HeaderLookup, TLAPS


\* What TypeOK and the four safety invariants need to be inductive: the row in
\* hand has left the batch and, once its call was served, is among the accepted;
\* the status column is the negation of the kill in force; and while no kill is
\* in force, or the run has not read its list, or the row is still in the batch,
\* no request of the row counts as sent under a kill.
Bookkeeping ==
    /\ current \notin batch
    /\ (call = "accepted" \/ pc = "mark") => current \in accepted
    /\ active = ~killed
    /\ \A r \in Rows :
         (~killed \/ pc = "list" \/ r \in batch) => killSends[r] = 0

\* The four safety invariants with their bookkeeping.
Safe ==
    /\ ProcessedWasAccepted
    /\ NeverResendProcessed
    /\ ReleasedOnlyWhenDue
    /\ KilledSendsAtMostOnce
    /\ Bookkeeping

IInv == TypeOK /\ Safe

USE DEF NotStored, Stored, StoredRows, InHand

-----------------------------------------------------------------------------
(* Initially *)

\* A fresh database and a process that is down satisfy the invariant.
LEMMA InitIInv == Init => IInv
<1> SUFFICES ASSUME Init PROVE IInv
    OBVIOUS
<1> USE RowsAssumption, DelayAssumption, TimeAssumption DEF Init
<1>1. killed = FALSE /\ active = TRUE /\ active = ~killed
    OBVIOUS
<1>2. batch = {} /\ current = NoRow /\ current \notin batch /\ InHand = {}
    OBVIOUS
<1>3. killSends \in [Rows -> Nat] /\ \A r \in Rows : killSends[r] = 0
    OBVIOUS
<1>4. received \in [Rows -> Int] /\ \A r \in Rows : received[r] = -1
    OBVIOUS
<1>5. TypeOK
    <2>1. active \in BOOLEAN /\ killed \in BOOLEAN
        BY <1>1
    <2>2. now \in 0..MaxTime /\ delay \in Int
        OBVIOUS
    <2>3. processed \cup overridden \cup orphans \cup accepted \cup InHand = {}
        BY <1>2
    <2> QED
        BY <1>2, <1>3, <1>4, <2>1, <2>2, <2>3 DEF TypeOK
<1>6. ProcessedWasAccepted /\ NeverResendProcessed
    BY <1>2 DEF ProcessedWasAccepted, NeverResendProcessed
<1>7. ReleasedOnlyWhenDue
    BY <1>2 DEF ReleasedOnlyWhenDue
<1>8. KilledSendsAtMostOnce
    BY <1>3 DEF KilledSendsAtMostOnce
<1>9. Bookkeeping
    BY <1>1, <1>2, <1>3 DEF Bookkeeping
<1> QED
    BY <1>5, <1>6, <1>7, <1>8, <1>9 DEF IInv, Safe

-----------------------------------------------------------------------------
(* Types *)

\* The type invariant is inductive by itself: it is preserved by every step.
LEMMA TypeOKStep == TypeOK /\ [Next]_vars => TypeOK'
<1> SUFFICES ASSUME TypeOK, [Next]_vars PROVE TypeOK'
    OBVIOUS
<1> USE RowsAssumption, DelayAssumption, TimeAssumption DEF TypeOK, store, task
<1>1. CASE Process
    <2>1. CASE Boot
        BY <2>1 DEF Boot, BootWith
    <2>2. CASE Crash
        BY <2>2 DEF Crash, DropTask, Alive
    <2>3. CASE PanicOnMissingId
        BY <2>3 DEF PanicOnMissingId, DropTask
    <2>4. CASE Cancel
        BY <2>4 DEF Cancel
    <2>5. CASE Exit
        BY <2>5 DEF Exit
    <2> QED
        BY <1>1, <2>1, <2>2, <2>3, <2>4, <2>5 DEF Process
<1>2. CASE Tick
    BY <1>2 DEF Tick
<1>3. CASE Handlers
    <2>1. ASSUME NEW r \in Rows, StoreCertificate(r) PROVE TypeOK'
        BY <2>1 DEF StoreCertificate, Alive
    <2>2. ASSUME NEW r \in Rows, Override(r) PROVE TypeOK'
        BY <2>2 DEF Override, Alive
    <2>3. ASSUME NEW b \in BOOLEAN, SetSchedulerStatus(b) PROVE TypeOK'
        BY <2>3 DEF SetSchedulerStatus, Alive
    <2> QED
        BY <1>3, <2>1, <2>2, <2>3 DEF Handlers
<1>4. CASE Scheduler
    <2>1. CASE TaskStart
        BY <2>1 DEF TaskStart
    <2>2. CASE ReadStatusActive
        BY <2>2 DEF ReadStatusActive
    <2>3. CASE ReadStatusSkip \/ ListError \/ LoopEnd
        BY <2>3 DEF ReadStatusSkip, ListError, LoopEnd, Finish
    <2>4. CASE ListProcessable \/ ListCutShort
        BY <2>4 DEF ListProcessable, ListCutShort, ListRows, Processable
    <2>5. CASE SendTimeout
        BY <2>5 DEF SendTimeout, NextInLoop
    <2>6. CASE MarkError
        BY <2>6 DEF MarkError, NextInLoop
    <2>7. ASSUME NEW r \in Rows, BeginSend(r) PROVE TypeOK'
        BY <2>7 DEF BeginSend
    <2>8. ASSUME NEW r \in Rows, MarkProcessed(r) PROVE TypeOK'
        BY <2>8 DEF MarkProcessed, NextInLoop
    <2> QED
        BY <1>4, <2>1, <2>2, <2>3, <2>4, <2>5, <2>6, <2>7, <2>8 DEF Scheduler
<1>5. CASE Upstream
    <2>1. CASE SendRefused
        BY <2>1 DEF SendRefused, NextInLoop
    <2>2. ASSUME NEW r \in Rows, UpstreamAccept(r) PROVE TypeOK'
        BY <2>2 DEF UpstreamAccept
    <2>3. ASSUME NEW r \in Rows, UpstreamAcceptLate(r) PROVE TypeOK'
        BY <2>3 DEF UpstreamAcceptLate
    <2>4. ASSUME NEW r \in Rows, SendOk(r) PROVE TypeOK'
        BY <2>4 DEF SendOk
    <2> QED
        BY <1>5, <2>1, <2>2, <2>3, <2>4 DEF Upstream
<1>6. CASE UNCHANGED vars
    BY <1>6 DEF vars
<1> QED
    BY <1>1, <1>2, <1>3, <1>4, <1>5, <1>6 DEF Next

\* Type correctness of the queue, for every value of its constants.
THEOREM TypeCorrect == Spec => []TypeOK
<1>1. Init => TypeOK
    BY InitIInv DEF IInv
<1> QED
    BY <1>1, TypeOKStep, PTL DEF Spec

-----------------------------------------------------------------------------
(* Safety *)

\* Every step preserves the inductive invariant.
LEMMA SafeStep == TypeOK /\ Safe /\ [Next]_vars => Safe'
<1> SUFFICES ASSUME TypeOK, Safe, [Next]_vars PROVE Safe'
    OBVIOUS
<1>0. TypeOK'
    BY TypeOKStep
<1> USE <1>0, RowsAssumption, DelayAssumption
        DEF Safe, TypeOK, ProcessedWasAccepted, NeverResendProcessed,
            ReleasedOnlyWhenDue, KilledSendsAtMostOnce, Bookkeeping, Due,
            Elapsed, store, task
<1>1. CASE Process
    <2>1. CASE Boot
        BY <2>1 DEF Boot, BootWith
    <2>2. CASE Crash
        BY <2>2 DEF Crash, DropTask, Alive
    <2>3. CASE PanicOnMissingId
        BY <2>3 DEF PanicOnMissingId, DropTask
    <2>4. CASE Cancel
        BY <2>4 DEF Cancel
    <2>5. CASE Exit
        BY <2>5 DEF Exit
    <2> QED
        BY <1>1, <2>1, <2>2, <2>3, <2>4, <2>5 DEF Process
<1>2. CASE Tick
    BY <1>2 DEF Tick
<1>3. CASE Handlers
    <2>1. ASSUME NEW r \in Rows, StoreCertificate(r) PROVE Safe'
        BY <2>1 DEF StoreCertificate, Alive
    <2>2. ASSUME NEW r \in Rows, Override(r) PROVE Safe'
        BY <2>2 DEF Override, Alive
    <2>3. ASSUME NEW b \in BOOLEAN, SetSchedulerStatus(b) PROVE Safe'
        <3>1. active' = ~killed'
            BY <2>3, Zenon DEF SetSchedulerStatus
        <3>2. CASE b
            <4>1. \A r \in Rows : killSends'[r] = 0
                BY <2>3, <3>2 DEF SetSchedulerStatus
            <4> QED
                BY <2>3, <3>1, <4>1 DEF SetSchedulerStatus
        <3>3. CASE ~b
            <4>1. killed' /\ UNCHANGED killSends
                BY <2>3, <3>3 DEF SetSchedulerStatus
            <4> QED
                BY <2>3, <3>1, <4>1 DEF SetSchedulerStatus
        <3> QED
            BY <3>2, <3>3
    <2> QED
        BY <1>3, <2>1, <2>2, <2>3 DEF Handlers
<1>4. CASE Scheduler
    <2>1. CASE TaskStart
        BY <2>1 DEF TaskStart
    <2>2. CASE ReadStatusActive
        BY <2>2 DEF ReadStatusActive
    <2>3. CASE ReadStatusSkip \/ ListError \/ LoopEnd
        BY <2>3 DEF ReadStatusSkip, ListError, LoopEnd, Finish
    <2>4. CASE ListProcessable \/ ListCutShort
        BY <2>4 DEF ListProcessable, ListCutShort, ListRows, Processable
    <2>5. CASE SendTimeout
        BY <2>5 DEF SendTimeout, NextInLoop
    <2>6. CASE MarkError
        BY <2>6 DEF MarkError, NextInLoop
    <2>7. ASSUME NEW r \in Rows, BeginSend(r) PROVE Safe'
        BY <2>7 DEF BeginSend
    <2>8. ASSUME NEW r \in Rows, MarkProcessed(r) PROVE Safe'
        BY <2>8 DEF MarkProcessed, NextInLoop
    <2> QED
        BY <1>4, <2>1, <2>2, <2>3, <2>4, <2>5, <2>6, <2>7, <2>8 DEF Scheduler
<1>5. CASE Upstream
    <2>1. CASE SendRefused
        BY <2>1 DEF SendRefused, NextInLoop
    <2>2. ASSUME NEW r \in Rows, UpstreamAccept(r) PROVE Safe'
        BY <2>2 DEF UpstreamAccept
    <2>3. ASSUME NEW r \in Rows, UpstreamAcceptLate(r) PROVE Safe'
        BY <2>3 DEF UpstreamAcceptLate
    <2>4. ASSUME NEW r \in Rows, SendOk(r) PROVE Safe'
        BY <2>4 DEF SendOk
    <2> QED
        BY <1>5, <2>1, <2>2, <2>3, <2>4 DEF Upstream
<1>6. CASE UNCHANGED vars
    BY <1>6 DEF vars
<1> QED
    BY <1>1, <1>2, <1>3, <1>4, <1>5, <1>6 DEF Next

\* IInv, the strengthening, holds of every reachable state.
THEOREM InvariantHolds == Spec => []IInv
<1>1. IInv /\ [Next]_vars => IInv'
    BY TypeOKStep, SafeStep DEF IInv
<1> QED
    BY InitIInv, <1>1, PTL DEF Spec

\* A certificate is written off only once the upstream has accepted it.
THEOREM ProcessedWasAcceptedHolds == Spec => []ProcessedWasAccepted
<1>1. IInv => ProcessedWasAccepted
    BY DEF IInv, Safe
<1> QED
    BY InvariantHolds, <1>1, PTL

\* No run has a processed row in hand.
THEOREM NeverResendProcessedHolds == Spec => []NeverResendProcessed
<1>1. IInv => NeverResendProcessed
    BY DEF IInv, Safe
<1> QED
    BY InvariantHolds, <1>1, PTL

\* Every row in hand has waited its delay or was overridden.
THEOREM ReleasedOnlyWhenDueHolds == Spec => []ReleasedOnlyWhenDue
<1>1. IInv => ReleasedOnlyWhenDue
    BY DEF IInv, Safe
<1> QED
    BY InvariantHolds, <1>1, PTL

\* Under a kill no certificate is sent twice, across runs, crashes and boots.
THEOREM KilledSendsAtMostOnceHolds == Spec => []KilledSendsAtMostOnce
<1>1. IInv => KilledSendsAtMostOnce
    BY DEF IInv, Safe
<1> QED
    BY InvariantHolds, <1>1, PTL

-----------------------------------------------------------------------------
(* Implementation of HoldAndForward *)

\* A step that leaves every row in its phase is a step of the promise, whatever
\* it does to what is permitted.
LEMMA SamePhase ==
    ASSUME \A q \in Rows : Phase'[q] = Phase[q]
    PROVE  HF!Repermit
<1>1. Phase' = Phase
    BY DEF Phase
<1>2. Permitted' \in SUBSET Rows
    BY DEF Permitted
<1> QED
    BY <1>1, <1>2 DEF HF!Repermit

\* Moving one row to another phase, and nothing else, is HoldAndForward's Become.
LEMMA OnePhase ==
    ASSUME NEW r \in Rows, NEW from, NEW to, Phase[r] = from,
           Phase'[r] = to,
           \A q \in Rows \ {r} : Phase'[q] = Phase[q]
    PROVE  HF!Become(r, from, to)
<1>1. Phase' = [Phase EXCEPT ![r] = to]
    BY DEF Phase
<1> QED
    BY <1>1 DEF HF!Become

\* What is due does not change while the columns, the delay and the clock stand.
LEMMA SamePermitted ==
    ASSUME UNCHANGED <<received, overridden, delay, now>>
    PROVE  Permitted' = Permitted
BY DEF Permitted, Due, Elapsed

\* Every step of the queue is a step of the promise, or changes nothing of it.
LEMMA RefinementStep == IInv /\ [Next]_vars => [HF!HNext]_(HF!absVars)
<1> SUFFICES ASSUME IInv, [Next]_vars PROVE [HF!HNext]_(HF!absVars)
    OBVIOUS
<1> USE RowsAssumption DEF store, task
<1>0. TypeOK /\ Bookkeeping
    BY DEF IInv, Safe
<1>a. ASSUME \A q \in Rows : Phase'[q] = Phase[q] PROVE HF!HNext
    BY <1>a, SamePhase DEF HF!HNext
<1>1. CASE Process
    <2>1. \A q \in Rows : Phase'[q] = Phase[q]
        <3>1. CASE Boot
            BY <3>1 DEF Boot, BootWith, Phase, InFlight
        <3>2. CASE Crash
            BY <1>0, <3>2 DEF Crash, DropTask, Alive, Phase, InFlight, TypeOK
        <3>3. CASE PanicOnMissingId
            BY <1>0, <3>3 DEF PanicOnMissingId, DropTask, Phase, InFlight
        <3>4. CASE Cancel
            BY <3>4 DEF Cancel, Phase, InFlight
        <3>5. CASE Exit
            BY <3>5 DEF Exit, Phase, InFlight
        <3> QED
            BY <1>1, <3>1, <3>2, <3>3, <3>4, <3>5 DEF Process
    <2> QED
        BY <2>1, <1>a
<1>2. CASE Tick
    BY <1>2, <1>a DEF Tick, Phase, InFlight
<1>3. CASE Handlers
    <2>1. ASSUME NEW r \in Rows, StoreCertificate(r) PROVE HF!HNext
        <3>1. HF!Become(r, "absent", "held")
            <4>1. Phase[r] = "absent"
                BY <2>1 DEF StoreCertificate, Phase
            <4>2. Phase'[r] = "held"
                BY <1>0, <2>1 DEF StoreCertificate, Phase, InFlight, TypeOK
            <4>3. \A q \in Rows \ {r} : Phase'[q] = Phase[q]
                BY <1>0, <2>1 DEF StoreCertificate, Phase, InFlight, TypeOK
            <4> QED
                BY <4>1, <4>2, <4>3, OnePhase
        <3>2. Permitted' \in {Permitted, Permitted \cup {r}}
            BY <1>0, <2>1
            DEF StoreCertificate, Permitted, Due, Elapsed, TypeOK
        <3> QED
            BY <3>1, <3>2 DEF HF!HNext, HF!Hold
    <2>2. ASSUME NEW r \in Rows, Override(r) PROVE HF!HNext
        BY <2>2, <1>a DEF Override, Phase, InFlight
    <2>3. ASSUME NEW b \in BOOLEAN, SetSchedulerStatus(b) PROVE HF!HNext
        BY <2>3, <1>a DEF SetSchedulerStatus, Phase, InFlight
    <2> QED
        BY <1>3, <2>1, <2>2, <2>3 DEF Handlers
<1>4. CASE Scheduler
    <2>1. CASE TaskStart \/ ReadStatusActive \/ ListProcessable \/ ListCutShort
        BY <2>1, <1>a DEF TaskStart, ReadStatusActive, ListProcessable,
                          ListCutShort, ListRows, Phase,
                          InFlight
    <2>2. CASE ReadStatusSkip \/ ListError \/ LoopEnd
        BY <2>2, <1>a DEF ReadStatusSkip, ListError, LoopEnd, Finish, Phase,
                          InFlight
    <2>3. CASE SendTimeout
        BY <1>0, <2>3, <1>a DEF SendTimeout, NextInLoop, Phase, InFlight, TypeOK
    <2>4. CASE MarkError
        BY <1>0, <2>4, <1>a DEF MarkError, NextInLoop, Phase, InFlight, TypeOK
    <2>5. ASSUME NEW r \in Rows, BeginSend(r) PROVE HF!HNext
        <3>1. \A q \in Rows \ {r} : Phase'[q] = Phase[q]
            BY <1>0, <2>5 DEF BeginSend, Phase, InFlight, TypeOK
        <3>2. CASE Phase[r] = "held"
            <4>1. Phase'[r] = "sent"
                BY <2>5, <3>2 DEF BeginSend, Phase, InFlight
            <4>2. r \in Permitted
                BY <2>5 DEF IInv, Safe, ReleasedOnlyWhenDue, BeginSend, Permitted
            <4>3. Permitted' = Permitted
                BY <2>5, SamePermitted DEF BeginSend
            <4> QED
                BY <3>1, <3>2, <4>1, <4>2, <4>3, OnePhase DEF HF!HNext, HF!Send
        <3>3. CASE Phase[r] # "held"
            <4>1. Phase'[r] = Phase[r]
                BY <1>0, <2>5, <3>3 DEF BeginSend, Phase, InFlight, TypeOK
            <4> QED
                BY <3>1, <4>1, <1>a
        <3> QED
            BY <3>2, <3>3
    <2>6. ASSUME NEW r \in Rows, MarkProcessed(r) PROVE HF!HNext
        <3>1. Phase[r] = "delivered"
            BY <1>0, <2>6 DEF MarkProcessed, Phase, TypeOK, Bookkeeping, IInv,
                              Safe, NeverResendProcessed
        <3>2. Phase'[r] = "retired"
            BY <1>0, <2>6 DEF MarkProcessed, Phase, TypeOK
        <3>3. \A q \in Rows \ {r} : Phase'[q] = Phase[q]
            BY <1>0, <2>6 DEF MarkProcessed, NextInLoop, Phase, InFlight, TypeOK
        <3>4. Permitted' = Permitted
            BY <2>6, SamePermitted DEF MarkProcessed
        <3> QED
            BY <3>1, <3>2, <3>3, <3>4, OnePhase DEF HF!HNext, HF!Retire
    <2> QED
        BY <1>4, <2>1, <2>2, <2>3, <2>4, <2>5, <2>6 DEF Scheduler
<1>5. CASE Upstream
    <2>1. CASE SendRefused
        <3> DEFINE r == current
        <3>1. r \in Rows
            BY <1>0, <2>1 DEF SendRefused, TypeOK
        <3>2. \A q \in Rows \ {r} : Phase'[q] = Phase[q]
            BY <1>0, <2>1 DEF SendRefused, NextInLoop, Phase, InFlight, TypeOK
        <3>3. CASE Phase'[r] = Phase[r]
            BY <3>2, <3>3, <1>a
        <3>4. CASE Phase'[r] # Phase[r]
            <4>1. Phase[r] = "sent" /\ Phase'[r] = "held"
                BY <1>0, <2>1, <3>1, <3>4
                DEF SendRefused, NextInLoop, Phase, InFlight, TypeOK
            <4>2. Permitted' = Permitted
                BY <2>1, SamePermitted DEF SendRefused
            <4> QED
                BY <3>1, <3>2, <4>1, <4>2, OnePhase DEF HF!HNext, HF!Return
        <3> QED
            BY <3>3, <3>4
    <2>2. ASSUME NEW r \in Rows, UpstreamAccept(r) \/ UpstreamAcceptLate(r)
          PROVE HF!HNext
        <3>1. \A q \in Rows \ {r} : Phase'[q] = Phase[q]
            BY <1>0, <2>2
            DEF UpstreamAccept, UpstreamAcceptLate, Phase, InFlight, TypeOK
        <3>2. CASE Phase'[r] = Phase[r]
            BY <3>1, <3>2, <1>a
        <3>3. CASE Phase'[r] # Phase[r]
            <4>1. Phase[r] = "sent" /\ Phase'[r] = "delivered"
                BY <1>0, <2>2, <3>3
                DEF UpstreamAccept, UpstreamAcceptLate, Phase, InFlight, TypeOK
            <4>2. Permitted' = Permitted
                BY <2>2, SamePermitted DEF UpstreamAccept, UpstreamAcceptLate
            <4> QED
                BY <3>1, <4>1, <4>2, OnePhase DEF HF!HNext, HF!Deliver
        <3> QED
            BY <3>2, <3>3
    <2>3. ASSUME NEW r \in Rows, SendOk(r) PROVE HF!HNext
        BY <1>0, <2>3, <1>a DEF SendOk, Phase, InFlight, TypeOK
    <2> QED
        BY <1>5, <2>1, <2>2, <2>3 DEF Upstream
<1>6. CASE UNCHANGED vars
    BY <1>6, <1>a DEF vars, Phase, InFlight
<1> QED
    BY <1>1, <1>2, <1>3, <1>4, <1>5, <1>6 DEF Next

\* The queue keeps the promise: it implements HoldAndForward.
THEOREM Implementation == Spec => HoldAndForwardSpec
<1>1. Init => HF!HInit
    BY RowsAssumption DEF Init, HF!HInit, Phase, Permitted, Due
<1>2. IInv /\ [Next]_vars => [HF!HNext]_(HF!absVars)
    BY RefinementStep
<1> QED
    BY <1>1, <1>2, InvariantHolds, PTL DEF Spec, HF!HSpec, HoldAndForwardSpec

-----------------------------------------------------------------------------
(* The poller *)


\* What is behind the lookup's state and behind what the poller was told.
PollRecord ==
    /\ lookup = "absent" => told = "nothing"
    /\ lookup = "processed" => first \in processed
    /\ told # "nothing" => first # NoRow
    /\ told = "settled" => first \in processed

LInv == IInv /\ LookupTypeOK /\ PollRecord

-----------------------------------------------------------------------------
\* A row of the table stays there, a processed row stays processed, and at most
\* one row is new.
LEMMA TableGrows ==
    ASSUME TypeOK, [Next]_vars
    PROVE  /\ processed \subseteq processed'
           /\ \A r \in Rows : Stored(r) => Stored(r)'
<1> USE DEF store, task
<1>1. CASE UNCHANGED <<received, processed>>
    BY <1>1
<1>2. ASSUME NEW r \in Rows, StoreCertificate(r)
      PROVE  /\ processed \subseteq processed'
             /\ \A q \in Rows : Stored(q) => Stored(q)'
    BY <1>2 DEF StoreCertificate, TypeOK
<1>3. ASSUME NEW r \in Rows, MarkProcessed(r)
      PROVE  /\ processed \subseteq processed'
             /\ \A q \in Rows : Stored(q) => Stored(q)'
    BY <1>3 DEF MarkProcessed
<1>4. CASE Process
    BY <1>1, <1>4
    DEF Process, Boot, BootWith, Crash, PanicOnMissingId, Cancel, Exit
<1>5. CASE Tick
    BY <1>1, <1>5 DEF Tick
<1>6. CASE Handlers
    BY <1>1, <1>2, <1>6 DEF Handlers, Override, SetSchedulerStatus
<1>7. CASE Scheduler
    BY <1>1, <1>3, <1>7
    DEF Scheduler, TaskStart, ReadStatusActive, ReadStatusSkip, ListProcessable,
        ListCutShort, ListRows, ListError, LoopEnd, Finish, SendTimeout,
        MarkError, BeginSend
<1>8. CASE Upstream
    BY <1>1, <1>8
    DEF Upstream, SendRefused, UpstreamAccept, UpstreamAcceptLate, SendOk
<1>9. CASE UNCHANGED vars
    BY <1>1, <1>9 DEF vars
<1> QED
    BY <1>4, <1>5, <1>6, <1>7, <1>8, <1>9 DEF Next

\* The initial states satisfy the inductive invariant of the lookups.
LEMMA InitLInv == LInit => LInv
<1> SUFFICES ASSUME LInit PROVE LInv
    OBVIOUS
<1>1. IInv
    BY InitIInv DEF LInit
<1>2. \A r \in Copies : ~Stored(r)
    BY CopiesAssumption DEF LInit, Init
<1> QED
    BY <1>1, <1>2, RowsAssumption, CopiesAssumption
    DEF LInit, LInv, LookupTypeOK, PollRecord

\* The copy that is first stays first, and one is found as soon as one is there.
LEMMA FirstStays ==
    ASSUME IInv, LookupTypeOK, [Next]_vars, FirstStored
    PROVE  /\ first' \in Copies \cup {NoRow}
           /\ first' = NoRow <=> ~\E r \in Copies : Stored(r)'
           /\ first' # NoRow => Stored(first)'
           /\ first # NoRow => first' = first
<1> USE RowsAssumption, CopiesAssumption
<1>1. \A r \in Rows : Stored(r) => Stored(r)'
    BY TableGrows DEF IInv
<1>2. CASE first = NoRow /\ \E r \in Copies : Stored(r)'
    <2>1. first' \in Copies /\ Stored(first)'
        <3> DEFINE c == CHOOSE r \in Copies : received'[r] # NotStored
        <3>1. c \in Copies /\ received'[c] # NotStored
            BY <1>2
        <3>2. first' = c
            BY <1>2 DEF FirstStored
        <3> QED
            BY <3>1, <3>2
    <2> QED
        BY <1>2, <2>1
<1>3. CASE ~(first = NoRow /\ \E r \in Copies : Stored(r)')
    <2>1. first' = first
        BY <1>3 DEF FirstStored
    <2> QED
        BY <1>1, <1>3, <2>1 DEF LookupTypeOK
<1> QED
    BY <1>2, <1>3

\* Every step preserves the inductive invariant of the lookups.
LEMMA LInvStep == LInv /\ [LNext]_allVars => LInv'
<1> SUFFICES ASSUME LInv, [LNext]_allVars PROVE LInv'
    OBVIOUS
<1> USE RowsAssumption, CopiesAssumption
<1>1. CASE QueueStep
    <2>1. IInv'
        BY <1>1, TypeOKStep, SafeStep DEF QueueStep, LInv, IInv
    <2>2. processed \subseteq processed'
        BY <1>1, TableGrows DEF QueueStep, LInv, IInv
    <2>3. /\ first' \in Copies \cup {NoRow}
          /\ first' = NoRow <=> ~\E r \in Copies : Stored(r)'
          /\ first' # NoRow => Stored(first)'
          /\ first # NoRow => first' = first
        BY <1>1, FirstStays DEF QueueStep, LInv
    <2>4. processed \subseteq Rows
        BY DEF LInv, IInv, TypeOK
    <2>5. LookupTypeOK'
        BY <1>1, <2>3 DEF QueueStep, LInv, LookupTypeOK
    <2>6. PollRecord'
        BY <1>1, <2>2, <2>3, <2>4 DEF QueueStep, LInv, LookupTypeOK, PollRecord
    <2> QED
        BY <2>1, <2>5, <2>6 DEF LInv
<1>2. ASSUME UNCHANGED <<vars, first>> PROVE
        /\ IInv'
        /\ first' = NoRow <=> ~\E r \in Copies : Stored(r)'
        /\ first' # NoRow => Stored(first)'
    <2>1. IInv'
        BY <1>2, TypeOKStep, SafeStep DEF LInv, IInv
    <2> QED
        BY <1>2, <2>1 DEF LInv, LookupTypeOK, vars
<1>3. CASE LookupPending \/ LookupElsewhere \/ LookupError
    <2> USE <1>3 DEF LookupPending, LookupElsewhere, LookupError
    <2>1. UNCHANGED <<vars, first>>
        OBVIOUS
    <2>2. LookupTypeOK'
        BY <1>2, <2>1 DEF LInv, LookupTypeOK, Alive, vars
    <2>3. PollRecord'
        BY <2>1 DEF LInv, LookupTypeOK, PollRecord, IsPending, vars
    <2> QED
        BY <1>2, <2>1, <2>2, <2>3 DEF LInv
<1>4. CASE UpstreamHeader \/ UpstreamNotFound \/ UpstreamHeaderError
    <2> USE <1>4 DEF UpstreamHeader, UpstreamNotFound, UpstreamHeaderError
    <2>1. UNCHANGED <<vars, first>>
        OBVIOUS
    <2>2. LookupTypeOK'
        BY <1>2, <2>1 DEF LInv, LookupTypeOK, vars
    <2>3. first \in processed => first # NoRow
        BY DEF LInv, IInv, TypeOK
    <2>4. PollRecord'
        BY <2>1, <2>3 DEF LInv, LookupTypeOK, PollRecord, vars
    <2> QED
        BY <1>2, <2>1, <2>2, <2>4 DEF LInv
<1>5. CASE UNCHANGED allVars
    <2>1. UNCHANGED <<vars, first>>
        BY <1>5 DEF allVars, lookupVars
    <2> QED
        BY <1>2, <1>5, <2>1
        DEF LInv, LookupTypeOK, PollRecord, allVars, lookupVars, vars
<1> QED
    BY <1>1, <1>3, <1>4, <1>5 DEF LNext, GetCertificateHeader

\* The inductive invariant of the lookups holds in every reachable state.
THEOREM LInvHolds == LSpec => []LInv
BY InitLInv, LInvStep, PTL DEF LSpec

\* Types of the lookup's own variables.
THEOREM LookupTypeCorrect == LSpec => []LookupTypeOK
<1>1. LInv => LookupTypeOK
    BY DEF LInv
<1> QED
    BY LInvHolds, <1>1, PTL

\* A poller that is sent on for a processed row finds the certificate upstream.
THEOREM ProcessedIsKnownHolds == LSpec => []ProcessedIsKnown
<1>1. LInv => ProcessedIsKnown
    <2> SUFFICES ASSUME LInv, lookup = "processed"
                 PROVE  Copies \cap accepted # {}
        BY DEF ProcessedIsKnown
    <2>1. first \in processed /\ first \in Copies \cup {NoRow}
        BY DEF LInv, PollRecord, LookupTypeOK
    <2>2. processed \subseteq Rows /\ processed \subseteq accepted
        BY DEF LInv, IInv, TypeOK, Safe, ProcessedWasAccepted
    <2> QED
        BY <2>1, <2>2, RowsAssumption
<1> QED
    BY LInvHolds, <1>1, PTL

\* What a poller is told never goes back.
THEOREM PollGoesForwardHolds == LSpec => PollGoesForward
<1>1. LInv /\ [LNext]_allVars =>
        [answer' # answer => /\ told = "settled" => answer' # "pending"
                             /\ told # "nothing" => answer' # "not found"]_allVars
    <2> SUFFICES ASSUME LInv, LNext, answer' # answer
                 PROVE  /\ told = "settled" => answer' # "pending"
                        /\ told # "nothing" => answer' # "not found"
        BY DEF allVars
    <2>1. CASE QueueStep
        BY <2>1 DEF QueueStep
    <2>2. CASE LookupPending
        BY <2>2 DEF LookupPending, IsPending, LInv, PollRecord
    <2>3. CASE UpstreamNotFound
        <3>1. lookup # "processed"
            <4>1. lookup = "processed" => first \in processed
                BY DEF LInv, PollRecord
            <4>2. processed \subseteq Rows /\ processed \subseteq accepted
                BY DEF LInv, IInv, TypeOK, Safe, ProcessedWasAccepted
            <4>3. first \in Copies \cup {NoRow}
                BY DEF LInv, LookupTypeOK
            <4> QED
                BY <2>3, <4>1, <4>2, <4>3, RowsAssumption DEF UpstreamNotFound
        <3> QED
            BY <2>3, <3>1 DEF UpstreamNotFound, LInv, PollRecord, LookupTypeOK
    <2>4. CASE LookupElsewhere \/ LookupError \/ UpstreamHeader
                \/ UpstreamHeaderError
        BY <2>4 DEF LookupElsewhere, LookupError, UpstreamHeader,
                    UpstreamHeaderError
    <2> QED
        BY <2>1, <2>2, <2>3, <2>4 DEF LNext, GetCertificateHeader
<1> QED
    BY LInvHolds, <1>1, PTL DEF LSpec, PollGoesForward
=============================================================================
