---------------------------- MODULE MetricsProofs ----------------------------
(***************************************************************************)
(* Proofs about Metrics, for every set of rows and every capacity of the   *)
(* trigger channel: types, and that a full channel loses no update.        *)
(***************************************************************************)
EXTENDS Metrics, TLAPS

IInv == TypeOK /\ NoUpdateLost

USE CapacityAssumption, NetworkAssumption DEF table, goroutines, history

\* The initial states satisfy the inductive invariant.
LEMMA InitIInv == Init => IInv
BY DEF Init, IInv, TypeOK, NoUpdateLost

\* A trigger leaves at least one token, and no more than fit.
LEMMA OfferLeavesToken ==
    ASSUME trigger \in 0..Capacity, Offer
    PROVE  trigger' \in 0..Capacity /\ trigger' > 0
BY DEF Offer

\* Every step keeps the types.
LEMMA TypeOKStep == TypeOK /\ [Next]_vars => TypeOK'
<1> SUFFICES ASSUME TypeOK, [Next]_vars PROVE TypeOK'
    OBVIOUS
<1> USE DEF TypeOK, Alive
<1>1. CASE Ticker
    BY <1>1 DEF Ticker, TickerFires, TickerSends, TickerStops
<1>2. CASE Updater
    <2>1. CASE UpdaterTakes \/ UpdaterStops
        BY <2>1 DEF UpdaterTakes, UpdaterStops
    <2>2. CASE GetUnprocessedCertificates
        BY <2>2 DEF GetUnprocessedCertificates
    <2>3. CASE ReadCutShort
        <3>1. listed' \subseteq stored
            BY <2>3 DEF ReadCutShort
        <3> QED
            BY <2>3, <3>1 DEF ReadCutShort
    <2>4. CASE ReadError
        BY <2>4 DEF ReadError
    <2>5. CASE ReportCount \/ ReportGrandTotal
        BY <2>5 DEF ReportCount, ReportGrandTotal
    <2>6. ASSUME NEW n \in Networks, ReportNetwork(n) PROVE TypeOK'
        BY <2>6 DEF ReportNetwork
    <2> QED
        BY <1>2, <2>1, <2>2, <2>3, <2>4, <2>5, <2>6 DEF Updater, ReportTotals
<1>3. CASE Boot
    BY <1>3 DEF Boot
<1>4. CASE Down \/ Cancel
    BY <1>4 DEF Down, Cancel
<1>5. CASE TriggerAnyway
    BY <1>5, OfferLeavesToken DEF TriggerAnyway
<1>6. ASSUME NEW r \in Rows, StoreCertificate(r) PROVE TypeOK'
    BY <1>6 DEF StoreCertificate
<1>7. ASSUME NEW r \in Rows, MarkCertificateProcessed(r) PROVE TypeOK'
    BY <1>7 DEF MarkCertificateProcessed
<1>8. ASSUME NEW r \in Rows, Trigger(r) PROVE TypeOK'
    <2>1. proc # "down"
        BY <1>8 DEF Trigger
    <2> QED
        BY <1>8, <2>1, OfferLeavesToken DEF Trigger
<1>9. CASE UNCHANGED vars
    BY <1>9 DEF vars
<1> QED
    BY <1>1, <1>2, <1>3, <1>4, <1>5, <1>6, <1>7, <1>8, <1>9 DEF Next, Others

\* Only a boot, a trigger, a taken token and a read touch what the invariant
\* says; every other step keeps its parts or ends the running process.
LEMMA NoUpdateLostStep == IInv /\ [Next]_vars => NoUpdateLost'
<1> SUFFICES ASSUME IInv, [Next]_vars PROVE NoUpdateLost'
    OBVIOUS
<1> USE DEF IInv, TypeOK, NoUpdateLost
<1>1. CASE Ticker
    <2>1. CASE TickerSends
        <3>1. trigger' > 0
            BY <2>1 DEF TickerSends
        <3> QED
            BY <3>1
    <2>2. CASE TickerFires \/ TickerStops
        BY <2>2 DEF TickerFires, TickerStops
    <2> QED
        BY <1>1, <2>1, <2>2 DEF Ticker
<1>2. CASE UpdaterTakes
    BY <1>2 DEF UpdaterTakes
<1>3. CASE UpdaterStops
    BY <1>3 DEF UpdaterStops
<1>4. CASE GetUnprocessedCertificates
    BY <1>4 DEF GetUnprocessedCertificates
<1>5. CASE ReadCutShort \/ ReadError
    BY <1>5 DEF ReadCutShort, ReadError
<1>6. CASE ReportTotals
    BY <1>6 DEF ReportTotals, ReportCount, ReportNetwork, ReportGrandTotal
<1>7. CASE Boot
    BY <1>7 DEF Boot
<1>8. CASE Down \/ Cancel
    BY <1>8 DEF Down, Cancel
<1>9. CASE TriggerAnyway \/ \E r \in Rows : Trigger(r)
    <2>1. trigger' > 0
        BY <1>9, OfferLeavesToken DEF TriggerAnyway, Trigger
    <2> QED
        BY <2>1
<1>10. ASSUME NEW r \in Rows,
              StoreCertificate(r) \/ MarkCertificateProcessed(r)
       PROVE  NoUpdateLost'
    BY <1>10 DEF StoreCertificate, MarkCertificateProcessed
<1>11. CASE UNCHANGED vars
    BY <1>11 DEF vars
<1> QED
    BY <1>1, <1>2, <1>3, <1>4, <1>5, <1>6, <1>7, <1>8, <1>9, <1>10, <1>11
    DEF Next, Updater, Others

\* Type correctness for every capacity and every set of rows.
THEOREM TypeCorrect == Spec => []TypeOK
<1>1. Init => TypeOK
    BY InitIInv DEF IInv
<1> QED
    BY <1>1, TypeOKStep, PTL DEF Spec

\* A full channel loses no update, whatever its capacity.
THEOREM NoUpdateLostHolds == Spec => []NoUpdateLost
<1>1. Init => IInv
    BY InitIInv
<1>2. IInv /\ [Next]_vars => IInv'
    BY TypeOKStep, NoUpdateLostStep DEF IInv
<1>3. IInv => NoUpdateLost
    BY DEF IInv
<1> QED
    BY <1>1, <1>2, <1>3, PTL DEF Spec
=============================================================================
