-------------------------- MODULE StreamRelayProofs --------------------------
(***************************************************************************)
(* Proofs about StreamRelay, for any number of messages and any window:    *)
(* types, where a failure status may come from, and that the relay         *)
(* implements the direct call.                                             *)
(***************************************************************************)
EXTENDS StreamRelay, TLAPS

\* Why a goroutine raised what it raised.  An EOF of the caller's direction means
\* that everything was passed on, or that the client stream was over; one of the
\* upstream's direction means that everything was passed on and all was well.  An
\* error raised before the handler returned has a cause outside the proxy.
Reasons ==
    /\ err["up"] = "eof" =>
         (half /\ put["up"] = sent["up"]) \/ ClientOver \/ status # "open"
    /\ err["down"] = "eof" => status = "ok" /\ put["down"] = sent["down"]
    /\ err["up"] = "error" => gone \/ refused["up"] \/ Returned
    /\ err["down"] = "error" =>
         status = "failed" \/ gone \/ broken \/ refused["down"] \/ Returned

\* What the two ends may conclude.
Outcome ==
    /\ closeSent => half /\ put["up"] = sent["up"]
    /\ handler = "ok" => status = "ok" /\ put["down"] = sent["down"]
    /\ StatusIsUpstreams

IInv == TypeOK /\ Reasons /\ Outcome

USE BoundAssumption DEF Dir, ends, goroutines, proxy

-----------------------------------------------------------------------------
\* The initial states satisfy the inductive invariant.
LEMMA InitIInv == Init => IInv
<1> SUFFICES ASSUME Init PROVE IInv
    OBVIOUS
<1>1. TypeOK
    <2>1. /\ refused \in [Dir -> BOOLEAN]
          /\ half \in BOOLEAN /\ gone \in BOOLEAN /\ broken \in BOOLEAN
          /\ closeSent \in BOOLEAN
        BY DEF Init
    <2> QED
        BY <2>1 DEF Init, TypeOK
<1>2. Reasons /\ Outcome
    BY DEF Init, Reasons, Outcome, StatusIsUpstreams, Opened
<1> QED
    BY <1>1, <1>2 DEF IInv

\* A goroutine that stops with an error in the hand keeps the types.
LEMMA RaiseKeepsType ==
    ASSUME TypeOK, NEW d \in Dir, NEW e \in {"eof", "error"},
           pc[d] \in {"recv", "send"}, Raise(d, e),
           refused' \in [Dir -> BOOLEAN]
    PROVE  TypeOK'
<1>1. /\ pc' \in [Dir -> {"off", "recv", "send", "report", "gone"}]
      /\ err' \in [Dir -> {"none", "eof", "error"}]
    BY DEF Raise, TypeOK
<1>2. /\ pc'[d] = "report" /\ chan[d] = "none" /\ handler # "start"
      /\ \A c \in Dir \ {d} : pc'[c] = pc[c] /\ err'[c] = err[c]
    BY DEF Raise, TypeOK
<1> QED
    BY <1>1, <1>2 DEF Raise, TypeOK

\* Every step keeps the types.
LEMMA TypeOKStep == TypeOK /\ [Next]_vars => TypeOK'
<1> SUFFICES ASSUME TypeOK, [Next]_vars PROVE TypeOK'
    OBVIOUS
<1> USE DEF TypeOK
<1>1. CASE Handler
    <2>1. CASE OpenStream
        BY <2>1 DEF OpenStream
    <2>2. CASE OpenError
        BY <2>2 DEF OpenError
    <2>3. CASE CloseSend
        BY <2>3 DEF CloseSend
    <2>4. CASE ReturnInternal
        BY <2>4 DEF ReturnInternal
    <2>5. CASE ReturnStatus
        BY <2>5 DEF ReturnStatus
    <2> QED
        BY <1>1, <2>1, <2>2, <2>3, <2>4, <2>5 DEF Handler
<1>2. ASSUME NEW d \in Dir, Goroutine(d) PROVE TypeOK'
    <2>1. CASE Recv(d)
        BY <2>1 DEF Recv
    <2>2. CASE Send(d)
        BY <2>2 DEF Send
    <2>3. CASE Report(d)
        BY <2>3 DEF Report
    <2>4. CASE RecvEof(d) \/ RecvError(d)
        BY <2>4, RaiseKeepsType DEF RecvEof, RecvError
    <2>5. CASE RecvRefuses(d)
        <3>1. refused' \in [Dir -> BOOLEAN]
            BY <2>5 DEF RecvRefuses
        <3> QED
            BY <2>5, <3>1, RaiseKeepsType DEF RecvRefuses
    <2>6. CASE SendEof \/ SendError
        BY <2>6, RaiseKeepsType DEF SendEof, SendError
    <2> QED
        BY <1>2, <2>1, <2>2, <2>3, <2>4, <2>5, <2>6 DEF Goroutine
<1>3. CASE Caller
    <2>1. CASE CallerSends
        BY <2>1 DEF CallerSends
    <2>2. CASE CallerReads
        BY <2>2 DEF CallerReads
    <2>3. CASE CallerHalfCloses
        BY <2>3 DEF CallerHalfCloses
    <2>4. CASE CallerSeesStatus
        BY <2>4 DEF CallerSeesStatus
    <2>5. CASE CallerLeaves
        BY <2>5 DEF CallerLeaves
    <2> QED
        BY <1>3, <2>1, <2>2, <2>3, <2>4, <2>5 DEF Caller
<1>4. CASE Upstream
    <2>1. CASE UpstreamSends
        BY <2>1 DEF UpstreamSends
    <2>2. CASE UpstreamReads
        BY <2>2 DEF UpstreamReads
    <2>3. CASE UpstreamSeesHalfClose \/ UpstreamSeesCancel
        BY <2>3 DEF UpstreamSeesHalfClose, UpstreamSeesCancel
    <2>4. CASE UpstreamEnds
        BY <2>4 DEF UpstreamEnds
    <2>5. CASE ConnectionBreaks
        BY <2>5 DEF ConnectionBreaks
    <2> QED
        BY <1>4, <2>1, <2>2, <2>3, <2>4, <2>5 DEF Upstream
<1>5. CASE UNCHANGED vars
    BY <1>5 DEF vars
<1> QED
    BY <1>1, <1>2, <1>3, <1>4, <1>5 DEF Next

\* Types, and at most one message in the hand of each goroutine.
THEOREM TypeCorrect == Spec => []TypeOK
<1>1. Init => TypeOK
    BY InitIInv DEF IInv
<1> QED
    BY <1>1, TypeOKStep, PTL DEF Spec

\* Every step preserves the inductive invariant.
LEMMA IInvStep == IInv /\ [Next]_vars => IInv'
<1> SUFFICES ASSUME IInv, [Next]_vars PROVE IInv'
    OBVIOUS
<1>0. TypeOK /\ TypeOK'
    BY TypeOKStep DEF IInv
<1> USE <1>0 DEF IInv, TypeOK, Reasons, Outcome, StatusIsUpstreams, Opened,
                 Returned, CallerOver, ClientOver
<1>1. CASE Handler
    <2>1. CASE OpenStream \/ OpenError
        BY <2>1 DEF OpenStream, OpenError
    <2>2. CASE CloseSend
        BY <2>2 DEF CloseSend
    <2>3. CASE ReturnInternal
        BY <2>3 DEF ReturnInternal
    <2>4. CASE ReturnStatus
        BY <2>4 DEF ReturnStatus
    <2> QED
        BY <1>1, <2>1, <2>2, <2>3, <2>4 DEF Handler
<1>2. ASSUME NEW d \in Dir, Goroutine(d) PROVE IInv'
    <2>1. CASE Recv(d)
        BY <2>1 DEF Recv
    <2>2. CASE Send(d)
        BY <2>2 DEF Send
    <2>3. CASE Report(d)
        BY <2>3 DEF Report
    <2>4. CASE RecvEof(d)
        BY <2>4 DEF RecvEof, Raise
    <2>5. CASE RecvError(d) \/ RecvRefuses(d)
        BY <2>5 DEF RecvError, RecvRefuses, Raise
    <2>6. CASE SendEof \/ SendError
        BY <2>6 DEF SendEof, SendError, Raise
    <2> QED
        BY <1>2, <2>1, <2>2, <2>3, <2>4, <2>5, <2>6 DEF Goroutine
<1>3. CASE Caller
    BY <1>3 DEF Caller, CallerSends, CallerHalfCloses, CallerReads,
                CallerSeesStatus, CallerLeaves
<1>4. CASE Upstream
    BY <1>4 DEF Upstream, UpstreamSends, UpstreamReads, UpstreamSeesHalfClose,
                UpstreamSeesCancel, UpstreamEnds, ConnectionBreaks
<1>5. CASE UNCHANGED vars
    BY <1>5 DEF vars
<1> QED
    BY <1>1, <1>2, <1>3, <1>4, <1>5 DEF Next

\* The inductive invariant holds in every reachable state.
THEOREM InvariantHolds == Spec => []IInv
BY InitIInv, IInvStep, PTL DEF Spec

\* A failure status comes from the upstream, its connection, the caller or a
\* message over the limit, never from the order in which the directions end.
THEOREM StatusIsUpstreamsHolds == Spec => []StatusIsUpstreams
<1>1. IInv => StatusIsUpstreams
    BY DEF IInv, Outcome
<1> QED
    BY InvariantHolds, <1>1, PTL

-----------------------------------------------------------------------------
(* The direct call *)

\* Whether the sender of a direction has finished, as the direct call sees it.
Finished == [d \in Dir |-> IF d = "up" THEN half ELSE status = "ok"]

\* A step of the proxy alone is invisible to both ends.
LEMMA Invisible ==
    ASSUME UNCHANGED <<sent, got, seen, half, status>>
    PROVE  UNCHANGED DC!callVars
BY DEF DC!callVars

\* Every step of the relay is a step of the direct call, or none.
LEMMA RefinementStep == IInv /\ [Next]_vars => [DC!DNext]_(DC!callVars)
<1> SUFFICES ASSUME IInv, [Next]_vars PROVE [DC!DNext]_(DC!callVars)
    OBVIOUS
<1> USE DEF IInv, TypeOK, DC!Dir
<1>1. CASE Handler
    BY <1>1, Invisible DEF Handler, OpenStream, OpenError, CloseSend,
                           ReturnInternal, ReturnStatus
<1>2. ASSUME NEW d \in Dir, Goroutine(d) PROVE UNCHANGED DC!callVars
    BY <1>2, Invisible DEF Goroutine, Recv, Send, Report, RecvEof, RecvError,
                           RecvRefuses, SendEof, SendError, Raise
<1>3. CASE CallerSends
    BY <1>3 DEF CallerSends, DC!DNext, DC!Send
<1>4. CASE CallerHalfCloses
    <2>1. Finished' = [Finished EXCEPT !["up"] = TRUE]
        BY <1>4 DEF CallerHalfCloses, Finished
    <2> QED
        BY <1>4, <2>1 DEF CallerHalfCloses, DC!DNext, DC!Finish, Finished
<1>5. CASE CallerReads
    BY <1>5 DEF CallerReads, DC!DNext, DC!Get
<1>6. CASE CallerSeesStatus
    <2>1. CASE handler = "ok"
        <3>1. status = "ok" /\ got["down"] = sent["down"]
            BY <1>6, <2>1 DEF CallerSeesStatus, Outcome
        <3> QED
            BY <1>6, <2>1, <3>1 DEF CallerSeesStatus, DC!DNext, DC!SeeComplete
    <2>2. CASE handler # "ok"
        BY <1>6, <2>2 DEF CallerSeesStatus, DC!DNext, DC!SeeFailure
    <2> QED
        BY <2>1, <2>2
<1>7. CASE CallerLeaves
    BY <1>7 DEF CallerLeaves, DC!DNext, DC!SeeFailure
<1>8. CASE UpstreamSends
    BY <1>8 DEF UpstreamSends, DC!DNext, DC!Send
<1>9. CASE UpstreamReads
    BY <1>9 DEF UpstreamReads, DC!DNext, DC!Get
<1>10. CASE UpstreamSeesHalfClose
    <2>1. half /\ got["up"] = sent["up"]
        BY <1>10 DEF UpstreamSeesHalfClose, Outcome
    <2> QED
        BY <1>10, <2>1 DEF UpstreamSeesHalfClose, DC!DNext, DC!SeeComplete
<1>11. CASE UpstreamSeesCancel
    BY <1>11 DEF UpstreamSeesCancel, DC!DNext, DC!SeeFailure
<1>12. CASE UpstreamEnds
    <2>1. CASE status' = "ok"
        <3>1. Finished' = [Finished EXCEPT !["down"] = TRUE]
            BY <1>12, <2>1 DEF UpstreamEnds, Finished
        <3> QED
            BY <1>12, <3>1 DEF UpstreamEnds, DC!DNext, DC!Finish, Finished
    <2>2. CASE status' = "failed"
        <3>1. Finished' = Finished
            BY <1>12, <2>2 DEF UpstreamEnds, Finished
        <3> QED
            BY <1>12, <3>1 DEF UpstreamEnds, DC!callVars, Finished
    <2> QED
        BY <1>12, <2>1, <2>2 DEF UpstreamEnds
<1>13. CASE ConnectionBreaks
    BY <1>13, Invisible DEF ConnectionBreaks
<1>14. CASE UNCHANGED vars
    BY <1>14, Invisible DEF vars
<1> QED
    BY <1>1, <1>2, <1>3, <1>4, <1>5, <1>6, <1>7, <1>8, <1>9, <1>10, <1>11,
       <1>12, <1>13, <1>14
    DEF Next, Caller, Upstream

\* The relay implements the direct call.
THEOREM Implementation == Spec => DirectCallSpec
<1>1. Init => DC!DInit
    BY DEF Init, DC!DInit, DC!Dir
<1>2. IInv /\ [Next]_vars => [DC!DNext]_(DC!callVars)
    BY RefinementStep
<1> QED
    BY <1>1, <1>2, InvariantHolds, PTL DEF Spec, DC!DSpec, DirectCallSpec
=============================================================================
