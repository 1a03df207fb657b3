----------------------------- MODULE StreamRelay -----------------------------
(***************************************************************************)
(* One call through the transparent proxy: the handler opens a stream to   *)
(* the upstream, one goroutine carries the caller's messages there (up),   *)
(* one carries the upstream's back (down), each reports the error it ended *)
(* with in a channel of capacity one, and the handler selects on the two   *)
(* channels.  The streams themselves are gRPC's: a stream delivers in      *)
(* order, holds at most a window of messages, and ends for its user when   *)
(* the other end leaves, the connection breaks or its context is done.     *)
(***************************************************************************)
EXTENDS Integers

CONSTANTS
    Most,     \* bound: messages an end sends
    Window    \* messages a stream holds before a send waits

ASSUME BoundAssumption == Most \in Nat /\ Window \in Nat \ {0}

VARIABLES
    \* the two ends
    sent,       \* per direction, messages the end has sent
    got,        \* per direction, messages the other end has got
    seen,       \* per direction, the end the receiver saw: open, complete, failed
    half,       \* the caller has half-closed
    gone,       \* the caller gave up
    status,     \* the upstream's handler: open, ok or failed
    broken,     \* the connection to the upstream is lost
    refused,    \* per direction, a message over the proxy's size limit came
    \* the proxy
    taken,      \* per direction, messages the goroutine has received
    put,        \* per direction, messages it has sent on
    pc,         \* per direction, the goroutine: off, recv, send, report, gone
    err,        \* per direction, the error it reports: none, eof, error
    chan,       \* per direction, what its channel holds: none, eof, error
    closeSent,  \* CloseSend reached the open client stream
    handler     \* start, wait, or what it returned: ok, failed, internal

Dir == {"up", "down"}

ends == <<sent, got, seen, half, gone, status, broken, refused>>
goroutines == <<taken, put, pc, err>>
proxy == <<goroutines, chan, closeSent, handler>>
vars == <<sent, got, seen, half, gone, status, broken, refused,
          taken, put, pc, err, chan, closeSent, handler>>

Returned == handler \in {"ok", "failed", "internal"}
Opened == pc["down"] # "off"

\* The server stream's context is done.
CallerOver == gone \/ Returned

\* The client stream has ended for the proxy: its context derives from the server
\* stream's and is cancelled when the handler returns, or the stream was lost, or
\* it was aborted by its own receiver.
ClientOver == CallerOver \/ broken \/ refused["down"]

Init ==
    /\ sent = [d \in Dir |-> 0] /\ got = [d \in Dir |-> 0]
    /\ taken = [d \in Dir |-> 0] /\ put = [d \in Dir |-> 0]
    /\ seen = [d \in Dir |-> "open"] /\ refused = [d \in Dir |-> FALSE]
    /\ half = FALSE /\ gone = FALSE /\ broken = FALSE /\ status = "open"
    /\ pc = [d \in Dir |-> "off"]
    /\ err = [d \in Dir |-> "none"] /\ chan = [d \in Dir |-> "none"]
    /\ closeSent = FALSE /\ handler = "start"

-----------------------------------------------------------------------------
(* The handler *)

OpenStream ==
    /\ handler = "start"
    /\ handler' = "wait" /\ pc' = [d \in Dir |-> "recv"]
    /\ UNCHANGED <<ends, taken, put, err, chan, closeSent>>

\* The director or NewClientStream fails.
OpenError ==
    /\ handler = "start"
    /\ handler' = "failed"
    /\ UNCHANGED <<ends, goroutines, chan, closeSent>>

\* Mutant: the end of either direction is the end of the call.
ReturnAtHalfClose ==
    /\ handler = "wait" /\ chan["up"] = "eof"
    /\ handler' = "ok"
    /\ UNCHANGED <<ends, goroutines, chan, closeSent>>

\* EOF from the caller's direction: CloseSend, which does nothing on a stream
\* that has ended, and back to the select.
CloseSend ==
    /\ handler = "wait" /\ chan["up"] = "eof"
    /\ chan' = [chan EXCEPT !["up"] = "none"]
    /\ closeSent' = (closeSent \/ ~(ClientOver \/ status # "open"))
    /\ UNCHANGED <<ends, goroutines, handler>>

ReturnInternal ==
    /\ handler = "wait" /\ chan["up"] = "error"
    /\ handler' = "internal"
    /\ UNCHANGED <<ends, goroutines, chan, closeSent>>

\* Mutant: the handler waits for the caller's direction first.
ReturnStatusAfterUp ==
    /\ handler = "wait" /\ chan["down"] # "none"
    /\ pc["up"] = "gone" /\ chan["up"] = "none"
    /\ handler' = IF chan["down"] = "eof" THEN "ok" ELSE "failed"
    /\ UNCHANGED <<ends, goroutines, chan, closeSent>>

\* The other direction's error is the status of the call; EOF is success.
ReturnStatus ==
    /\ handler = "wait" /\ chan["down"] # "none"
    /\ handler' = IF chan["down"] = "eof" THEN "ok" ELSE "failed"
    /\ UNCHANGED <<ends, goroutines, chan, closeSent>>

Handler ==
    OpenStream \/ OpenError \/ CloseSend \/ ReturnInternal \/ ReturnStatus

-----------------------------------------------------------------------------
(* The goroutines *)

Raise(d, e) ==
    /\ pc' = [pc EXCEPT ![d] = "report"] /\ err' = [err EXCEPT ![d] = e]
    /\ UNCHANGED <<sent, got, seen, half, gone, status, broken,
                   taken, put, chan, closeSent, handler>>

\* The frame keeps the codec's buffer without a copy; messages are counted here, and
\* that the buffer stays as it is until the frame is sent on is taken for granted.
Recv(d) ==
    /\ pc[d] = "recv" /\ taken[d] < sent[d]
    /\ pc' = [pc EXCEPT ![d] = "send"] /\ taken' = [taken EXCEPT ![d] = @ + 1]
    /\ UNCHANGED <<ends, put, err, chan, closeSent, handler>>

RecvEof(d) ==
    /\ pc[d] = "recv" /\ taken[d] = sent[d]
    /\ IF d = "up" THEN half ELSE status = "ok"
    /\ Raise(d, "eof") /\ UNCHANGED refused

RecvError(d) ==
    /\ pc[d] = "recv"
    /\ IF d = "up" THEN CallerOver
       ELSE ClientOver \/ (status = "failed" /\ taken[d] = sent[d])
    /\ Raise(d, "error") /\ UNCHANGED refused

\* RecvMsg turns down a message over the limit: 4 MB from the caller, 50 MB from
\* the upstream.
RecvRefuses(d) ==
    /\ pc[d] = "recv" /\ taken[d] < sent[d]
    /\ refused' = [refused EXCEPT ![d] = TRUE]
    /\ Raise(d, "error")

\* SendMsg waits for room in the window.
Send(d) ==
    /\ pc[d] = "send" /\ put[d] - got[d] < Window
    /\ ~(IF d = "up" THEN ClientOver ELSE CallerOver)
    /\ pc' = [pc EXCEPT ![d] = "recv"] /\ put' = [put EXCEPT ![d] = @ + 1]
    /\ UNCHANGED <<ends, taken, err, chan, closeSent, handler>>

\* Mutant: a send that fails with EOF is passed on as an error.
SendEofIsError ==
    /\ pc["up"] = "send" /\ (ClientOver \/ status # "open")
    /\ Raise("up", "error") /\ UNCHANGED refused

\* A client stream that has ended answers EOF to SendMsg; its status is RecvMsg's
\* to tell.
SendEof ==
    /\ pc["up"] = "send" /\ (ClientOver \/ status # "open")
    /\ Raise("up", "eof") /\ UNCHANGED refused

SendError ==
    /\ pc["down"] = "send" /\ CallerOver
    /\ Raise("down", "error") /\ UNCHANGED refused

\* Mutant: the channel has no buffer, so that only a waiting handler takes from it.
ReportToReceiver(d) ==
    /\ pc[d] = "report" /\ chan[d] = "none" /\ handler = "wait"
    /\ chan' = [chan EXCEPT ![d] = err[d]] /\ pc' = [pc EXCEPT ![d] = "gone"]
    /\ UNCHANGED <<ends, taken, put, err, closeSent, handler>>

\* Mutant: the goroutine reports and goes on.
ReportAndGoOn(d) ==
    /\ pc[d] = "report" /\ chan[d] = "none"
    /\ chan' = [chan EXCEPT ![d] = err[d]] /\ pc' = [pc EXCEPT ![d] = "recv"]
    /\ UNCHANGED <<ends, taken, put, err, closeSent, handler>>

Report(d) ==
    /\ pc[d] = "report" /\ chan[d] = "none"
    /\ chan' = [chan EXCEPT ![d] = err[d]] /\ pc' = [pc EXCEPT ![d] = "gone"]
    /\ UNCHANGED <<ends, taken, put, err, closeSent, handler>>

Goroutine(d) ==
    \/ Recv(d) \/ RecvEof(d) \/ RecvError(d) \/ RecvRefuses(d)
    \/ Send(d) \/ Report(d)
    \/ (d = "up" /\ SendEof) \/ (d = "down" /\ SendError)

-----------------------------------------------------------------------------
(* The caller *)

CallerSends ==
    /\ ~half /\ ~gone /\ seen["down"] = "open" /\ sent["up"] < Most
    /\ sent' = [sent EXCEPT !["up"] = @ + 1]
    /\ UNCHANGED <<got, seen, half, gone, status, broken, refused, proxy>>

CallerHalfCloses ==
    /\ ~half /\ ~gone /\ seen["down"] = "open"
    /\ half' = TRUE
    /\ UNCHANGED <<sent, got, seen, gone, status, broken, refused, proxy>>

CallerReads ==
    /\ seen["down"] = "open" /\ got["down"] < put["down"]
    /\ got' = [got EXCEPT !["down"] = @ + 1]
    /\ UNCHANGED <<sent, seen, half, gone, status, broken, refused, proxy>>

\* The status comes after the messages; a failure may overtake them.
CallerSeesStatus ==
    /\ seen["down"] = "open" /\ Returned
    /\ handler = "ok" => got["down"] = put["down"]
    /\ seen' = [seen EXCEPT !["down"] =
                  IF handler = "ok" THEN "complete" ELSE "failed"]
    /\ UNCHANGED <<sent, got, half, gone, status, broken, refused, proxy>>

\* It cancels, its deadline passes, or its connection is lost.
CallerLeaves ==
    /\ ~gone /\ seen["down"] = "open"
    /\ gone' = TRUE /\ seen' = [seen EXCEPT !["down"] = "failed"]
    /\ UNCHANGED <<sent, got, half, status, broken, refused, proxy>>

Caller ==
    \/ CallerSends \/ CallerHalfCloses \/ CallerReads
    \/ CallerSeesStatus \/ CallerLeaves

-----------------------------------------------------------------------------
(* The upstream and the connection to it *)

UpstreamSends ==
    /\ Opened /\ status = "open" /\ sent["down"] < Most
    /\ sent' = [sent EXCEPT !["down"] = @ + 1]
    /\ UNCHANGED <<got, seen, half, gone, status, broken, refused, proxy>>

UpstreamReads ==
    /\ status = "open" /\ seen["up"] = "open" /\ got["up"] < put["up"]
    /\ got' = [got EXCEPT !["up"] = @ + 1]
    /\ UNCHANGED <<sent, seen, half, gone, status, broken, refused, proxy>>

UpstreamSeesHalfClose ==
    /\ status = "open" /\ seen["up"] = "open"
    /\ closeSent /\ got["up"] = put["up"]
    /\ seen' = [seen EXCEPT !["up"] = "complete"]
    /\ UNCHANGED <<sent, got, half, gone, status, broken, refused, proxy>>

UpstreamSeesCancel ==
    /\ Opened /\ ClientOver /\ seen["up"] = "open"
    /\ seen' = [seen EXCEPT !["up"] = "failed"]
    /\ UNCHANGED <<sent, got, half, gone, status, broken, refused, proxy>>

\* At any time, whatever it has read.
UpstreamEnds ==
    /\ Opened /\ status = "open"
    /\ status' \in {"ok", "failed"}
    /\ UNCHANGED <<sent, got, seen, half, gone, broken, refused, proxy>>

ConnectionBreaks ==
    /\ Opened /\ ~broken
    /\ broken' = TRUE
    /\ UNCHANGED <<sent, got, seen, half, gone, status, refused, proxy>>

Upstream ==
    \/ UpstreamSends \/ UpstreamReads \/ UpstreamSeesHalfClose
    \/ UpstreamSeesCancel \/ UpstreamEnds \/ ConnectionBreaks

Next == Handler \/ (\E d \in Dir : Goroutine(d)) \/ Caller \/ Upstream

Spec == Init /\ [][Next]_vars

-----------------------------------------------------------------------------
(* Properties *)

\* Every variable has its type, messages are got after they were put, taken and
\* sent, a goroutine has at most one message in hand, and one that has reported
\* is gone.
TypeOK ==
    /\ sent \in [Dir -> 0..Most] /\ taken \in [Dir -> 0..Most]
    /\ put \in [Dir -> 0..Most] /\ got \in [Dir -> 0..Most]
    /\ seen \in [Dir -> {"open", "complete", "failed"}]
    /\ refused \in [Dir -> BOOLEAN]
    /\ pc \in [Dir -> {"off", "recv", "send", "report", "gone"}]
    /\ err \in [Dir -> {"none", "eof", "error"}]
    /\ chan \in [Dir -> {"none", "eof", "error"}]
    /\ half \in BOOLEAN /\ gone \in BOOLEAN /\ broken \in BOOLEAN
    /\ closeSent \in BOOLEAN
    /\ status \in {"open", "ok", "failed"}
    /\ handler \in {"start", "wait", "ok", "failed", "internal"}
    /\ \A d \in Dir :
         /\ got[d] <= put[d] /\ put[d] <= taken[d] /\ taken[d] <= sent[d]
         /\ chan[d] # "none" => pc[d] = "gone" /\ chan[d] = err[d]
         /\ handler = "start" => pc[d] = "off"
         /\ pc[d] \in {"off", "recv"} => put[d] = taken[d]
         /\ pc[d] = "send" => put[d] = taken[d] - 1

\* A caller that stays and keeps to the size limit gets the upstream's own status:
\* an Internal error is never the answer to an upstream that ended early and let
\* the sends fail, and a success is never turned into a failure
\* (proxy_handler.go:62-78).
StatusIsUpstreams ==
    /\ handler = "internal" => gone \/ refused["up"]
    /\ handler = "failed" /\ Opened
         => status = "failed" \/ gone \/ broken \/ refused["down"]

DC == INSTANCE DirectCall WITH
        finished <- [d \in Dir |-> IF d = "up" THEN half ELSE status = "ok"]

\* The relay looks like a direct call to both ends: what they get is a prefix of
\* what was sent, and neither sees a complete end before it got everything and
\* the other had finished.
DirectCallSpec == DC!DSpec

\* The goroutines and the handler are scheduled; the caller reads what comes, or
\* leaves.  Nothing is assumed of the upstream.
Fairness ==
    /\ WF_vars(Handler) /\ WF_vars(CallerReads)
    /\ WF_vars(Goroutine("up")) /\ WF_vars(Goroutine("down"))

FairSpec == Spec /\ Fairness

\* No goroutine outlives its call for ever, although nobody takes from its channel
\* once the handler has returned (proxy_handler.go:85, 102).
GoroutinesEnd == Returned ~> \A d \in Dir : pc[d] \in {"off", "gone"}

\* The handler returns when the upstream has ended or is lost, or the caller has
\* left, whichever direction is idle or blocked then.
CallEnds == (status # "open" \/ gone \/ broken) ~> Returned
=============================================================================
