----------------------------- MODULE DirectCall -----------------------------
(***************************************************************************)
(* What a streaming call promises its two ends when nothing stands between *)
(* them: each end gets what the other sent, in order and each message      *)
(* once, until it sees the end.  The end it sees is complete, after all    *)
(* messages and only if the sender had finished, or a failure, which may   *)
(* come at any time.  Messages of one direction are counted: the n-th one  *)
(* got is the n-th one sent.                                               *)
(***************************************************************************)
EXTENDS Integers

VARIABLES
    sent,      \* per direction, messages sent
    got,       \* per direction, messages the receiver has got
    finished,  \* per direction, the sender has sent its last message
    seen       \* per direction, the end its receiver saw: open, complete, failed

Dir == {"up", "down"}   \* from the caller, to the caller

callVars == <<sent, got, finished, seen>>

DInit ==
    /\ sent = [d \in Dir |-> 0] /\ got = [d \in Dir |-> 0]
    /\ finished = [d \in Dir |-> FALSE]
    /\ seen = [d \in Dir |-> "open"]

Send(d) ==
    /\ ~finished[d]
    /\ sent' = [sent EXCEPT ![d] = @ + 1]
    /\ UNCHANGED <<got, finished, seen>>

Finish(d) ==
    /\ ~finished[d]
    /\ finished' = [finished EXCEPT ![d] = TRUE]
    /\ UNCHANGED <<sent, got, seen>>

Get(d) ==
    /\ seen[d] = "open" /\ got[d] < sent[d]
    /\ got' = [got EXCEPT ![d] = @ + 1]
    /\ UNCHANGED <<sent, finished, seen>>

SeeComplete(d) ==
    /\ seen[d] = "open" /\ finished[d] /\ got[d] = sent[d]
    /\ seen' = [seen EXCEPT ![d] = "complete"]
    /\ UNCHANGED <<sent, got, finished>>

SeeFailure(d) ==
    /\ seen[d] = "open"
    /\ seen' = [seen EXCEPT ![d] = "failed"]
    /\ UNCHANGED <<sent, got, finished>>

DNext ==
    \E d \in Dir :
        Send(d) \/ Finish(d) \/ Get(d) \/ SeeComplete(d) \/ SeeFailure(d)

DSpec == DInit /\ [][DNext]_callVars
=============================================================================
