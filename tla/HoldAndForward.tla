--------------------------- MODULE HoldAndForward ---------------------------
(***************************************************************************)
(* What the proxy promises about a locked certificate, with none of the    *)
(* mechanism: once it is held it stays held until the upstream has it, it  *)
(* leaves only while permitted (its delay elapsed, or an operator          *)
(* overrode it), and the proxy forgets it only after the upstream has      *)
(* accepted it.  Delivering it again is allowed (at-least-once) until it   *)
(* is retired.  The README's "Delays certificates ... and later submits    *)
(* them" section describes this promise; CertQueue implements it.          *)
(***************************************************************************)
CONSTANT Rows

VARIABLES
    phase,      \* per row: absent, held, sent, delivered or retired
    permitted   \* the rows that may leave now

absVars == <<phase, permitted>>

Phases == {"absent", "held", "sent", "delivered", "retired"}

Become(r, from, to) ==
    /\ phase[r] = from
    /\ phase' = [phase EXCEPT ![r] = to]

HInit ==
    /\ phase = [r \in Rows |-> "absent"]
    /\ permitted = {}

\* The proxy locks a certificate; with a zero delay it may leave at once.
Hold(r) ==
    /\ Become(r, "absent", "held")
    /\ permitted' \in {permitted, permitted \cup {r}}

\* Time passes, an operator overrides, or a restart changes the delay.
Repermit ==
    /\ permitted' \in SUBSET Rows
    /\ UNCHANGED phase

\* A request for the row is on its way to the upstream.
Send(r) ==
    /\ r \in permitted
    /\ Become(r, "held", "sent")
    /\ UNCHANGED permitted

\* The upstream answered that it does not take it: the row is held again.
Return(r) == Become(r, "sent", "held") /\ UNCHANGED permitted

\* The upstream accepts the certificate, now or long after the request.
Deliver(r) == Become(r, "sent", "delivered") /\ UNCHANGED permitted

\* The proxy will never send it again.
Retire(r) == Become(r, "delivered", "retired") /\ UNCHANGED permitted

HNext ==
    \/ Repermit
    \/ \E r \in Rows : Hold(r) \/ Send(r) \/ Return(r) \/ Deliver(r) \/ Retire(r)

HSpec == HInit /\ [][HNext]_absVars
=============================================================================
