---------------------------- MODULE HeaderLookup ----------------------------
(***************************************************************************)
(* GetCertificateHeader beside the queue, for one certificate that is      *)
(* polled by its submitter: a certificate with an unprocessed row is       *)
(* PENDING, by the proxy's own word; any other is asked of the upstream.   *)
(* A certificate that was submitted again has several rows with one        *)
(* cert_id, and the lookup reads the first of them.                        *)
(***************************************************************************)
EXTENDS CertQueue

CONSTANT Copies   \* the rows with the polled certificate's cert_id

ASSUME CopiesAssumption == Copies \subseteq Rows

VARIABLES
    first,    \* the row the SELECT returns: the oldest copy, or NoRow
    lookup,   \* idle, or why the handler is asking the upstream
    answer,   \* the last answer the poller got
    told      \* history: nothing, pending, or settled once a processed row
              \* had it sent on and the upstream's header came back

lookupVars == <<first, lookup, answer, told>>
allVars == <<vars, lookupVars>>

LInit ==
    /\ Init
    /\ first = NoRow /\ lookup = "idle" /\ answer = "none" /\ told = "nothing"

\* Rowids grow: the first copy stored stays the first.
FirstStored ==
    first' = IF first = NoRow /\ \E r \in Copies : received'[r] # NotStored
             THEN CHOOSE r \in Copies : received'[r] # NotStored
             ELSE first

\* Mutant: a handler outlives its process.
QueueStepKeepsLookup == Next /\ FirstStored /\ UNCHANGED <<lookup, answer, told>>

\* The queue moves on; a process that dies takes the lookup with it.
QueueStep ==
    /\ Next
    /\ FirstStored
    /\ lookup' = IF proc' = "down" THEN "idle" ELSE lookup
    /\ UNCHANGED <<answer, told>>

\* Mutant: an override counts as processed.
PendingUnlessOverridden ==
    first # NoRow /\ first \notin processed \cup overridden

\* Mutant: any copy that waits makes the certificate pending.
PendingForAnyCopy == \E r \in Copies : Stored(r) /\ r \notin processed

IsPending == first # NoRow /\ first \notin processed

LookupPending ==
    /\ Alive /\ lookup = "idle" /\ IsPending
    /\ answer' = "pending"
    /\ told' = IF told = "settled" THEN told ELSE "pending"
    /\ UNCHANGED <<vars, first, lookup>>

LookupElsewhere ==
    /\ Alive /\ lookup = "idle" /\ ~IsPending
    /\ lookup' = IF first = NoRow THEN "absent" ELSE "processed"
    /\ UNCHANGED <<vars, first, answer, told>>

LookupError ==
    /\ Alive /\ lookup = "idle"
    /\ answer' = "error"
    /\ UNCHANGED <<vars, first, lookup, told>>

\* The upstream has a header for what it has accepted.
UpstreamHeader ==
    /\ lookup # "idle" /\ Copies \cap accepted # {}
    /\ lookup' = "idle" /\ answer' = "header"
    /\ told' = IF lookup = "processed" THEN "settled" ELSE told
    /\ UNCHANGED <<vars, first>>

UpstreamNotFound ==
    /\ lookup # "idle" /\ Copies \cap accepted = {}
    /\ lookup' = "idle" /\ answer' = "not found"
    /\ UNCHANGED <<vars, first, told>>

\* The connection fails, or the poller's context ends.
UpstreamHeaderError ==
    /\ lookup # "idle"
    /\ lookup' = "idle" /\ answer' = "error"
    /\ UNCHANGED <<vars, first, told>>

GetCertificateHeader ==
    \/ LookupPending \/ LookupElsewhere \/ LookupError
    \/ UpstreamHeader \/ UpstreamNotFound \/ UpstreamHeaderError

LNext == QueueStep \/ GetCertificateHeader

LSpec == LInit /\ [][LNext]_allVars

-----------------------------------------------------------------------------
(* Properties *)

\* The lookup's variables have their types, the row it reads is the copy that
\* was stored first, exactly when there is one, and no lookup is under way in a
\* dead process.
LookupTypeOK ==
    /\ first \in Copies \cup {NoRow}
    /\ first = NoRow <=> ~\E r \in Copies : Stored(r)
    /\ first # NoRow => Stored(first)
    /\ lookup \in {"idle", "absent", "processed"}
    /\ proc = "down" => lookup = "idle"
    /\ answer \in {"none", "pending", "header", "not found", "error"}
    /\ told \in {"nothing", "pending", "settled"}

\* Whoever is sent on to the upstream because the row is processed finds the
\* certificate there: the row is marked after the upstream accepted it, and an
\* override alone marks nothing (grpc.go:244-247, service.go:144-149).
ProcessedIsKnown == lookup = "processed" => Copies \cap accepted # {}

\* What a poller is told never goes back: after PENDING it is never told that
\* there is no such certificate, and once it was sent on for a processed row it
\* is never told PENDING, whatever copies of the certificate come after
\* (grpc.go:232-252, sqlite.go:359).  A header it got before there was a row to
\* read, or from a lookup the insertion overtook, promises nothing.
PollGoesForward ==
    [][answer' # answer =>
         /\ told = "settled" => answer' # "pending"
         /\ told # "nothing" => answer' # "not found"]_allVars
=============================================================================
