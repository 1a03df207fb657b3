----------------------------- MODULE Submission -----------------------------
(***************************************************************************)
(* The SubmitCertificate handler of the proxy's gRPC server, for several   *)
(* submissions at once: a certificate of a chain that is not delayed, or   *)
(* of no value, or clean, is forwarded in the handler; a suspicious one is *)
(* locked, that is stored as a row for the scheduler (CertQueue).  The     *)
(* configuration is in the database; every boot overwrites the parts its   *)
(* flags name and keeps the others.                                        *)
(*                                                                         *)
(* The handler does not look at the errors of its send and store: it       *)
(* dereferences the response that is then nil, and gRPC recovers no panic, *)
(* so the process goes down with every other submission in flight.         *)
(***************************************************************************)
EXTENDS SuspiciousValue

CONSTANTS
    Subs,          \* submissions
    Chains,        \* network ids
    ChainConfigs,  \* values of --delayed-chains, as sets of chains
    ExitLists,     \* bridge exits of the certificates submitted
    Limits,        \* values of --suspicious-value; Unset where omitted
    TokenConfigs,  \* texts of --token-values; NoTokens where omitted
    Scale          \* a common multiple of the multipliers, for the reference

ASSUME ConfigAssumption == Chains # {} /\ ChainConfigs \subseteq SUBSET Chains

\* Amounts are unsigned, the limit is a uint64.
ASSUME AmountAssumption ==
    /\ \A e \in ExitLists :
         IsFiniteSet(DOMAIN e) /\ \A i \in DOMAIN e : e[i].amount \in Nat
    /\ Limits \subseteq Nat \cup {Unset}

\* The fields of a text that parses: an address, and two numbers that are uint64.
ASSUME TextAssumption ==
    \A t \in TokenConfigs : Parses(t) =>
        /\ DOMAIN t = 1..Len(t) /\ Len(t) \in Nat
        /\ \A i \in DOMAIN t :
             /\ t[i][2] = [of |-> t[i][2].of, length |-> t[i][2].length,
                          letters |-> t[i][2].letters]
             /\ t[i][3] \in Nat /\ t[i][4] \in Nat

\* The unit of the reference divides a dollar for every multiplier.
ASSUME ScaleAssumption ==
    /\ Scale \in Nat \ {0}
    /\ \A t \in TokenConfigs : Parses(t) =>
         \A i \in DOMAIN t : t[i][4] # 0 => Scale = (Scale \div t[i][4]) * t[i][4]

VARIABLES
    proc,      \* up or down
    delayed,   \* configuration.delayed_chains
    limit,     \* configuration.suspicious_value
    tokens,    \* configuration.token_values
    flags,     \* what the current boot was given
    cert,      \* [chain, exits] of each submission
    pc,        \* where the handler of each submission is, or how it ended
    rows,      \* submissions locked in the certificates table
    upstream,  \* submissions the upstream has accepted
    panicked   \* history: a handler's panic took the process down

config == <<delayed, limit, tokens, flags>>
vars == <<proc, delayed, limit, tokens, flags, cert, pc, rows, upstream, panicked>>

InFlight == {"chain", "judge", "send", "sent", "store", "stored"}
Ended == {"answered", "failed", "lost"}
Goto(s, from, to) ==
    proc = "up" /\ pc[s] = from /\ pc' = [pc EXCEPT ![s] = to]

NoCert == [chain |-> CHOOSE c \in Chains : TRUE, exits |-> << >>]

Init ==
    /\ proc = "down" /\ panicked = FALSE
    /\ delayed \in ChainConfigs
    /\ limit = Unset /\ tokens = NoTokens
    /\ flags = [limit |-> Unset, tokens |-> NoTokens]
    /\ cert = [s \in Subs |-> NoCert]
    /\ pc = [s \in Subs |-> "idle"]
    /\ rows = {} /\ upstream = {}

\* main: a flag that is given overwrites the stored value, unless the write
\* fails, which is only logged; one that is omitted leaves the stored value.
Boot ==
    /\ proc = "down"
    /\ proc' = "up"
    /\ \E l \in Limits, t \in TokenConfigs :
         /\ t = NoTokens \/ Parses(t)
         /\ flags' = [limit |-> l, tokens |-> t]
         /\ limit' \in {limit, IF l = Unset THEN limit ELSE l}
         /\ tokens' \in {tokens, IF t = NoTokens THEN tokens ELSE t}
    /\ delayed' \in ChainConfigs \cup {delayed}
    /\ UNCHANGED <<cert, pc, rows, upstream, panicked>>

\* The token values come last: a text that does not parse ends the boot, which
\* has then stored what was given before it.
BootRefused ==
    /\ proc = "down"
    /\ \E t \in TokenConfigs : t # NoTokens /\ ~Parses(t)
    /\ \E l \in Limits : limit' \in {limit, IF l = Unset THEN limit ELSE l}
    /\ delayed' \in ChainConfigs \cup {delayed}
    /\ UNCHANGED <<proc, tokens, flags, cert, pc, rows, upstream, panicked>>

\* Every handler in flight ends with the process.
Down ==
    /\ proc = "up"
    /\ proc' = "down"
    /\ pc' = [s \in Subs |-> IF pc[s] \in InFlight THEN "lost" ELSE pc[s]]
    /\ UNCHANGED <<config, cert, rows>>

Crash == Down /\ UNCHANGED <<upstream, panicked>>

Panic == Down /\ panicked' = TRUE

Submit(s) ==
    /\ Goto(s, "idle", "chain")
    /\ \E c \in Chains, e \in ExitLists :
         cert' = [cert EXCEPT ![s] = [chain |-> c, exits |-> e]]
    /\ UNCHANGED <<proc, config, rows, upstream, panicked>>

\* After IsChainDelayed: what is worth nothing, or not delayed, goes out at once.
Route(s, isDelayed) ==
    /\ Goto(s, "chain",
            IF isDelayed /\ WithdrawalValue(cert[s].exits) # 0 THEN "judge" ELSE "send")
    /\ UNCHANGED <<proc, config, cert, rows, upstream, panicked>>

IsChainDelayed(s) == Route(s, cert[s].chain \in delayed)

\* Mutant: when the configuration cannot be read, nothing is delayed.
ChainErrorPasses(s) == Route(s, FALSE)

\* The configuration cannot be read: delay.
IsChainDelayedError(s) == Route(s, TRUE)

Judgement(s) == Verdict(cert[s].exits, limit, tokens)

CheckForSuspiciousValue(s) ==
    \/ /\ Judgement(s) \in {"suspicious", "clean", "error"}
       /\ Goto(s, "judge", CASE Judgement(s) = "suspicious" -> "store"
                             [] Judgement(s) = "clean"      -> "send"
                             [] Judgement(s) = "error"      -> "failed")
       /\ UNCHANGED <<proc, config, cert, rows, upstream, panicked>>
    \/ /\ pc[s] = "judge" /\ Judgement(s) = "panic"
       /\ Panic /\ UNCHANGED upstream

\* A configuration value cannot be read: the submitter gets the error.
CheckError(s) ==
    /\ Goto(s, "judge", "failed")
    /\ UNCHANGED <<proc, config, cert, rows, upstream, panicked>>

StoreCertificate(s) ==
    /\ Goto(s, "store", "stored")
    /\ rows' = rows \cup {s}
    /\ UNCHANGED <<proc, config, cert, upstream, panicked>>

\* Mutant: the submitter is told all is well although nothing was stored.
StoreErrorAnswersOk(s) ==
    /\ Goto(s, "store", "answered")
    /\ UNCHANGED <<proc, config, cert, rows, upstream, panicked>>

\* The INSERT fails: the nil response is dereferenced.
StoreError(s) == pc[s] = "store" /\ Panic /\ UNCHANGED upstream

\* Mutant: a certificate that is sent at once is also put in the table.
UpstreamAcceptsAndStores(s) ==
    /\ Goto(s, "send", "sent")
    /\ upstream' = upstream \cup {s} /\ rows' = rows \cup {s}
    /\ UNCHANGED <<proc, config, cert, panicked>>

UpstreamAccepts(s) ==
    /\ Goto(s, "send", "sent")
    /\ upstream' = upstream \cup {s}
    /\ UNCHANGED <<proc, config, cert, rows, panicked>>

\* The send fails, whether or not the upstream has the certificate: the nil
\* response is dereferenced.
SendError(s) == pc[s] \in {"send", "sent"} /\ Panic /\ UNCHANGED upstream

Answer(s) ==
    /\ \/ Goto(s, "stored", "answered")
       \/ Goto(s, "sent", "answered")
    /\ UNCHANGED <<proc, config, cert, rows, upstream, panicked>>

Handle(s) ==
    \/ Submit(s) \/ IsChainDelayed(s) \/ IsChainDelayedError(s)
    \/ CheckForSuspiciousValue(s) \/ CheckError(s)
    \/ StoreCertificate(s) \/ StoreError(s)
    \/ UpstreamAccepts(s) \/ SendError(s) \/ Answer(s)

Next == Boot \/ BootRefused \/ Crash \/ \E s \in Subs : Handle(s)

Spec == Init /\ [][Next]_vars

-----------------------------------------------------------------------------
(* Properties *)

\* Every variable has its type, nothing is in flight in a dead process, and a
\* row or an accepted certificate belongs to a submission that got that far.
TypeOK ==
    /\ proc \in {"up", "down"} /\ panicked \in BOOLEAN
    /\ delayed \subseteq Chains
    /\ limit \in Limits \cup {Unset} /\ tokens \in TokenConfigs \cup {NoTokens}
    /\ cert \in [Subs -> [chain : Chains, exits : ExitLists \cup {<< >>}]]
    /\ pc \in [Subs -> {"idle"} \cup InFlight \cup Ended]
    /\ proc = "down" => \A s \in Subs : pc[s] \notin InFlight
    /\ rows \cup upstream \subseteq Subs
    /\ \A s \in rows : pc[s] \in {"stored", "answered", "lost"}
    /\ \A s \in upstream : pc[s] \in {"sent", "answered", "lost"}

\* A submitter that got an answer has its certificate at the upstream or in the
\* table, never both: the handler's own failures cannot lose it (grpc.go:89-116).
AnsweredIsSafe ==
    \A s \in Subs : pc[s] = "answered" => (s \in rows) # (s \in upstream)

Worth(s) == ExactValue(cert[s].exits, tokens, Scale)
AllKnown(s) == AllNamed(tokens, cert[s].exits)

\* A certificate goes out without a delay only if its chain is not delayed, or
\* it withdraws nothing, or every token is named by the configuration, in
\* whatever letters, and by its last entry for each of them it is worth no more
\* than the limit plus one whole token of each exit; errors while reading the
\* configuration never open another way (grpc.go:67-73, 89-111, 141-219,
\* tokens.go:22-56).
SentIsJustified ==
    \A s \in Subs : pc[s] \in {"send", "sent"} =>
        \/ cert[s].chain \notin delayed
        \/ WithdrawalValue(cert[s].exits) = 0
        \/ /\ limit # Unset /\ AllKnown(s)
           /\ Worth(s) <= (limit + Slack(cert[s].exits, tokens)) * Scale

\* A certificate is locked only for a reason the documents give: there is no
\* configuration, a token is named by no entry, or it is worth more than the
\* limit, so that neither rounding nor the letters of an address alone lock
\* anything (grpc.go:138-140, tokens.go:17-20).
LockedIsJustified ==
    \A s \in Subs : pc[s] \in {"store", "stored"} =>
        \/ limit = Unset /\ tokens = NoTokens
        \/ ~AllKnown(s)
        \/ Worth(s) > limit * Scale

\* What the README says: "ommitting the suspicious-value or token-values flags
\* will treat all certificates as suspcious if the have any bridge exits": what
\* is judged after a boot that omitted one of them is neither sent nor a panic.
OmittedFlagsLock ==
    [][\A s \in Subs :
          (/\ pc[s] = "judge" /\ cert[s].chain \in delayed
           /\ flags.limit = Unset \/ flags.tokens = NoTokens)
              => pc'[s] # "send" /\ panicked' = panicked]_vars

\* What sendCertificateImmediately and storeCertificate build their errors for
\* ("failed to send certificate immediately", "failed to store certificate"): a
\* submission whose send or store fails is told so, not lost in a panic.
FailureIsAnswered ==
    [][\A s \in Subs :
          (pc[s] \in {"send", "sent", "store"} /\ pc'[s] = "lost")
              => panicked' = panicked]_vars
=============================================================================
