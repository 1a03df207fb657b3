-------------------------- MODULE SubmissionProofs --------------------------
(***************************************************************************)
(* Proofs about Submission, for any number of submissions and any values   *)
(* of the configuration: types, that the handler's answer is true, and     *)
(* that what is sent or locked is so for a reason.  The last rests on what *)
(* the sums over a certificate's exits are, by the lemmas of FoldLemmas.   *)
(***************************************************************************)
EXTENDS Submission, FoldLemmas

\* What each place of the handler says about where its certificate is.
Placed ==
    /\ \A s \in Subs : pc[s] = "stored" => s \in rows
    /\ \A s \in Subs : pc[s] = "sent" => s \in upstream
    /\ \A s \in Subs : pc[s] = "answered" => s \in rows \cup upstream
    /\ rows \cap upstream = {}

IInv == TypeOK /\ Placed

USE ConfigAssumption DEF InFlight, Ended, Unset, NoTokens

\* The initial states satisfy the inductive invariant.
LEMMA InitIInv == Init => IInv
<1> SUFFICES ASSUME Init PROVE IInv
    OBVIOUS
<1>1. NoCert \in [chain : Chains, exits : ExitLists \cup {<< >>}]
    BY DEF NoCert
<1> QED
    BY <1>1 DEF Init, IInv, TypeOK, Placed

\* The process going down, by a crash or a panic, touches neither the table nor
\* the upstream, and no handler in flight survives it.
LEMMA DownKeeps ==
    ASSUME IInv, Down, upstream' = upstream, panicked' \in BOOLEAN
    PROVE  IInv'
BY DEF IInv, TypeOK, Placed, Down, config

\* Handling a submission keeps the inductive invariant.
LEMMA HandleKeeps ==
    ASSUME IInv, NEW s \in Subs, Handle(s)
    PROVE  IInv'
<1> USE DEF IInv, TypeOK, Placed, Goto, config
<1>1. CASE Submit(s)
    BY <1>1 DEF Submit
<1>2. CASE IsChainDelayed(s) \/ IsChainDelayedError(s)
    <2>1. ASSUME NEW d \in BOOLEAN, Route(s, d) PROVE IInv'
        BY <2>1 DEF Route
    <2>2. CASE IsChainDelayed(s)
        <3>1. Route(s, cert[s].chain \in delayed)
            BY <2>2 DEF IsChainDelayed
        <3>2. (cert[s].chain \in delayed) \in BOOLEAN
            OBVIOUS
        <3> HIDE DEF IInv
        <3> QED
            BY ONLY <3>1, <3>2, <2>1
    <2>3. CASE IsChainDelayedError(s)
        BY ONLY <2>3, <2>1 DEF IsChainDelayedError
    <2> QED
        BY <1>2, <2>2, <2>3
<1>3. CASE CheckForSuspiciousValue(s)
    <2>1. CASE Panic /\ UNCHANGED upstream
        BY <2>1, DownKeeps DEF Panic
    <2>2. CASE ~(Panic /\ UNCHANGED upstream)
        <3>1. /\ pc[s] = "judge" /\ proc = "up"
              /\ \E to \in {"store", "send", "failed"} : pc' = [pc EXCEPT ![s] = to]
              /\ UNCHANGED <<proc, config, cert, rows, upstream, panicked>>
            BY <1>3, <2>2 DEF CheckForSuspiciousValue
        <3> QED
            BY <3>1
    <2> QED
        BY <2>1, <2>2
<1>4. CASE CheckError(s)
    BY <1>4 DEF CheckError
<1>5. CASE StoreCertificate(s)
    BY <1>5 DEF StoreCertificate
<1>6. CASE StoreError(s) \/ SendError(s)
    BY <1>6, DownKeeps DEF StoreError, SendError, Panic
<1>7. CASE UpstreamAccepts(s)
    BY <1>7 DEF UpstreamAccepts
<1>8. CASE Answer(s)
    BY <1>8 DEF Answer
<1> QED
    BY <1>1, <1>2, <1>3, <1>4, <1>5, <1>6, <1>7, <1>8 DEF Handle

\* Every step preserves the inductive invariant.
LEMMA StepIInv == IInv /\ [Next]_vars => IInv'
<1> SUFFICES ASSUME IInv, [Next]_vars PROVE IInv'
    OBVIOUS
<1>1. CASE Boot \/ BootRefused
    BY <1>1 DEF Boot, BootRefused, IInv, TypeOK, Placed
<1>2. CASE Crash
    BY <1>2, DownKeeps DEF Crash, IInv, TypeOK
<1>3. ASSUME NEW s \in Subs, Handle(s) PROVE IInv'
    BY <1>3, HandleKeeps
<1>4. CASE UNCHANGED vars
    BY <1>4 DEF vars, IInv, TypeOK, Placed
<1> QED
    BY <1>1, <1>2, <1>3, <1>4 DEF Next

\* The inductive invariant holds in every reachable state.
THEOREM InvariantHolds == Spec => []IInv
BY InitIInv, StepIInv, PTL DEF Spec

\* Type correctness, with no handler left in flight by a dead process.
THEOREM TypeCorrect == Spec => []TypeOK
<1>1. IInv => TypeOK
    BY DEF IInv
<1> QED
    BY <1>1, InvariantHolds, PTL

\* An answered submission is in exactly one of the table and the upstream, after
\* any sequence of failed reads, sends and stores, panics, crashes and boots.
THEOREM AnsweredIsSafeHolds == Spec => []AnsweredIsSafe
<1>1. IInv => AnsweredIsSafe
    BY DEF IInv, Placed, AnsweredIsSafe
<1> QED
    BY <1>1, InvariantHolds, PTL

-----------------------------------------------------------------------------
(* What the check computes *)

\* Multiplying by a number keeps the order.
LEMMA Multiples ==
    ASSUME NEW x \in Nat, NEW y \in Nat, x <= y, NEW k \in Nat
    PROVE  x * k \in Nat /\ x * k <= y * k
<1>1. PICK d \in Nat : y = x + d
    BY y - x \in Nat
<1>2. y * k = x * k + d * k /\ d * k \in Nat /\ x * k \in Nat
    BY <1>1
<1> QED
    BY ONLY <1>2

\* One exit: between its truncated value and that plus one whole token.
LEMMA ExitBounds ==
    ASSUME NEW a \in Nat, NEW d \in Nat, NEW m \in Nat, m # 0,
           NEW q \in Nat, NEW scale \in Nat, scale = q * m
    PROVE  /\ a \div m \in Nat /\ (a \div m) * d \in Nat
           /\ a * d * q \in Nat
           /\ ((a \div m) * d) * scale <= a * d * q
           /\ a * d * q <= ((a \div m) * d + d) * scale
<1> DEFINE w == a \div m
<1>1. /\ w \in Nat /\ w * m \in Nat /\ (w + 1) * m \in Nat
      /\ w * m <= a /\ a <= (w + 1) * m
    <2>1. m > 0
        OBVIOUS
    <2>2. w \in Nat /\ m * w <= a /\ a < m * w + m
        BY ONLY a \in Nat, m \in Nat, <2>1
    <2> HIDE DEF w
    <2>3. m * w = w * m /\ w * m \in Nat /\ (w + 1) * m = w * m + m
        BY <2>2
    <2> QED
        BY ONLY a \in Nat, m \in Nat, <2>2, <2>3
<1> HIDE DEF w
<1>2. d * q \in Nat
    OBVIOUS
<1>3. (w * m) * (d * q) <= a * (d * q) /\ a * (d * q) <= ((w + 1) * m) * (d * q)
    BY <1>1, <1>2, Multiples
<1>4. /\ (w * m) * (d * q) = (w * d) * (q * m)
      /\ a * (d * q) = a * d * q
      /\ ((w + 1) * m) * (d * q) = (w * d + d) * (q * m)
      /\ w * d \in Nat /\ a * d * q \in Nat
    BY <1>1
<1> QED
    BY ONLY <1>1, <1>3, <1>4, scale = q * m DEF w

\* A text the handler reads: one that boot stored.
Readable(text) == text \in TokenConfigs /\ Parses(text)

\* The map's entry for a token's lower-cased name is the last entry of the text
\* that names the token in whatever letters; there is none when no entry does.
LEMMA PricesAreTheLastEntries ==
    ASSUME NEW text, Readable(text), NEW token
    PROVE  /\ NameOf(token) \in DOMAIN ParseTokenValues(text)
                <=> Naming(text, token) # {}
           /\ Naming(text, token) # {} =>
                /\ ParseTokenValues(text)[NameOf(token)]
                     = [dollars |-> Dollars(text, token),
                        multiplier |-> Multiplier(text, token)]
                /\ Dollars(text, token) \in Nat
                /\ Multiplier(text, token) \in Nat
                /\ Multiplier(text, token) # 0 =>
                     Scale = (Scale \div Multiplier(text, token)) * Multiplier(text, token)
<1> DEFINE IDs == [i \in DOMAIN text |-> ID(text[i][1], text[i][2])]
           LastOf(id) == text[Max({i \in DOMAIN text : IDs[i] = id})]
           prices == [id \in {IDs[i] : i \in DOMAIN text} |->
                        [dollars |-> LastOf(id)[3], multiplier |-> LastOf(id)[4]]]
<1>1. ASSUME NEW i \in DOMAIN text
      PROVE  IDs[i] = NameOf(token)
               <=> text[i][1] = token[1] /\ text[i][2].of = token[2]
    <2>1. text[i][2].length = 40
        BY DEF Readable, Parses
    <2> DEFINE o == text[i][2].of
               l == text[i][2].letters
    <2>2. text[i][2] = [of |-> o, length |-> 40, letters |-> l]
        BY <2>1, TextAssumption DEF Readable
    <2> HIDE DEF o, l
    <2>3. Lower(text[i][2]) = [of |-> o, length |-> 40, letters |-> "lower"]
        BY ONLY <2>2 DEF Lower
    <2>4. NameOf(token)
            = <<token[1], [of |-> token[2], length |-> 40, letters |-> "lower"]>>
        BY DEF NameOf, ID, Lower
    <2>5. IDs[i] = <<text[i][1], [of |-> o, length |-> 40, letters |-> "lower"]>>
        BY <2>3 DEF ID
    <2>6. text[i][2].of = o
        BY DEF o
    <2> HIDE DEF IDs
    <2>7. [of |-> o, length |-> 40, letters |-> "lower"]
            = [of |-> token[2], length |-> 40, letters |-> "lower"] <=> o = token[2]
        OBVIOUS
    <2> QED
        BY ONLY <2>4, <2>5, <2>6, <2>7
<1>2. {i \in DOMAIN text : IDs[i] = NameOf(token)} = Naming(text, token)
    <2> HIDE DEF IDs
    <2> QED
        BY <1>1 DEF Naming
<1>3. ParseTokenValues(text) = prices
    BY DEF ParseTokenValues
<1>4. NameOf(token) \in DOMAIN prices <=> Naming(text, token) # {}
    <2>1. DOMAIN prices = {IDs[i] : i \in DOMAIN text}
        OBVIOUS
    <2> HIDE DEF IDs, prices
    <2> QED
        BY ONLY <1>2, <2>1
<1>5. ASSUME Naming(text, token) # {}
      PROVE  prices[NameOf(token)] = [dollars |-> Dollars(text, token),
                                      multiplier |-> Multiplier(text, token)]
    <2>1. NameOf(token) \in {IDs[i] : i \in DOMAIN text}
        BY <1>4, <1>5
    <2>2. LastOf(NameOf(token)) = text[Max(Naming(text, token))]
        BY <1>2
    <2> HIDE DEF IDs, LastOf
    <2> QED
        BY ONLY <2>1, <2>2 DEF Dollars, Multiplier
<1>6. ASSUME Naming(text, token) # {}
      PROVE  Max(Naming(text, token)) \in DOMAIN text
    <2>1. DOMAIN text = 1..Len(text) /\ Len(text) \in Nat
        BY TextAssumption DEF Readable
    <2>2. Naming(text, token) \in SUBSET (DOMAIN text)
        BY DEF Naming
    <2> QED
        BY ONLY <1>6, <2>1, <2>2, MaxIsMember
<1>7. ASSUME Naming(text, token) # {}
      PROVE  /\ Dollars(text, token) \in Nat /\ Multiplier(text, token) \in Nat
             /\ Multiplier(text, token) # 0 =>
                  Scale = (Scale \div Multiplier(text, token)) * Multiplier(text, token)
    BY <1>6, <1>7, TextAssumption, ScaleAssumption
    DEF Readable, Dollars, Multiplier
<1> HIDE DEF prices
<1> QED
    BY ONLY <1>3, <1>4, <1>5, <1>7

\* The certificates there are: finitely many exits of unsigned amounts.
Finite(exits) == IsFiniteSet(DOMAIN exits) /\ \A i \in DOMAIN exits : exits[i].amount \in Nat

\* When the loop stops at no exit, the value it adds up is the exact value up to
\* one whole token of every exit.
LEMMA TruncationBounds ==
    ASSUME NEW exits, Finite(exits), NEW text, Readable(text),
           Unknown(exits, ParseTokenValues(text)) = {},
           Unpriceable(exits, ParseTokenValues(text)) = {}
    PROVE  /\ AllNamed(text, exits)
           /\ TotalValue(exits, ParseTokenValues(text)) \in Int
           /\ Slack(exits, text) \in Int
           /\ ExactValue(exits, text, Scale) \in Int
           /\ TotalValue(exits, ParseTokenValues(text)) * Scale
                <= ExactValue(exits, text, Scale)
           /\ ExactValue(exits, text, Scale)
                <= (TotalValue(exits, ParseTokenValues(text)) + Slack(exits, text)) * Scale
<1> DEFINE L == Looked(exits)
           token(i) == exits[i].token
           d(i) == Dollars(text, token(i))
           m(i) == Multiplier(text, token(i))
           value == [i \in L |-> DollarValue(exits[i], ParseTokenValues(text)[NameOf(token(i))])]
           worth == [i \in L |-> exits[i].amount * d(i) * (Scale \div m(i))]
           slack == [i \in L |-> d(i)]
           upper == [i \in L |-> value[i] + slack[i]]
           low == [i \in L |-> value[i] * Scale]
           high == [i \in L |-> upper[i] * Scale]
<1>1. IsFiniteSet(L)
    BY FS_Subset DEF Looked, Finite
<1>2. ASSUME NEW i \in L
      PROVE  /\ Naming(text, token(i)) # {}
             /\ d(i) \in Nat /\ m(i) \in Nat /\ m(i) # 0
             /\ exits[i].amount \in Nat
             /\ Scale = (Scale \div m(i)) * m(i)
             /\ value[i] = (exits[i].amount \div m(i)) * d(i)
    <2>1. NameOf(token(i)) \in DOMAIN ParseTokenValues(text)
        BY <1>2 DEF Unknown
    <2>2. ParseTokenValues(text)[NameOf(token(i))].multiplier # 0
        BY <1>2, <2>1 DEF Unpriceable, Unknown
    <2>3. /\ Naming(text, token(i)) # {}
          /\ ParseTokenValues(text)[NameOf(token(i))]
               = [dollars |-> d(i), multiplier |-> m(i)]
          /\ d(i) \in Nat /\ m(i) \in Nat
          /\ m(i) # 0 => Scale = (Scale \div m(i)) * m(i)
        BY <2>1, PricesAreTheLastEntries
    <2>4. m(i) # 0
        BY ONLY <2>2, <2>3
    <2>5. exits[i].amount \in Nat
        BY <1>2 DEF Looked, Finite
    <2>6. value[i] = (exits[i].amount \div m(i)) * d(i)
        BY ONLY <1>2, <2>3 DEF DollarValue
    <2> QED
        BY ONLY <2>3, <2>4, <2>5, <2>6
<1>3. ASSUME NEW i \in L
      PROVE  /\ value[i] \in Int /\ worth[i] \in Int /\ slack[i] \in Int
             /\ value[i] * Scale <= worth[i]
             /\ worth[i] <= (value[i] + slack[i]) * Scale
    <2> DEFINE q == Scale \div m(i)
    <2>1. Scale \in Nat /\ q \in Nat
        <3>1. m(i) \in Nat /\ m(i) > 0
            BY <1>2
        <3>2. Scale \in Nat
            BY ScaleAssumption
        <3> QED
            BY ONLY <3>1, <3>2
    <2>2. worth[i] = exits[i].amount * d(i) * q /\ slack[i] = d(i)
        OBVIOUS
    <2> DEFINE a == exits[i].amount
               D == d(i)
               M == m(i)
    <2>3. a \in Nat /\ D \in Nat /\ M \in Nat /\ M # 0 /\ Scale = q * M
            /\ value[i] = (a \div M) * D
        BY <1>2
    <2> HIDE DEF worth, slack, value, d, m, q, a, D, M
    <2>4. /\ (a \div M) * D \in Nat
          /\ a * D * q \in Nat
          /\ ((a \div M) * D) * Scale <= a * D * q
          /\ a * D * q <= ((a \div M) * D + D) * Scale
        BY ONLY <2>1, <2>3, ExitBounds
    <2>5. worth[i] = a * D * q /\ slack[i] = D
        BY ONLY <2>2 DEF a, D
    <2> QED
        BY ONLY <2>3, <2>4, <2>5
<1>4. /\ value \in [L -> Int] /\ worth \in [L -> Int] /\ slack \in [L -> Int]
      /\ upper \in [L -> Int] /\ low \in [L -> Int] /\ high \in [L -> Int]
    <2>1. Scale \in Int
        BY ScaleAssumption
    <2>2. value = [i \in L |-> value[i]] /\ worth = [i \in L |-> worth[i]]
            /\ slack = [i \in L |-> slack[i]]
        OBVIOUS
    <2> HIDE DEF value, worth, slack, L
    <2> QED
        BY <1>3, <2>1, <2>2
<1>5. /\ \A i \in L : low[i] <= worth[i] /\ worth[i] <= high[i]
    <2> HIDE DEF value, worth, slack, L
    <2> QED
        BY <1>3
<1>6. /\ TotalValue(exits, ParseTokenValues(text)) = SumFunction(value)
      /\ ExactValue(exits, text, Scale) = SumFunction(worth)
      /\ Slack(exits, text) = SumFunction(slack)
    BY DEF TotalValue, ExactValue, Slack
<1>7. AllNamed(text, exits)
    BY <1>2 DEF AllNamed
<1> HIDE DEF value, worth, slack, L
<1>8. /\ SumFunction(value) \in Int /\ SumFunction(worth) \in Int
      /\ SumFunction(slack) \in Int
    BY ONLY <1>1, <1>4, SumType
<1>9. /\ SumFunction(low) = SumFunction(value) * Scale
      /\ SumFunction(upper) = SumFunction(value) + SumFunction(slack)
      /\ SumFunction(high) = SumFunction(upper) * Scale
    <2>1. Scale \in Int
        BY ScaleAssumption
    <2>2. SumFunction(low) = SumFunction(value) * Scale
        BY ONLY <1>1, <1>4, <2>1, SumScale
    <2>3. SumFunction(upper) = SumFunction(value) + SumFunction(slack)
        BY ONLY <1>1, <1>4, SumAdd
    <2> HIDE DEF upper
    <2>4. SumFunction(high) = SumFunction(upper) * Scale
        BY ONLY <1>1, <1>4, <2>1, SumScale
    <2> QED
        BY ONLY <2>2, <2>3, <2>4
<1>10. SumFunction(low) <= SumFunction(worth) /\ SumFunction(worth) <= SumFunction(high)
    <2> HIDE DEF low, high
    <2> QED
        BY ONLY <1>1, <1>4, <1>5, SumMonotone
<1> QED
    BY ONLY <1>6, <1>7, <1>8, <1>9, <1>10

-----------------------------------------------------------------------------
(* What is sent, and what is locked *)

\* A submitted certificate has finitely many exits of unsigned amounts.
LEMMA SubmittedIsFinite ==
    ASSUME TypeOK, NEW s \in Subs
    PROVE  Finite(cert[s].exits)
<1>1. cert[s].exits \in ExitLists \cup {<< >>}
    BY DEF TypeOK
<1>2. CASE cert[s].exits \in ExitLists
    BY <1>2, AmountAssumption DEF Finite
<1>3. CASE cert[s].exits = << >>
    <2>1. DOMAIN cert[s].exits = {}
        BY <1>3
    <2> QED
        BY <2>1, FS_EmptySet DEF Finite
<1> QED
    BY <1>1, <1>2, <1>3

\* The outcomes of the check: clean is below the limit up to rounding, and what
\* is suspicious is so without it.
LEMMA JudgementIsJustified ==
    ASSUME TypeOK, NEW s \in Subs
    PROVE  /\ Judgement(s) \in {"suspicious", "clean", "error", "panic"}
           /\ Judgement(s) = "clean" =>
                /\ limit # Unset /\ AllKnown(s)
                /\ Worth(s) <= (limit + Slack(cert[s].exits, tokens)) * Scale
           /\ Judgement(s) = "suspicious" =>
                \/ limit = Unset /\ tokens = NoTokens
                \/ ~AllKnown(s)
                \/ Worth(s) > limit * Scale
<1> DEFINE exits == cert[s].exits
           prices == ParseTokenValues(tokens)
           stops == Unknown(exits, prices) \cup Unpriceable(exits, prices)
           total == TotalValue(exits, prices)
<1>1. Finite(exits)
    BY SubmittedIsFinite
<1>2. CASE tokens = NoTokens
    <2>1. ~Parses(tokens)
        BY <1>2 DEF Parses
    <2> QED
        BY <1>2, <2>1 DEF Judgement, Verdict
<1>3. CASE tokens # NoTokens /\ ~Parses(tokens)
    BY <1>3 DEF Judgement, Verdict
<1>4. CASE Parses(tokens)
    <2>1. tokens # NoTokens /\ Readable(tokens)
        BY <1>4 DEF Parses, Readable, TypeOK
    <2>2. Judgement(s) = Judged(exits, limit, prices)
        BY <1>4, <2>1 DEF Judgement, Verdict
    <2>3. CASE stops # {}
        <3>1. Judged(exits, limit, prices) =
                IF Min(stops) \in Unknown(exits, prices) THEN "suspicious" ELSE "panic"
            BY <2>3 DEF Judged
        <3>2. Unknown(exits, prices) # {} => ~AllKnown(s)
            <4>1. ASSUME NEW i \in Unknown(exits, prices) PROVE ~AllKnown(s)
                <5>1. i \in Looked(exits) /\ NameOf(exits[i].token) \notin DOMAIN prices
                    BY <4>1 DEF Unknown
                <5>2. Naming(tokens, exits[i].token) = {}
                    BY <2>1, <5>1, PricesAreTheLastEntries
                <5> QED
                    BY <5>1, <5>2 DEF AllKnown, AllNamed
            <4> QED
                BY <4>1
        <3> HIDE DEF stops, prices, exits
        <3> QED
            BY <2>2, <3>1, <3>2
    <2>4. CASE stops = {} /\ limit = Unset
        <3>1. Judged(exits, limit, prices) = "panic"
            BY <2>4 DEF Judged
        <3> QED
            BY <2>2, <3>1
    <2>5. CASE stops = {} /\ limit # Unset
        <3>1. Judged(exits, limit, prices) =
                IF total > limit THEN "suspicious" ELSE "clean"
            BY <2>5 DEF Judged
        <3>2. /\ AllKnown(s)
              /\ total \in Int /\ Slack(exits, tokens) \in Int /\ Worth(s) \in Int
              /\ total * Scale <= Worth(s)
              /\ Worth(s) <= (total + Slack(exits, tokens)) * Scale
            BY <1>1, <2>1, <2>5, TruncationBounds DEF AllKnown, Worth
        <3>3. limit \in Nat /\ Scale \in Nat /\ Scale > 0
            <4>1. limit \in Limits
                BY <2>5 DEF TypeOK
            <4>2. limit \in Nat
                BY ONLY <2>5, <4>1, AmountAssumption
            <4> QED
                BY ONLY <4>2, ScaleAssumption
        <3> HIDE DEF total, prices, stops, exits
        <3>4. ASSUME total > limit PROVE Worth(s) > limit * Scale
            <4>1. total * Scale >= (limit + 1) * Scale
                <5>1. limit + 1 \in Nat /\ total \in Nat /\ limit + 1 <= total
                    BY <3>2, <3>3, <3>4
                <5> QED
                    BY ONLY <3>3, <5>1, Multiples
            <4>2. (limit + 1) * Scale = limit * Scale + Scale /\ limit * Scale \in Int
                BY <3>3
            <4>3. total * Scale \in Int
                BY <3>2, <3>3
            <4> QED
                BY ONLY <3>2, <3>3, <4>1, <4>2, <4>3
        <3>5. ASSUME ~(total > limit)
              PROVE  Worth(s) <= (limit + Slack(exits, tokens)) * Scale
            <4> DEFINE x == total + Slack(exits, tokens)
                       y == limit + Slack(exits, tokens)
                       d == limit - total
            <4>1. d \in Nat /\ y = x + d
                BY <3>2, <3>3, <3>5
            <4>2. x \in Int /\ y \in Int
                BY <3>2, <3>3
            <4> HIDE DEF x, y, d
            <4>3. y * Scale = x * Scale + d * Scale
                    /\ d * Scale \in Nat /\ x * Scale \in Int
                BY ONLY <3>3, <4>1, <4>2
            <4>4. Worth(s) <= y * Scale
                BY ONLY <3>2, <3>3, <4>3 DEF x
            <4> QED
                BY ONLY <4>4 DEF y
        <3> QED
            BY <2>2, <2>5, <3>1, <3>2, <3>4, <3>5 DEF exits
    <2> QED
        BY <2>3, <2>4, <2>5
<1> QED
    BY <1>2, <1>3, <1>4

SendReason(s) ==
    \/ cert[s].chain \notin delayed
    \/ WithdrawalValue(cert[s].exits) = 0
    \/ /\ limit # Unset /\ AllKnown(s)
       /\ Worth(s) <= (limit + Slack(cert[s].exits, tokens)) * Scale

LockReason(s) ==
    \/ limit = Unset /\ tokens = NoTokens
    \/ ~AllKnown(s)
    \/ Worth(s) > limit * Scale

Justified ==
    \A s \in Subs : /\ pc[s] \in {"send", "sent"} => SendReason(s)
                    /\ pc[s] \in {"store", "stored"} => LockReason(s)

\* The two properties of the runs are the two halves of Justified.
LEMMA JustifiedSays == Justified <=> SentIsJustified /\ LockedIsJustified
BY DEF Justified, SentIsJustified, LockedIsJustified, SendReason, LockReason

\* What a certificate is judged by does not change while its handler runs.
LEMMA ReasonsAreStable ==
    ASSUME UNCHANGED <<delayed, limit, tokens>>, NEW s \in Subs, cert'[s] = cert[s]
    PROVE  /\ SendReason(s) => SendReason(s)'
           /\ LockReason(s) => LockReason(s)'
BY DEF SendReason, LockReason, AllKnown, Worth

\* The handler's own step: it goes to send or to store for a reason, and stays
\* where it is for the same one.
LEMMA HandlerIsJustified ==
    ASSUME TypeOK, Justified, NEW s \in Subs, Handle(s), proc' = "up"
    PROVE  /\ UNCHANGED <<delayed, limit, tokens>>
           /\ \A r \in Subs \ {s} : pc'[r] = pc[r] /\ cert'[r] = cert[r]
           /\ pc'[s] \in {"send", "sent", "store", "stored"} => cert'[s] = cert[s]
           /\ pc'[s] \in {"send", "sent"} => SendReason(s)
           /\ pc'[s] \in {"store", "stored"} => LockReason(s)
<1> DEFINE Stays == /\ UNCHANGED <<delayed, limit, tokens, cert>>
                    /\ \A r \in Subs \ {s} : pc'[r] = pc[r]
<1>0. pc \in [Subs -> {"idle"} \cup InFlight \cup Ended]
    BY DEF TypeOK
<1>1. CASE Submit(s)
    <2>1. /\ pc' = [pc EXCEPT ![s] = "chain"] /\ UNCHANGED <<delayed, limit, tokens>>
          /\ \E v : cert' = [cert EXCEPT ![s] = v]
        BY <1>1 DEF Submit, Goto, config
    <2>2. cert \in [Subs -> [chain : Chains, exits : ExitLists \cup {<< >>}]]
        BY DEF TypeOK
    <2> QED
        BY <1>0, <2>1, <2>2
<1>2. ASSUME NEW d \in BOOLEAN, Route(s, d),
             cert[s].chain \in delayed => d = TRUE
      PROVE  /\ Stays
             /\ pc'[s] \notin {"sent", "store", "stored"}
             /\ pc'[s] = "send" => SendReason(s)
    BY <1>0, <1>2 DEF Route, Goto, config, SendReason
<1>3. CASE IsChainDelayed(s) \/ IsChainDelayedError(s)
    <2>1. CASE IsChainDelayed(s)
        <3> DEFINE d == cert[s].chain \in delayed
        <3>1. d \in BOOLEAN /\ Route(s, d) /\ (d => d = TRUE)
            BY <2>1 DEF IsChainDelayed
        <3>2. Stays /\ pc'[s] \notin {"sent", "store", "stored"}
                /\ (pc'[s] = "send" => SendReason(s))
            BY ONLY <1>2, <3>1
        <3> QED
            BY <3>2
    <2>2. CASE IsChainDelayedError(s)
        <3>1. Route(s, TRUE)
            BY <2>2 DEF IsChainDelayedError
        <3>2. Stays /\ pc'[s] \notin {"sent", "store", "stored"}
                /\ (pc'[s] = "send" => SendReason(s))
            BY ONLY <1>2, <3>1
        <3> QED
            BY <3>2
    <2> QED
        BY <1>3, <2>1, <2>2
<1>4. CASE CheckForSuspiciousValue(s)
    <2>1. Goto(s, "judge", CASE Judgement(s) = "suspicious" -> "store"
                             [] Judgement(s) = "clean"      -> "send"
                             [] Judgement(s) = "error"      -> "failed")
            /\ Judgement(s) \in {"suspicious", "clean", "error"}
            /\ UNCHANGED <<proc, config, cert, rows, upstream, panicked>>
        BY <1>4 DEF CheckForSuspiciousValue, Panic, Down
    <2>2. Stays /\ pc'[s] \notin {"sent", "stored"}
            /\ (pc'[s] = "send" => Judgement(s) = "clean")
            /\ (pc'[s] = "store" => Judgement(s) = "suspicious")
        BY <1>0, <2>1 DEF Goto, config
    <2>3. /\ Judgement(s) = "clean" => SendReason(s)
          /\ Judgement(s) = "suspicious" => LockReason(s)
        BY JudgementIsJustified DEF SendReason, LockReason
    <2> QED
        BY <2>2, <2>3
<1>5. CASE StoreCertificate(s) \/ UpstreamAccepts(s)
    <2>1. /\ Stays
          /\ pc'[s] = "stored" => pc[s] = "store"
          /\ pc'[s] = "sent" => pc[s] = "send"
          /\ pc'[s] \in {"stored", "sent"}
        BY <1>0, <1>5 DEF StoreCertificate, UpstreamAccepts, Goto, config
    <2> QED
        BY <2>1 DEF Justified
<1>6. CASE CheckError(s) \/ Answer(s)
    BY <1>0, <1>6 DEF CheckError, Answer, Goto, config
<1>7. CASE StoreError(s) \/ SendError(s)
    BY <1>7 DEF StoreError, SendError, Panic, Down
<1> QED
    BY <1>1, <1>3, <1>4, <1>5, <1>6, <1>7 DEF Handle

\* Every step preserves the justification of the decisions.
LEMMA StepJustified == TypeOK /\ Justified /\ [Next]_vars => Justified'
<1> SUFFICES ASSUME TypeOK, Justified, [Next]_vars PROVE Justified'
    OBVIOUS
<1>1. CASE Boot \/ BootRefused
    <2>1. \A s \in Subs : pc'[s] \notin InFlight
        BY <1>1 DEF Boot, BootRefused, TypeOK
    <2> QED
        BY <2>1 DEF Justified
<1>2. CASE Down
    <2>1. \A s \in Subs : pc'[s] \notin InFlight
        BY <1>2 DEF Down
    <2> QED
        BY <2>1 DEF Justified
<1>3. ASSUME NEW s \in Subs, Handle(s) PROVE Justified'
    <2>1. CASE ~Down
        <3>1. proc' = "up"
            BY <1>3, <2>1 DEF Handle, Submit, IsChainDelayed, IsChainDelayedError, Route,
               CheckForSuspiciousValue, CheckError, StoreCertificate, StoreError,
               UpstreamAccepts, SendError, Answer, Goto, Panic
        <3>2. /\ UNCHANGED <<delayed, limit, tokens>>
              /\ \A r \in Subs \ {s} : pc'[r] = pc[r] /\ cert'[r] = cert[r]
              /\ pc'[s] \in {"send", "sent", "store", "stored"} => cert'[s] = cert[s]
              /\ pc'[s] \in {"send", "sent"} => SendReason(s)
              /\ pc'[s] \in {"store", "stored"} => LockReason(s)
            BY ONLY <1>3, <3>1, TypeOK, Justified, HandlerIsJustified
        <3>3. ASSUME NEW r \in Subs
              PROVE  /\ pc'[r] \in {"send", "sent"} => SendReason(r)'
                     /\ pc'[r] \in {"store", "stored"} => LockReason(r)'
            <4>1. /\ pc'[r] \in {"send", "sent"} => SendReason(r) /\ cert'[r] = cert[r]
                  /\ pc'[r] \in {"store", "stored"} => LockReason(r) /\ cert'[r] = cert[r]
                BY <3>2 DEF Justified
            <4> QED
                BY ONLY <3>2, <4>1, ReasonsAreStable
        <3> QED
            BY ONLY <3>3 DEF Justified
    <2> QED
        BY <1>2, <2>1
<1>4. CASE UNCHANGED vars
    <2>1. \A s \in Subs : pc'[s] = pc[s] /\ cert'[s] = cert[s]
        BY <1>4 DEF vars
    <2>2. UNCHANGED <<delayed, limit, tokens>>
        BY <1>4 DEF vars
    <2>3. \A s \in Subs : /\ SendReason(s) => SendReason(s)'
                          /\ LockReason(s) => LockReason(s)'
        BY <2>1, <2>2, ReasonsAreStable
    <2> QED
        BY <2>1, <2>3 DEF Justified
<1> QED
    BY <1>1, <1>2, <1>3, <1>4 DEF Next, Crash

\* The initial states satisfy the justification of the decisions.
LEMMA InitJustified == Init => Justified
BY DEF Init, Justified

\* The justification of the decisions holds in every reachable state.
LEMMA AlwaysJustified == Spec => []Justified
<1>1. TypeOK /\ Justified /\ [Next]_vars => Justified'
    BY StepJustified
<1> QED
    BY <1>1, InitJustified, TypeCorrect, PTL DEF Spec

\* For all certificates, limits and texts, and any number of submissions, boots
\* and failures: what goes out at once is not delayed, worth nothing, or all
\* known and below the limit but for the truncation of each exit's amount.
THEOREM SentIsJustifiedHolds == Spec => []SentIsJustified
BY AlwaysJustified, JustifiedSays, PTL

\* For the same: what is locked is so for a reason the documents give.
THEOREM LockedIsJustifiedHolds == Spec => []LockedIsJustified
BY AlwaysJustified, JustifiedSays, PTL
=============================================================================
