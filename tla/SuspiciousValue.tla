--------------------------- MODULE SuspiciousValue ---------------------------
(***************************************************************************)
(* checkForSuspiciousValue: is a certificate to be locked?  A certificate  *)
(* is the sequence of its bridge exits [token, amount]; a token is its     *)
(* origin network and the account of its contract, NoToken where the exit  *)
(* has no token info or address.  The configuration is the limit, or       *)
(* Unset, and the text of --token-values, NoTokens where none was stored:  *)
(* a sequence of entries, each the sequence of its fields, network,        *)
(* address, dollars and multiplier; a number that is none is Bad.  An      *)
(* address is a text [of, length, letters], letters being the case of its  *)
(* hex digits.                                                             *)
(***************************************************************************)
EXTENDS Integers, Sequences, Functions, FiniteSetsExt

CONSTANT NoToken

Unset == -1
Bad == -1
NoTokens == << >>

-----------------------------------------------------------------------------
(* ParseTokenValues *)

Lower(address) == [address EXCEPT !.letters = "lower"]

ID(network, address) == <<network, Lower(address)>>

\* One entry that does not parse fails the whole text, the empty text included.
Parses(text) ==
    /\ text # NoTokens
    /\ \A i \in DOMAIN text :
         /\ Len(text[i]) = 4 /\ text[i][2].length = 40
         /\ \A k \in {1, 3, 4} : text[i][k] # Bad

\* Of several entries for a token the last one stays in the map.
ParseTokenValues(text) ==
    LET IDs == [i \in DOMAIN text |-> ID(text[i][1], text[i][2])]
        Last(id) == text[Max({i \in DOMAIN text : IDs[i] = id})]
    IN [id \in {IDs[i] : i \in DOMAIN text} |->
          [dollars |-> Last(id)[3], multiplier |-> Last(id)[4]]]

-----------------------------------------------------------------------------
(* checkForSuspiciousValue *)

\* The exits whose token the check looks up.
Looked(exits) == {i \in DOMAIN exits : exits[i].token # NoToken}

\* The address as Hex spells it, with its checksum's capitals, is lowered too.
NameOf(token) ==
    ID(token[1], [of |-> token[2], length |-> 40, letters |-> "checksum"])

Unknown(exits, prices) ==
    {i \in Looked(exits) : NameOf(exits[i].token) \notin DOMAIN prices}

Unpriceable(exits, prices) ==
    {i \in Looked(exits) \ Unknown(exits, prices) :
        prices[NameOf(exits[i].token)].multiplier = 0}

\* The sum submission compares with zero: every exit counts.
WithdrawalValue(exits) ==
    SumFunction([i \in DOMAIN exits |-> exits[i].amount])

\* Mutant: the dollar value is applied before the division.
DollarValueUndivided(exit, price) == exit.amount * price.dollars

\* Whole tokens only: the division truncates each exit's amount.
DollarValue(exit, price) == (exit.amount \div price.multiplier) * price.dollars

TotalValue(exits, prices) ==
    SumFunction([i \in Looked(exits) |->
                   DollarValue(exits[i], prices[NameOf(exits[i].token)])])

\* The loop stops at the first exit that is unknown, or that divides by zero;
\* without one, a limit that is not set is compared with.
Judged(exits, limit, prices) ==
    LET stops == Unknown(exits, prices) \cup Unpriceable(exits, prices)
    IN CASE stops # {} ->
              IF Min(stops) \in Unknown(exits, prices) THEN "suspicious" ELSE "panic"
         [] stops = {} /\ limit = Unset -> "panic"
         [] stops = {} /\ limit # Unset ->
              IF TotalValue(exits, prices) > limit THEN "suspicious" ELSE "clean"

\* The check's outcome: suspicious, clean, an error for the submitter, or a panic.
Verdict(exits, limit, text) ==
    CASE limit = Unset /\ text = NoTokens   -> "suspicious"
      [] limit # Unset /\ text = NoTokens   -> "error"
      [] text # NoTokens /\ ~Parses(text)   -> "error"
      [] Parses(text) -> Judged(exits, limit, ParseTokenValues(text))

-----------------------------------------------------------------------------
(* The reference: what the configuration says of a token, its address       *)
(* written in whatever letters, and what a certificate is worth, without    *)
(* rounding, in units of 1/scale dollar, scale being a multiple of every    *)
(* multiplier.                                                              *)

Naming(text, token) ==
    {i \in DOMAIN text : text[i][1] = token[1] /\ text[i][2].of = token[2]}

AllNamed(text, exits) ==
    \A i \in Looked(exits) : Naming(text, exits[i].token) # {}

Dollars(text, token) == text[Max(Naming(text, token))][3]
Multiplier(text, token) == text[Max(Naming(text, token))][4]

ExactValue(exits, text, scale) ==
    SumFunction([i \in Looked(exits) |->
        exits[i].amount * Dollars(text, exits[i].token)
          * (scale \div Multiplier(text, exits[i].token))])

\* What truncation can hide at most: one whole token of every exit.
Slack(exits, text) ==
    SumFunction([i \in Looked(exits) |-> Dollars(text, exits[i].token)])
=============================================================================
