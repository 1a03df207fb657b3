---------------------------- MODULE MCSubmission ----------------------------
(* Small instances of Submission for TLC. *)
EXTENDS Submission

\* Two tokens have contracts of one address on two networks.
Token(t) ==
    CASE t = "t1" -> <<0, "a1">> [] t = "t2" -> <<1, "a1">>
      [] t = "t3" -> <<0, "a3">> [] t = "none" -> NoToken

Exit(t, a) == [token |-> Token(t), amount |-> a]

\* No exit, no value, fractions of a token, whole tokens, an unknown token and
\* one without token info, alone and together, in both orders where it matters.
MCExitLists ==
    { << >>,
      <<Exit("t1", 0)>>,
      <<Exit("t1", 1)>>,
      <<Exit("t1", 3), Exit("t2", 1)>>,
      <<Exit("t1", 4), Exit("t2", 2)>>,
      <<Exit("t1", 5)>>,
      <<Exit("t3", 0), Exit("t2", 1)>>,
      <<Exit("t2", 1), Exit("t3", 0)>>,
      <<Exit("none", 9)>> }

MCPlainExits == {<<Exit("t1", 5)>>}

Entry(network, account, letters, d, m) ==
    <<network, [of |-> account, length |-> 40, letters |-> letters], d, m>>

\* The prices of both tokens, in either letters; the first text names one of
\* them twice, the last two do not parse.
Good == <<Entry(0, "a1", "mixed", 9, 1), Entry(1, "a1", "lower", 3, 3),
          Entry(0, "a1", "upper", 2, 2)>>
ZeroMultiplier == <<Entry(0, "a1", "lower", 2, 2), Entry(1, "a1", "mixed", 3, 0)>>
WithPrefix == <<Entry(0, "a1", "lower", 2, 2),
                <<1, [of |-> "a1", length |-> 42, letters |-> "lower"], 3, 3>>>>
ThreeFields == <<<<0, 2, 2>>>>

MCLimits == {Unset, 4}
MCTokenConfigs == {NoTokens, Good, ZeroMultiplier, WithPrefix, ThreeFields}
MCSetLimits == {4}
MCSetTokenConfigs == {Good}
MCChainConfigs == {{"c1"}}
=============================================================================
