------------------------------ MODULE MCMetrics ------------------------------
(* Small instances of Metrics for TLC. *)
EXTENDS Metrics

\* r1 on network n1, every other row on n2.
MCNetwork == [r \in Rows |-> IF r = "r1" THEN "n1" ELSE "n2"]
MCExits == [r \in Rows |-> {1, 2}]

MCBothWays == {{"n1"}, {"n1", "n2"}}

\* Amounts below the word, and one that is longer than it.
MCAmount == [r \in Rows |-> IF r = "r1" THEN <<1, 5>> ELSE <<3, 1>>]
=============================================================================
