-------------------------- MODULE MCCertificateData --------------------------
(* Small instances of CertificateData for TLC: documents that differ from one *)
(* another in one thing each.                                                 *)
EXTENDS CertificateData

N(n) == <<"number", n>>
O(m) == <<"object", m>>
A(s) == <<"array", s>>
\* A hex string of so many digits that spells n.
H(digits, n) ==
    <<"hex", [i \in 1..digits |-> IF i = digits THEN n % 16
                                  ELSE IF i = digits - 1 THEN n \div 16 ELSE 0]>>
Root(n) == H(64, n)
Addr(n) == H(40, n)
Amt(digits) == <<"hex", digits>>

Exit(token, amount) ==
    [leaf_type |-> <<"text", "Transfer">>,
     token_info |-> O([origin_network |-> N(0), origin_token_address |-> Addr(token)]),
     dest_network |-> N(1), dest_address |-> Addr(7), amount |-> Amt(amount)]

Proof(n) == O([root |-> Root(n),
               proof |-> O([siblings |-> A(<< Root(n + 1), Root(n + 2) >>)])])
Leaf(n) == O([l1_info_tree_index |-> N(n), rer |-> Root(1), mer |-> Root(2),
              inner |-> O([global_exit_root |-> Root(n), block_hash |-> Root(4),
                           timestamp |-> N(9)])])

Mainnet == O("Mainnet" :> O([proof_leaf_mer |-> Proof(10), proof_ger_l1root |-> Proof(20),
                             l1_leaf |-> Leaf(5)]))
Rollup(n) == O("Rollup" :> O([proof_leaf_ler |-> Proof(10), proof_ler_rer |-> Proof(20),
                              proof_ger_l1root |-> Proof(30), l1_leaf |-> Leaf(n)]))

Import(flag, rollup, leaf, claim) ==
    [bridge_exit |-> O(Exit(3, <<2, 0>>)), claim_data |-> claim,
     global_index |-> O([mainnet_flag |-> <<"bool", flag>>, rollup_index |-> N(rollup),
                         leaf_index |-> N(leaf)])]

Of(network, height, exits) ==
    [network_id |-> N(network), height |-> N(height),
     prev_local_exit_root |-> Root(1), new_local_exit_root |-> Root(2),
     metadata |-> Root(0),
     bridge_exits |-> A([i \in DOMAIN exits |-> O(exits[i])])]

Doc(network, exits) == Of(network, 1, exits)

E1 == Exit(3, <<6, 5>>)
D1 == Doc(15, << E1 >>)
Importing(i) == D1 @@ "imported_bridge_exits" :> A(<< O(i) >>)

MCDocuments == {
    D1,
    \* the same withdrawals in other forms
    Doc(15, << [E1 EXCEPT !.amount = Amt(<<0, 0, 6, 5>>)] >>),
    D1 @@ "l1_info_tree_leaf_count" :> N(4),
    Doc(15, << [E1 EXCEPT !.leaf_type = <<"text", "Message">>] >>),
    Doc(15, << [E1 EXCEPT !.leaf_type = <<"text", "Other">>] >>),
    \* other withdrawals
    Doc(15, << [E1 EXCEPT !.amount = Amt(<<1, 0, 5>>)] >>),
    Doc(15, << [E1 EXCEPT !.amount = Amt(<<1>> \o [i \in 1..14 |-> 0] \o <<6, 5>>)] >>),
    Doc(15, << [E1 EXCEPT !.dest_network = N(2)] >>),
    Doc(15, << E1, Exit(3, <<1>>), Exit(4, <<2>>) >>),
    Doc(15, << Exit(3, << >>), Exit(4, <<2>>) >>),
    Doc(0, << E1 >>),
    \* a network beyond its word, heights that are no float64s, one rounded up to
    \* the end of the word
    Doc(Word32 + 88, << E1 >>),
    Of(15, Exact + 3, << E1 >>),
    Of(15, Word64 - 1, << E1 >>),
    Doc(15, << E1 @@ "metadata" :> Root(6) >>),
    Importing(Import(TRUE, 0, 258, Mainnet)),
    Importing(Import(FALSE, 1, 2, Rollup(5))),
    Importing(Import(FALSE, 1, 2, Rollup(6))),
    Importing(Import(FALSE, 2, 1, Rollup(5))),
    \* documents the hash cannot do with
    [D1 EXCEPT !.metadata = <<"text", "null">>],
    Doc(15, << [E1 EXCEPT !.amount = <<"text", "many">>] >>) }

MCExtras == {
    [customChainData |-> Nil, aggchainData |-> Nil],
    [customChainData |-> <<1>>,
     aggchainData |-> [kind |-> "signature", signature |-> <<5>>]],
    [customChainData |-> Nil,
     aggchainData |-> [kind |-> "generic", params |-> <<1>>, signature |-> Nil,
                       context |-> {"a"}, sp1Stark |-> [version |-> <<"text", 4>>]]] }

\* The numbers are scaled down: 9 bits for 32, 12 for 64, float64s of 10.  Of a number
\* that does not fit, this processor keeps the low bits.
MCOverflow(word, x) == x % word

\* The documents of the run are such as SameIdSameWithdrawalsHolds is about.
ASSUME MCDocumentsHaveFixedWidths == FixedWidths
=============================================================================
