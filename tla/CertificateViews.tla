--------------------------- MODULE CertificateViews ---------------------------
(***************************************************************************)
(* The metadata text that SubmitCertificate writes beside a certificate    *)
(* (extractMetadata), and the two that read it back: the page of viewCerts *)
(* (loadCertificateData) and the gauges (UpdateMetrics).  The text is JSON *)
(* and is kept as a JSON value; amounts and addresses are strings, kept as *)
(* the number or the bytes they spell.  A row of the table is a record     *)
(* [meta, processed].                                                      *)
(***************************************************************************)
EXTENDS CertificateId

\* The number that digits spell, the highest first, and the low n of them.
Spells(base, digits) == FoldLeft(LAMBDA n, d : base * n + d, 0, digits)
Low(n, digits) ==
    SubSeq(digits, IF Len(digits) > n THEN Len(digits) - n + 1 ELSE 1, Len(digits))

BytesToUint64(bytes) == Spells(256, Low(8, bytes))

\* An object has the keys that are written; None is the value of one that is not.
None == << >>
Written(fields) == [k \in {f \in DOMAIN fields : fields[f] # None} |-> fields[k]]

\* Empty bytes do not survive the wire: their value is nil.
Hex(bytes) == IF bytes \in {Nil, << >>} THEN None ELSE <<"text", bytes>>

\* The keys of one exit, with the global index of an imported one.
ExitMeta(e, index) ==
    Written([dest_network  |-> <<"number", e.destNetwork>>,
             amount        |-> IF e.amount \in {Nil, << >>} THEN None
                               ELSE <<"text", BytesToUint64(e.amount)>>,
             dest_address  |-> Hex(e.destAddress),
             token_address |-> IF e.token = Nil THEN None ELSE Hex(e.token.address),
             global_index  |-> Hex(index)])

ImportedMeta(i) == ExitMeta(i.exit, i.globalIndex)

AggchainMeta(a) ==
    IF a.kind = "signature" THEN Written([signature |-> Hex(a.signature)])
    ELSE "generic" :> <<"object", Written(
           [aggchain_params |-> Hex(a.params),
            signature       |-> Hex(a.signature),
            context_size    |-> IF a.context = {} THEN None
                                ELSE <<"number", Cardinality(a.context)>>,
            sp1_stark       |-> IF a.sp1Stark = Nil THEN None
                                ELSE <<"object", a.sp1Stark>>])>>

\* Mutant: a network of zero is left out, as a leaf count of zero is.
NetworkMetaNonzero(c) == IF c.network = 0 THEN None ELSE <<"number", c.network>>

NetworkMeta(c) == <<"number", c.network>>

\* An imported exit without its bridge exit leaves its place empty.
MetadataFields(c) ==
    LET whole == {i \in DOMAIN c.imported : c.imported[i].exit # Nil}
        exits == [i \in DOMAIN c.exits |-> <<"object", ExitMeta(c.exits[i], Nil)>>]
        imported == [i \in whole |-> <<"object", ImportedMeta(c.imported[i])>>]
    IN [height                  |-> <<"number", c.height>>,
        network_id              |-> NetworkMeta(c),
        prev_local_exit_root    |-> Hex(c.prevRoot),
        new_local_exit_root     |-> Hex(c.newRoot),
        bridge_exits_count      |-> <<"number", Len(c.exits)>>,
        bridge_exits            |-> IF c.exits = << >> THEN None ELSE <<"array", exits>>,
        imported_bridge_exits_count |-> <<"number", Len(c.imported)>>,
        imported_bridge_exits   |-> IF c.imported = << >> THEN None
                                    ELSE <<"array", imported>>,
        metadata                |-> Hex(c.metadata),
        custom_chain_data       |-> Hex(c.customChainData),
        l1_info_tree_leaf_count |-> IF c.leafCount = 0 THEN None
                                    ELSE <<"number", c.leafCount>>,
        aggchain_data           |-> IF c.aggchainData = Nil THEN None
                                    ELSE <<"object", AggchainMeta(c.aggchainData)>>]

ExtractMetadata(c) == Written(MetadataFields(c))

-----------------------------------------------------------------------------
(* The page *)

\* The amounts a list of exits shows, by place, as [token, amount]; no address
\* is the empty one.
Shown(meta, key) ==
    LET list == Elements(meta, key)
        priced == {i \in DOMAIN list :
                     list[i][1] = "object" /\ Has(list[i][2], "amount", "text")}
        Token(e) == IF Has(e, "token_address", "text") THEN e["token_address"][2]
                    ELSE << >>
    IN [i \in priced |-> [token |-> Token(list[i][2]),
                          amount |-> list[i][2]["amount"][2]]]

Lists == {"bridge_exits", "imported_bridge_exits"}

\* What both lists show, by list and place.
BothShown(meta) ==
    [at \in UNION {{list} \X DOMAIN Shown(meta, list) : list \in Lists} |->
       Shown(meta, at[1])[at[2]]]

Total(shown) == SumFunction([i \in DOMAIN shown |-> shown[i].amount])

TotalsByToken(shown) ==
    [t \in {shown[i].token : i \in DOMAIN shown} |->
       Total(Restrict(shown, {i \in DOMAIN shown : shown[i].token = t}))]

\* Mutant: the imported exits are forgotten.
TokenTotalsOfOneList(meta) == TotalsByToken(Shown(meta, "bridge_exits"))

\* Bridge exits and imported exits together, by token.
TokenTotals(meta) == TotalsByToken(BothShown(meta))

\* The count in the text wins over the length of the list; it is a length itself,
\* which every float64 holds.
Count(meta, list, count) ==
    IF Has(meta, count, "number") THEN meta[count][2]
    ELSE Cardinality(DOMAIN Elements(meta, list))

\* Network and height, written as they are, are read as float64s once more.
View(row) ==
    [networkID   |-> Number(row.meta, "network_id", Word32),
     height      |-> Number(row.meta, "height", Word64),
     tokens      |-> TokenTotals(row.meta),
     exitCount   |-> Count(row.meta, "bridge_exits", "bridge_exits_count"),
     importCount |-> Count(row.meta, "imported_bridge_exits",
                           "imported_bridge_exits_count")]

\* Pending certificates, by chain; a network of zero has no total.
ChainTotals(rows) ==
    LET pending == {i \in DOMAIN rows : ~rows[i].processed /\ View(rows[i]).networkID > 0}
        Of(n) == {i \in pending : View(rows[i]).networkID = n}
    IN [n \in {View(rows[i]).networkID : i \in pending} |->
          [count |-> Cardinality(Of(n)),
           total |-> SumFunction([i \in Of(n) |-> SumFunction(View(rows[i]).tokens)])]]

-----------------------------------------------------------------------------
(* The gauges *)

\* UpdateMetrics asserts that there is a network, and panics if there is not.
GaugesPanic(rows) ==
    \E i \in DOMAIN rows :
        ~rows[i].processed /\ ~Has(rows[i].meta, "network_id", "number")

\* Bridge exits only, of every network.
NetworkTotals(rows) ==
    LET unprocessed == {i \in DOMAIN rows : ~rows[i].processed}
        NetworkOf(i) == Number(rows[i].meta, "network_id", Word32)
        Of(n) == {i \in unprocessed : NetworkOf(i) = n}
    IN [n \in {NetworkOf(i) : i \in unprocessed} |->
          SumFunction([i \in Of(n) |-> Total(Shown(rows[i].meta, "bridge_exits"))])]
=============================================================================
