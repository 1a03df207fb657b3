--------------------------- MODULE CertificateData ---------------------------
(***************************************************************************)
(* Certificates on their way from a submitter's document to the table, the *)
(* page and the gauges.  A submitter loads a document, perhaps adds what   *)
(* the loader does not know, and submits; the proxy extracts the metadata, *)
(* computes the id and stores the row, or panics on a certificate that     *)
(* lacks what the id is made of.                                           *)
(***************************************************************************)
EXTENDS CertificateViews

CONSTANTS
    Documents,   \* the JSON documents submitters have
    Extras,      \* what they add: [customChainData, aggchainData]
    MaxRows      \* bound of the table

\* Of an exit, a global index and a number in a document: an amount in hex is digits,
\* the parts of an index have 32 bits, and a number is not too large for a float64.
DigitsOf(exit) == Has(exit, "amount", "hex") => exit["amount"][2] \in Seq(0..15)
Index32(index) ==
    \A part \in {"rollup_index", "leaf_index"} : Said(index, part) \in 0..(Word32 - 1)
InRange(n) ==
    n \in Nat /\ (IsFloat64(n) \/ \E u \in Spacings : Around(n, u))

\* A document's lists are sequences, its network and height are unsigned, and the
\* network that is loaded fits its field, whatever the document says.
ASSUME DocumentAssumption ==
    \A doc \in Documents :
        /\ InRange(Said(doc, "network_id")) /\ InRange(Said(doc, "height"))
        /\ Number(doc, "network_id", Word32) \in 0..(Word32 - 1)
        /\ \A list \in Lists : /\ Len(Objects(doc, list)) \in Nat
                             /\ DOMAIN Objects(doc, list) = 1..Len(Objects(doc, list))
        /\ \A i \in DOMAIN Objects(doc, "bridge_exits") :
             DigitsOf(Objects(doc, "bridge_exits")[i][2])
        /\ \A i \in DOMAIN Objects(doc, "imported_bridge_exits") :
             LET element == Objects(doc, "imported_bridge_exits")[i][2]
             IN /\ Has(element, "bridge_exit", "object") =>
                     DigitsOf(element["bridge_exit"][2])
                /\ Has(element, "global_index", "object") =>
                     Index32(element["global_index"][2])

VARIABLES
    rows,   \* the table: [doc, certificate, id, meta, processed], by row id
    up      \* the process is alive

vars == <<rows, up>>

Init == rows = << >> /\ up = TRUE

Certificate(doc, extra) ==
    [CertificateFromJSON(doc) EXCEPT !.customChainData = extra.customChainData,
                                     !.aggchainData = extra.aggchainData]

\* A certificate that is locked.
Submit(doc, extra) ==
    LET c == Certificate(doc, extra)
    IN /\ up /\ Len(rows) < MaxRows /\ Hashable(c)
       /\ rows' = Append(rows, [doc |-> doc, certificate |-> c,
                                id |-> GenerateCertificateId(c),
                                meta |-> ExtractMetadata(c), processed |-> FALSE])
       /\ UNCHANGED up

\* The handler panics in the hash, before anything is stored or sent.
SubmitPanics(doc, extra) ==
    /\ up /\ ~Hashable(Certificate(doc, extra))
    /\ up' = FALSE
    /\ UNCHANGED rows

Boot == ~up /\ up' = TRUE /\ UNCHANGED rows

MarkProcessed(i) ==
    /\ up /\ ~rows[i].processed
    /\ rows' = [rows EXCEPT ![i].processed = TRUE]
    /\ UNCHANGED up

Next ==
    \/ \E doc \in Documents, extra \in Extras : Submit(doc, extra) \/ SubmitPanics(doc, extra)
    \/ \E i \in DOMAIN rows : MarkProcessed(i)
    \/ Boot

Spec == Init /\ [][Next]_vars

-----------------------------------------------------------------------------
(* Properties *)

\* The fields of all documents have the widths of their types.
FixedWidths == \A doc \in Documents : Widths(CertificateFromJSON(doc))

\* Two rows have one cert_id exactly when their certificates withdraw the same,
\* whatever the form their submitters gave them: header lookups, which go by the
\* id, never mix up certificates nor miss a resubmitted one
\* (hashing.go:12-182, sqlite.go:357).
SameIdSameWithdrawals ==
    \A i, j \in DOMAIN rows :
        rows[i].id = rows[j].id
          <=> Withdrawals(rows[i].certificate) = Withdrawals(rows[j].certificate)

\* The exits of a document that have an amount, by list and place.
ExitAt(doc, at) ==
    LET element == Objects(doc, at[1])[at[2]][2]
    IN IF at[1] = "bridge_exits" THEN element ELSE element["bridge_exit"][2]

Exits(doc) ==
    {at \in UNION {{list} \X DOMAIN Objects(doc, list) : list \in Lists} :
       ExitAt(doc, at)["amount"][2] # << >>}

\* What the page shows of a certificate is what the document says: its network, if
\* it is one of 32 bits; its height up to 2^53, and a larger one, if it fits 64 bits,
\* as the nearest float64, rounded once although it passes two conversions; how
\* many exits; and for each token the sum of its amounts, each of them up to 2^64,
\* sixteen digits (marshal.go:36-42, 71-174, grpc.go:341-394, api.go:270-332).
PageShowsTheDocument ==
    \A i \in DOMAIN rows :
        LET doc == rows[i].doc
            view == View(rows[i])
            network == Said(doc, "network_id")
            height == Said(doc, "height")
            Address(at) ==
              HexStringToBytes(ExitAt(doc, at)["token_info"][2]["origin_token_address"][2])
            Amount(at) == Spells(16, Low(16, ExitAt(doc, at)["amount"][2]))
            OfToken(t) == {at \in Exits(doc) : Address(at) = t}
        IN /\ network < Word32 => view.networkID = network
           /\ height <= Exact => view.height = height
           /\ Float64(height) < Word64 => view.height = Float64(height)
           /\ view.exitCount = Len(Objects(doc, "bridge_exits"))
           /\ view.importCount = Len(Objects(doc, "imported_bridge_exits"))
           /\ view.tokens = [t \in {Address(at) : at \in Exits(doc)} |->
                               SumFunction([at \in OfToken(t) |-> Amount(at)])]

\* The 32 bytes of a global index are one big-endian number: the mainnet flag at
\* bit 64, the rollup above bit 32, the leaf below, although they are put down
\* as little-endian parts and reversed as one (marshal.go:191-219).
GlobalIndexIsBigEndian ==
    \A i \in DOMAIN rows : \A k \in DOMAIN rows[i].certificate.imported :
        LET bytes == rows[i].certificate.imported[k].globalIndex
            doc == Objects(rows[i].doc, "imported_bridge_exits")[k][2]["global_index"][2]
            From(a, b) == Spells(256, SubSeq(bytes, a, b))
        IN /\ Len(bytes) = 32
           /\ From(29, 32) = doc["leaf_index"][2]
           /\ From(25, 28) = doc["rollup_index"][2]
           /\ From(1, 24) = IF doc["mainnet_flag"][2] THEN 1 ELSE 0

\* Page and gauges, which read the same text on their own, agree: the page has
\* a total for exactly the networks above zero that the gauges sum up, and it is
\* the gauge's sum plus the imported exits, which only the page counts
\* (api.go:345-356, updater.go:85-111).  Every metadata text has the network
\* the updater asserts; without it the updater's goroutine would panic
\* (updater.go:92).
PageAgreesWithGauges ==
    /\ ~GaugesPanic(rows)
    /\ LET page == ChainTotals(rows)
           gauges == NetworkTotals(rows)
           Of(n) == {i \in DOMAIN rows : /\ ~rows[i].processed
                                        /\ rows[i].certificate.network = n}
           Imported(n) == SumFunction(
               [i \in Of(n) |-> Total(Shown(rows[i].meta, "imported_bridge_exits"))])
       IN /\ DOMAIN page = DOMAIN gauges \ {0}
          /\ \A n \in DOMAIN page : page[n].total = gauges[n] + Imported(n)
=============================================================================
