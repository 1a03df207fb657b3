----------------------------- MODULE Certificate -----------------------------
(***************************************************************************)
(* The messages of a certificate, and CertificateFromJSON, which builds    *)
(* one from a JSON document.  A message is a record, an absent one Nil; a  *)
(* bytes field is the sequence of its bytes.  A JSON value is a pair of    *)
(* its kind and its content: a number, a bool, the hex digits of a string, *)
(* an object (a function from its keys) or an array (a function from the   *)
(* places of its elements, in a document a sequence); any other string is  *)
(* of kind text.  The loader reads what is there and has the right kind,   *)
(* and leaves the rest at its zero value: no document is an error.  Every  *)
(* number passes through a float64 on its way to an unsigned integer.      *)
(***************************************************************************)
EXTENDS Naturals, Sequences, SequencesExt

CONSTANTS
    Nil,
    Word32, Word64,  \* one more than the largest uint32 and uint64
    Exact,           \* up to here every whole number is a float64 (2^53)
    Spacings,        \* distances of neighbouring float64s: the powers of two
    Overflow(_, _)   \* what the processor makes of a number beyond a word

ASSUME NumberAssumption ==
    /\ {Word32, Word64, Exact} \subseteq Nat \ {0}
    /\ Word32 <= Exact /\ Exact < Word64 /\ (Word32 - 1) \div 65536 < 65536
    /\ 1 \in Spacings /\ Spacings \subseteq Nat \ {0}

Has(m, key, kind) == key \in DOMAIN m /\ m[key][1] = kind

\* The number a text has under a key.
Said(m, key) == IF Has(m, key, "number") THEN m[key][2] ELSE 0

\* n is a float64: a multiple of a spacing with no more digits than there are bits.
IsFloat64(n) == \E u \in Spacings : n % u = 0 /\ n \div u <= Exact

\* The spacing around a number that is none.
Around(n, u) == n \div u \in (Exact \div 2)..(Exact - 1)

\* The nearest float64; half way between two, the even one.
Nearest(n) ==
    LET u == CHOOSE u \in Spacings : Around(n, u)
        k == n \div u
        beyond == 2 * (n % u)
    IN u * (IF beyond > u \/ (beyond = u /\ k % 2 = 1) THEN k + 1 ELSE k)

Float64(n) == IF IsFloat64(n) THEN n ELSE Nearest(n)

\* uint32(x) and uint64(x) of a float64.  Go leaves the result for a number that does
\* not fit to the processor, and there are builds for two.
Unsigned(word, x) == IF x < word THEN x ELSE Overflow(word, x)

Number(m, key, word) == Unsigned(word, Float64(Said(m, key)))

Elements(m, key) == IF Has(m, key, "array") THEN m[key][2] ELSE << >>

\* An object under a key, converted, or Nil.
Object(m, key, Convert(_)) ==
    IF Has(m, key, "object") THEN Convert(m[key][2]) ELSE Nil

PadDigits(digits) == << 0 >> \o digits

\* A byte is two digits; a string of odd length gets a leading zero.
HexStringToBytes(digits) ==
    LET even == IF Len(digits) % 2 = 1 THEN PadDigits(digits) ELSE digits
    IN [i \in 1..(Len(even) \div 2) |-> 16 * even[2 * i - 1] + even[2 * i]]

Bytes(m, key) == IF Has(m, key, "hex") THEN HexStringToBytes(m[key][2]) ELSE Nil

TokenInfo(m) ==
    [network |-> Number(m, "origin_network", Word32),
     address |-> Bytes(m, "origin_token_address")]

\* An unknown leaf type is unspecified.
LeafType(m) ==
    IF Has(m, "leaf_type", "text") /\ m["leaf_type"][2] \in {"Transfer", "Message"}
    THEN m["leaf_type"][2] ELSE "unspecified"

BridgeExit(m) ==
    [leafType    |-> LeafType(m),
     token       |-> Object(m, "token_info", TokenInfo),
     destNetwork |-> Number(m, "dest_network", Word32),
     destAddress |-> Bytes(m, "dest_address"),
     amount      |-> Bytes(m, "amount"),
     metadata    |-> Bytes(m, "metadata")]

\* The siblings that are hex, in their order.
MerkleProof(m) ==
    LET Siblings(p) == SelectSeq(Elements(p, "siblings"), LAMBDA s : s[1] = "hex")
        found == Object(m, "proof", Siblings)
        kept == IF found = Nil THEN << >> ELSE found
    IN [root |-> Bytes(m, "root"),
        siblings |-> [i \in DOMAIN kept |-> HexStringToBytes(kept[i][2])]]

InnerLeaf(m) ==
    [globalExitRoot |-> Bytes(m, "global_exit_root"),
     blockHash      |-> Bytes(m, "block_hash"),
     timestamp      |-> Number(m, "timestamp", Word64)]

L1InfoTreeLeaf(m) ==
    [index |-> Number(m, "l1_info_tree_index", Word32),
     rer   |-> Bytes(m, "rer"),
     mer   |-> Bytes(m, "mer"),
     inner |-> Object(m, "inner", InnerLeaf)]

ClaimFromMainnet(m) ==
    [kind   |-> "mainnet",
     proofs |-> << Object(m, "proof_leaf_mer", MerkleProof),
                   Object(m, "proof_ger_l1root", MerkleProof) >>,
     l1Leaf |-> Object(m, "l1_leaf", L1InfoTreeLeaf)]

ClaimFromRollup(m) ==
    [kind   |-> "rollup",
     proofs |-> << Object(m, "proof_leaf_ler", MerkleProof),
                   Object(m, "proof_ler_rer", MerkleProof),
                   Object(m, "proof_ger_l1root", MerkleProof) >>,
     l1Leaf |-> Object(m, "l1_leaf", L1InfoTreeLeaf)]

\* A rollup claim overwrites a mainnet claim.
Claim(m) ==
    IF Has(m, "Rollup", "object") THEN Object(m, "Rollup", ClaimFromRollup)
    ELSE Object(m, "Mainnet", ClaimFromMainnet)

LittleEndian(n) ==
    << n % 256, (n \div 256) % 256, (n \div 65536) % 256, (n \div 16777216) % 256 >>

\* Leaf, rollup and flag, put down from the low end.
IndexParts(m) ==
    LittleEndian(Number(m, "leaf_index", Word32))
      \o LittleEndian(Number(m, "rollup_index", Word32))
      \o << IF m["mainnet_flag"][2] THEN 1 ELSE 0 >>
      \o [i \in 1..23 |-> 0]

\* Mutant: the bytes stay in the order they were put down.
GlobalIndexBytesUnreversed(m) == IndexParts(m)

\* All 32 bytes are reversed as one.
GlobalIndexBytes(m) == Reverse(IndexParts(m))

GlobalIndex(m) ==
    IF /\ Has(m, "mainnet_flag", "bool")
       /\ Has(m, "rollup_index", "number") /\ Has(m, "leaf_index", "number")
    THEN GlobalIndexBytes(m) ELSE Nil

ImportedBridgeExit(m) ==
    [exit        |-> Object(m, "bridge_exit", BridgeExit),
     globalIndex |-> Object(m, "global_index", GlobalIndex),
     claim       |-> Object(m, "claim_data", Claim)]

\* Elements that are no objects are skipped.
Objects(m, key) == SelectSeq(Elements(m, key), LAMBDA e : e[1] = "object")

CertificateFromJSON(m) ==
    LET exits == Objects(m, "bridge_exits")
        imported == Objects(m, "imported_bridge_exits")
    IN [network   |-> Number(m, "network_id", Word32),
        height    |-> Number(m, "height", Word64),
        prevRoot  |-> Bytes(m, "prev_local_exit_root"),
        newRoot   |-> Bytes(m, "new_local_exit_root"),
        metadata  |-> Bytes(m, "metadata"),
        leafCount |-> Number(m, "l1_info_tree_leaf_count", Word32),
        exits     |-> [i \in DOMAIN exits |-> BridgeExit(exits[i][2])],
        imported  |-> [i \in DOMAIN imported |-> ImportedBridgeExit(imported[i][2])],
        customChainData |-> Nil,
        aggchainData    |-> Nil]
=============================================================================
