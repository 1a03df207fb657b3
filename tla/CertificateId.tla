---------------------------- MODULE CertificateId ----------------------------
(***************************************************************************)
(* generateCertificateId.  What is hashed is a sequence of units: a byte   *)
(* <<b>>, a number of fixed width <<n>>, or a digest <<"keccak", units>>,  *)
(* which stands for its 32 bytes; Keccak is taken to be free of            *)
(* collisions, so a digest is what it was made of.                         *)
(***************************************************************************)
EXTENDS Certificate

Fixed(n) == << << n >> >>
Raw(bytes) == [i \in DOMAIN bytes |-> << bytes[i] >>]
Keccak(units) == << << "keccak", units >> >>

EmptyMetadataHash == Keccak(<< >>)

\* 32 bytes: shorter amounts are padded on the left, of longer ones the last 32.
Amount32(bytes) ==
    IF Len(bytes) <= 32 THEN [i \in 1..(32 - Len(bytes)) |-> 0] \o bytes
    ELSE SubSeq(bytes, Len(bytes) - 31, Len(bytes))

\* Mutant: the leaf is made without its destination network.
LeafWithoutNetwork(e) ==
    Keccak(Fixed(IF e.leafType = "Transfer" THEN 0 ELSE 1)
        \o Fixed(e.token.network) \o Raw(e.token.address) \o Raw(e.destAddress)
        \o Raw(Amount32(e.amount))
        \o IF e.metadata # Nil THEN Raw(e.metadata) ELSE EmptyMetadataHash)

HashBridgeExit(e) ==
    Keccak(Fixed(IF e.leafType = "Transfer" THEN 0 ELSE 1)
        \o Fixed(e.token.network) \o Raw(e.token.address)
        \o Fixed(e.destNetwork) \o Raw(e.destAddress)
        \o Raw(Amount32(e.amount))
        \o IF e.metadata # Nil THEN Raw(e.metadata) ELSE EmptyMetadataHash)

HashMerkleProof(p) ==
    Keccak(Raw(p.root)
        \o FlattenSeq([i \in DOMAIN p.siblings |-> Raw(p.siblings[i])]))

\* Of the leaf: the global exit root is computed, the index does not enter.
L1LeafUnits(l) ==
    Keccak(Raw(l.mer) \o Raw(l.rer)) \o Raw(l.inner.blockHash)
      \o Fixed(l.inner.timestamp)

\* A mainnet claim hashes its leaf once more, a rollup claim does not.
HashClaim(c) ==
    LET proofs == FlattenSeq([i \in DOMAIN c.proofs |-> HashMerkleProof(c.proofs[i])])
        leaf == L1LeafUnits(c.l1Leaf)
    IN Keccak(proofs \o IF c.kind = "mainnet" THEN Keccak(leaf) ELSE leaf)

HashImportedBridgeExit(i) ==
    Keccak(HashBridgeExit(i.exit)
        \o (IF i.claim = Nil THEN << >> ELSE HashClaim(i.claim))
        \o Keccak(Raw(Reverse(SubSeq(i.globalIndex, 1, 32)))))

GenerateCertificateId(c) ==
    Keccak(Fixed(c.network) \o Fixed(c.height) \o Raw(c.prevRoot) \o Raw(c.newRoot)
        \o Keccak(FlattenSeq([i \in DOMAIN c.exits |-> HashBridgeExit(c.exits[i])]))
        \o Keccak(FlattenSeq([i \in DOMAIN c.imported |->
                                HashImportedBridgeExit(c.imported[i])]))
        \o Raw(c.metadata))

-----------------------------------------------------------------------------
(* What the hash dereferences without asking: a certificate that lacks one  *)
(* of these makes it panic.                                                  *)

HashableExit(e) ==
    e # Nil /\ e.token # Nil /\ e.token.address # Nil /\ e.destAddress # Nil
      /\ e.amount # Nil

HashableClaim(c) ==
    /\ \A i \in DOMAIN c.proofs : c.proofs[i] # Nil /\ c.proofs[i].root # Nil
    /\ c.l1Leaf # Nil /\ c.l1Leaf.mer # Nil /\ c.l1Leaf.rer # Nil
    /\ c.l1Leaf.inner # Nil /\ c.l1Leaf.inner.blockHash # Nil

HashableImported(i) ==
    /\ HashableExit(i.exit)
    /\ i.claim = Nil \/ HashableClaim(i.claim)
    /\ i.globalIndex # Nil /\ Len(i.globalIndex) >= 32

Hashable(c) ==
    /\ c.prevRoot # Nil /\ c.newRoot # Nil /\ c.metadata # Nil
    /\ \A i \in DOMAIN c.exits : HashableExit(c.exits[i])
    /\ \A i \in DOMAIN c.imported : HashableImported(c.imported[i])

-----------------------------------------------------------------------------
(* What the hash takes for granted: the fields that are there have the      *)
(* widths it says they have.  It joins them without their lengths, so that  *)
(* certificates whose fields have other widths can share an id.             *)

FixedBytes(n) == {b \in Seq(0..255) : Len(b) = n}
Wide(n, bytes) == bytes # Nil => bytes \in FixedBytes(n)

ExitWidths(e) ==
    e # Nil =>
      /\ e.token # Nil => Wide(20, e.token.address)
      /\ Wide(20, e.destAddress) /\ Wide(32, e.metadata)
      /\ e.amount # Nil => Len(e.amount) <= 32

ProofWidths(p) == p # Nil => Wide(32, p.root) /\ p.siblings \in Seq(FixedBytes(32))

LeafWidths(l) ==
    l # Nil => /\ Wide(32, l.mer) /\ Wide(32, l.rer)
               /\ l.inner # Nil => Wide(32, l.inner.blockHash)

ClaimWidths(c) ==
    c # Nil => (\A i \in DOMAIN c.proofs : ProofWidths(c.proofs[i])) /\ LeafWidths(c.l1Leaf)

Widths(c) ==
    /\ Wide(32, c.prevRoot) /\ Wide(32, c.newRoot) /\ Wide(32, c.metadata)
    /\ \A i \in DOMAIN c.exits : ExitWidths(c.exits[i])
    /\ \A i \in DOMAIN c.imported :
         ExitWidths(c.imported[i].exit) /\ ClaimWidths(c.imported[i].claim)

-----------------------------------------------------------------------------
(* The reference: what a certificate withdraws.  Two certificates withdraw  *)
(* the same when they differ only in what the bridge does not see: the form *)
(* of an amount, an unspecified leaf type beside a message, empty metadata  *)
(* spelt out, and the parts of an L1 leaf that follow from the others.      *)

Significant(bytes) ==
    LET zeros == {i \in DOMAIN bytes : \A j \in 1..i : bytes[j] = 0}
    IN SubSeq(bytes, Cardinality(zeros) + 1, Len(bytes))

ExitWithdrawn(e) ==
    [token |-> e.token, destNetwork |-> e.destNetwork, destAddress |-> e.destAddress,
     transfer |-> e.leafType = "Transfer", amount |-> Significant(e.amount),
     metadata |-> IF e.metadata = Nil THEN EmptyMetadataHash ELSE Raw(e.metadata)]

ClaimWithdrawn(c) ==
    IF c = Nil THEN << >>
    ELSE << [kind |-> c.kind, proofs |-> c.proofs, mer |-> c.l1Leaf.mer,
             rer |-> c.l1Leaf.rer, blockHash |-> c.l1Leaf.inner.blockHash,
             timestamp |-> c.l1Leaf.inner.timestamp] >>

Withdrawals(c) ==
    [network |-> c.network, height |-> c.height, prevRoot |-> c.prevRoot,
     newRoot |-> c.newRoot, metadata |-> c.metadata,
     exits |-> [i \in DOMAIN c.exits |-> ExitWithdrawn(c.exits[i])],
     imported |-> [i \in DOMAIN c.imported |->
                     [exit |-> ExitWithdrawn(c.imported[i].exit),
                      claim |-> ClaimWithdrawn(c.imported[i].claim),
                      globalIndex |-> c.imported[i].globalIndex]]]
=============================================================================
