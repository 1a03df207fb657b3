--------------------------- MODULE MCHeaderLookup ---------------------------
(* Small instances of HeaderLookup for TLC. *)
EXTENDS HeaderLookup, TLC

RowSymmetry == Permutations(Copies) \cup Permutations(Rows \ Copies)
=============================================================================
