----------------------------- MODULE MCLifecycle -----------------------------
(* Small instances of Lifecycle for TLC. *)
EXTENDS Lifecycle, TLC

CONSTANTS old, new, addr, toks

AllKeys(k) == [i \in Keys |-> k]

MCCommandLines == {
    [keys |-> AllKeys(old),
     values |-> <<addr, 1, {<<1, 1>>, <<2, 7>>}, 5, toks>>],
    [keys |-> AllKeys(new),
     values |-> <<Omitted, Omitted, {<<1, Bad>>}, Omitted, Omitted>>],
    [keys |-> [AllKeys(new) EXCEPT ![3] = Omitted],
     values |-> <<Omitted, 1, Omitted, 5, toks>>],
    [keys |-> AllKeys(new),
     values |-> <<Omitted, Bad, Omitted, 5, toks>>],
    [keys |-> AllKeys(new),
     values |-> <<Omitted, 1, {<<1, 7>>, <<2, Bad>>, <<3, 7>>}, Bad, toks>>],
    [keys |-> AllKeys(new),
     values |-> <<Omitted, 1, {<<1, 7>>, <<2, 7>>}, 5, Bad>>] }

MCDefaultChains == {<<1, 1>>, <<2, 137>>}
=============================================================================
