---------------------------- MODULE MCXzOneShot ----------------------------
(***************************************************************************)
(* Small instances of XzOneShot for TLC: strings of up to MaxLen           *)
(* compressed bytes, whole, truncated or with one damaged byte.  A stream  *)
(* ends at a byte that decodes to nothing.                                 *)
(***************************************************************************)
EXTENDS XzOneShot

CONSTANTS MaxLen

Yields(n) ==
    {y \in [0 .. n -> 0 .. MaxPlain] : y[0] = 0 /\ \A i \in 1 .. n : y[i - 1] <= y[i]}

Flat(n, y) == {i \in 1 .. n : y[i - 1] = y[i]}

File(n, y, ends, bad) ==
    [len |-> n, bytes |-> [i \in 1 .. n |-> IF i = bad THEN 0 ELSE i], yield |-> y, ends |-> ends]

FilesOf(n, y) == {File(n, y, ends, bad) : ends \in SUBSET Flat(n, y), bad \in 0 .. n}

AllFiles == UNION {UNION {FilesOf(n, y) : y \in Yields(n)} : n \in 0 .. MaxLen}
=============================================================================
