------------------------------ MODULE MCXzPipe ------------------------------
(***************************************************************************)
(* A small instance of XzPipe for TLC: every complete stream of up to      *)
(* MaxStream bytes for every plaintext of up to MaxPlain bytes.  The last  *)
(* byte of a stream decodes to nothing.                                    *)
(***************************************************************************)
EXTENDS XzPipe

Yields(n) ==
    {y \in [0 .. n -> 0 .. MaxPlain] :
        y[0] = 0 /\ y[n - 1] = y[n] /\ \A i \in 1 .. n : y[i - 1] <= y[i]}

AllPlans ==
    UNION {{[len |-> n, bytes |-> [i \in 1 .. n |-> i], yield |-> y, ends |-> {n}] : y \in Yields(n)} :
              n \in 1 .. MaxStream}
=============================================================================
