--------------------------- MODULE MCXzReadStream ---------------------------
(***************************************************************************)
(* Small instances of XzReadStream for TLC.  Every file of up to MaxLen    *)
(* compressed and MaxPlain plaintext bytes is a possible input: whole,     *)
(* truncated, or with one damaged byte, with every way the plaintext can   *)
(* be spread over the compressed bytes (from nothing at all, like headers, *)
(* to the whole plaintext in one byte, several output buffers at once).    *)
(* A stream may end at any byte that decodes to nothing.  Files of up to   *)
(* MaxFailing bytes also exist on a medium whose reads may fail.           *)
(***************************************************************************)
EXTENDS XzReadStream

CONSTANTS MaxLen, MaxPlain, MaxFailing

File(y, n, bad) ==
    [on    |-> "good medium",
     len   |-> n,
     bytes |-> [i \in 1 .. n |-> IF i = bad THEN 0 ELSE i],
     yield |-> y,
     ends  |-> {i \in 1 .. n : y[i - 1] = y[i]}]

Yields(n) ==
    {y \in [0 .. n -> 0 .. MaxPlain] : y[0] = 0 /\ \A i \in 1 .. n : y[i - 1] <= y[i]}

UndamagedFiles == UNION {{File(y, n, 0) : y \in Yields(n)} : n \in 0 .. MaxLen}

DamagedFiles ==
    UNION {{File(y, n, bad) : y \in Yields(n), bad \in 1 .. n} : n \in 1 .. MaxLen}

\* Whole files damaged in their last byte, in the stream footer.
FooterDamagedFiles ==
    {f \in DamagedFiles : f.bytes[f.len] = 0 /\ f.yield[f.len - 1] = f.yield[f.len]}

OnFailingMedium(f) == f.on = "failing medium"

FailingFiles ==
    {[f EXCEPT !.on = "failing medium"] : f \in {g \in UndamagedFiles \cup DamagedFiles : g.len <= MaxFailing}}

AllFiles == UndamagedFiles \cup DamagedFiles \cup FailingFiles
=============================================================================
