----------------------------- MODULE PlainReader -----------------------------
(***************************************************************************)
(* What reading a compressed file promises to the caller, without buffers, *)
(* decoder or inner stream: the plaintext arrives from its first byte on,  *)
(* in pieces, never more than there is.  On a sound file (whole,           *)
(* undamaged, readable) the end is reported only when all of it has been   *)
(* handed over and no call fails; on any other file the reader may stop    *)
(* early or fail.  XzReadStream implements this.                           *)
(***************************************************************************)
EXTENDS Integers

VARIABLES
    total,      \* length of the plaintext
    sound,      \* whether the file can be read to its end
    got,        \* bytes handed to the caller
    eof,        \* feof()
    failed      \* some call has returned a failure

vars == <<total, sound, got, eof, failed>>

Init ==
    /\ total \in Nat
    /\ sound \in BOOLEAN
    /\ got = 0
    /\ eof = FALSE
    /\ failed = FALSE

\* The next bytes, as many as there are at most.
Hand ==
    /\ got' \in got + 1 .. total
    /\ UNCHANGED <<total, sound, eof, failed>>

\* End of file: after everything, when the file is sound.
End ==
    /\ sound => got = total
    /\ eof' = TRUE
    /\ UNCHANGED <<total, sound, got, failed>>

\* A call returns a failure: never on a sound file.
Fail ==
    /\ ~sound
    /\ failed' = TRUE
    /\ UNCHANGED <<total, sound, got, eof>>

Next == End \/ Fail \/ Hand

Spec == Init /\ [][Next]_vars
=============================================================================
