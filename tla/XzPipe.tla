------------------------------- MODULE XzPipe -------------------------------
(***************************************************************************)
(* Both incremental contexts at work: a script feeds a plaintext to an     *)
(* encoder (XzEncodeContext) and hands the strings it returns, cut up      *)
(* anew, to a decoder (XzDecodeContext), while the encoder is still at it. *)
(*                                                                         *)
(* The stream the encoder is going to write is chosen at the beginning     *)
(* (plan): the plaintext its prefixes decode to is what the script feeds,  *)
(* and liblzma does not emit a byte before it has consumed the plaintext   *)
(* that the byte decodes to.  What reaches the decoder is what the strings *)
(* hold (wire): a byte out of place is a damaged byte to the decoder.      *)
(***************************************************************************)
EXTENDS XzEncodeContext

CONSTANT Plans      \* streams an encoder may write

\* One complete .xz stream.
OneStream(f) == WellFormedFile(f) /\ Sound(f) /\ f.len > 0 /\ f.ends = {f.len}

ASSUME PlanAssumption ==
    \A f \in Plans :
        /\ f = [len |-> f.len, bytes |-> f.bytes, yield |-> f.yield, ends |-> f.ends]
        /\ OneStream(f) /\ f.len <= MaxStream /\ f.yield[f.len] <= MaxPlain

VARIABLES
    plan,   \* the stream the encoder writes
    wire,   \* the strings the encoder has returned, joined
    \* the decoder's side: the variables of XzDecodeContext
    dFed, dConcat, dDec, dStatus, dPc, dAction, dAvailIn, dOut, dNextOut, dAvailOut, dRet, dWas, dStart

encoder == vars
decoder == <<dFed, dConcat, dDec, dStatus, dPc, dAction, dAvailIn, dOut, dNextOut, dAvailOut, dRet, dWas, dStart>>
pipe == <<plan, wire, encoder, decoder>>

\* The file as it arrives.
Arriving == [plan EXCEPT !.bytes = [i \in DOMAIN @ |-> IF i <= Len(wire) THEN wire[i] ELSE i]]

D == INSTANCE XzDecodeContext WITH
        Files <- Plans, file <- Arriving,
        fed <- dFed, concat <- dConcat, dec <- dDec, status <- dStatus, pc <- dPc, action <- dAction,
        availIn <- dAvailIn, out <- dOut, nextOut <- dNextOut, availOut <- dAvailOut,
        ret <- dRet, was <- dWas, start <- dStart

Plaintext == plan.yield[plan.len]

PipeInit ==
    /\ plan \in Plans
    /\ wire = <<>>
    /\ Init
    /\ D!Init

-----------------------------------------------------------------------------
(* The script calls the encoder: with the plaintext, in any pieces, then finish,
   and, now and then, once it has finished. *)
Feed(n) ==
    /\ fed + n <= Plaintext \/ status = LZMA_STREAM_END
    /\ Add(n)
    /\ UNCHANGED <<plan, wire, decoder>>

FinishEncoding ==
    /\ fed = Plaintext
    /\ Finish
    /\ UNCHANGED <<plan, wire, decoder>>

(* The encoder writes the plan: nothing ahead of its plaintext, the end after
   the last byte, the last byte when it is told to finish. *)
OnPlan(e, act) ==
    /\ e.p <= plan.len
    /\ plan.yield[e.p] <= e.c
    /\ e.p = plan.len => act = LZMA_FINISH
    /\ e.seq = "END" => e.p = plan.len

Encode ==
    /\ Code
    /\ OnPlan(enc', action)
    /\ wire' = IF pc' = "idle" THEN wire \o out' ELSE wire
    /\ UNCHANGED <<plan, decoder>>

(* The script hands n of the bytes it has to the decoder, and finishes that. *)
HandOn(n) ==
    /\ dFed + n <= Len(wire)
    /\ UNCHANGED <<plan, wire, encoder>>
    /\ D!Add(n)

FinishDecoding ==
    /\ status = LZMA_STREAM_END /\ dFed = Len(wire)
    /\ UNCHANGED <<plan, wire, encoder>>
    /\ D!Finish

Decode == UNCHANGED <<plan, wire, encoder>> /\ D!Code

PipeNext ==
    \/ FinishEncoding \/ Encode \/ FinishDecoding \/ Decode
    \/ \E n \in 0 .. MaxChunk : Feed(n) \/ HandOn(n)

(* Calls run to their return; and a script that calls both contexts again and
   again does not pass nothing, or ask the other one, every time. *)
PipeFairness ==
    /\ WF_pipe(Encode) /\ WF_pipe(Decode)
    /\ SF_pipe(\E n \in 1 .. MaxChunk : Feed(n)) /\ SF_pipe(FinishEncoding)
    /\ SF_pipe(\E n \in 1 .. MaxChunk : HandOn(n)) /\ SF_pipe(FinishDecoding)

PipeSpec == PipeInit /\ [][PipeNext]_pipe /\ PipeFairness
-----------------------------------------------------------------------------
(* What comes out is what went in: the decoder never fails on what the encoder
   returned, however both strings were cut and grown, it returns the plaintext
   fed so far from its first byte on, and at the end all of it, the stream ending
   with the last byte the encoder returned (docs/USAGE.md, Encode lifecycle and
   Decode lifecycle). *)
RoundTrip ==
    /\ dRet = "false" => dWas = LZMA_STREAM_END
    /\ D!OutInOrder
    /\ D!Returned <= fed
    /\ dPc = "idle" /\ D!GetStatus = LZMA_STREAM_END =>
          D!Returned = fed /\ status = LZMA_STREAM_END /\ D!GetReadLen = Len(wire)

(* The script gets its plaintext back in the end: no call of either context goes
   round for ever, and neither keeps a byte that the other waits for. *)
RoundTripEnds == <>(dStatus = LZMA_STREAM_END /\ dPc = "idle" /\ D!Returned = Plaintext)
=============================================================================
