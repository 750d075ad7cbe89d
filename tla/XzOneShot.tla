----------------------------- MODULE XzOneShot -----------------------------
(***************************************************************************)
(* The one-shot functions xzdecode() and xzencode() (src/xz.c) over        *)
(* php_xz_decode_string() and php_xz_encode_string(): one call, whose      *)
(* lzma_stream is local to it, turns a whole string into another one.      *)
(*                                                                         *)
(* Both run lzma_code() while there is input; the encoder then finishes    *)
(* the stream, the decoder does not.  The output string grows by           *)
(* XZ_BUFFER_SIZE whenever it is full.                                     *)
(***************************************************************************)
EXTENDS Lzma, Sequences

CONSTANTS
    XZ_BUFFER_SIZE,     \* by how much the output string grows
    Files,              \* the strings xzdecode() may be called with
    MaxPlain,           \* bound: length of the strings xzencode() is called with
    MaxStream           \* bound: length of a compressed stream

ASSUME BufferAssumption == XZ_BUFFER_SIZE \in Nat \ {0}
ASSUME FilesAssumption  == \A f \in Files : WellFormedFile(f)
ASSUME BoundsAssumption == MaxPlain \in Nat /\ MaxStream \in Nat

VARIABLES
    op, file, plain,            \* the function called and its argument
    dec, enc,                   \* behind strm: a decoder or an encoder
    pc,                         \* "run": in a loop, "string" or "false": returned
    availIn,                    \* strm.avail_in
    out, nextOut, availOut      \* the string out, strm.next_out and avail_out

argument == <<op, file, plain>>
vars == <<argument, dec, enc, pc, availIn, out, nextOut, availOut>>

TypeOK ==
    /\ op \in {"xzdecode", "xzencode"}
    /\ WellFormedFile(file)
    /\ plain \in 0 .. MaxPlain
    /\ dec \in DecoderState
    /\ enc \in EncoderState
    /\ pc \in {"run", "string", "false"}
    /\ availIn \in 0 .. (IF op = "xzdecode" THEN file.len ELSE plain)
    /\ out \in Seq(Nat)
    /\ nextOut \in 0 .. Len(out)
    /\ availOut \in 0 .. XZ_BUFFER_SIZE

Blank == [i \in 1 .. XZ_BUFFER_SIZE |-> 0]

(* A call starts.  xzdecode("") fails at once. *)
Init ==
    /\ file \in Files
    /\ \/ op = "xzdecode" /\ plain = 0 /\ availIn = file.len
       \/ op = "xzencode" /\ plain \in 0 .. MaxPlain /\ availIn = plain /\ file.len = 0
    /\ pc = IF op = "xzdecode" /\ file.len = 0 THEN "false" ELSE "run"
    /\ dec = NewDecoder
    /\ enc = NewEncoder
    /\ out = Blank
    /\ nextOut = 0
    /\ availOut = XZ_BUFFER_SIZE

-----------------------------------------------------------------------------
\* Mutant of Extend: next_out goes back to the start of the string.
ExtendFromStart(s) ==
    /\ out' = s \o Blank
    /\ nextOut' = 0
    /\ availOut' = XZ_BUFFER_SIZE

\* zend_string_extend(): another XZ_BUFFER_SIZE bytes behind those of s.
Extend(s) ==
    /\ out' = s \o Blank
    /\ nextOut' = Len(s)
    /\ availOut' = XZ_BUFFER_SIZE

\* avail_out = 0 after a call that emits made bytes.
Full(made) == made = availOut

(* The made bytes of a call follow the p emitted before; a string that is full grows. *)
Grow(p, made) ==
    LET filled == [i \in 1 .. Len(out) |-> IF i \in nextOut + 1 .. nextOut + made
                                           THEN p + i - nextOut ELSE out[i]]
    IN  IF Full(made)
        THEN Extend(filled)
        ELSE /\ out' = filled
             /\ nextOut' = nextOut + made
             /\ availOut' = availOut - made

\* The string out is released; NULL is returned.
Fail == pc' = "false" /\ UNCHANGED <<out, nextOut, availOut>>

\* The string is cut to out_used bytes and returned.
Return ==
    /\ pc' = "string"
    /\ out' = SubSeq(out, 1, Len(out) - availOut)
    /\ nextOut' = Len(out) - availOut
    /\ availOut' = 0

-----------------------------------------------------------------------------
\* Mutant of MoreInput: off by one.
MoreInputButOne == availIn > 1

MoreInput == availIn > 0

\* Mutant of Accepted: a decoder that has failed is asked again.
AcceptedAlways(ret) == TRUE

Accepted(ret) == ret \in {LZMA_OK, LZMA_STREAM_END}

(* php_xz_decode_string(): one turn of the loop. *)
DecodeRun ==
    /\ pc = "run" /\ op = "xzdecode" /\ MoreInput
    /\ \E o \in LzmaDecode(file, TRUE, LZMA_RUN, dec,
                           [j \in 1 .. availIn |-> file.bytes[file.len - availIn + j]], availIn, availOut) :
          /\ dec' = o.next
          /\ availIn' = availIn - o.used
          /\ IF Accepted(o.ret) THEN Grow(dec.p, o.made) /\ UNCHANGED pc ELSE Fail
    /\ UNCHANGED <<argument, enc>>

(* Its end, once the input is consumed: nothing asks the decoder whether it has
   reached the end of a stream. *)
DecodeEnd ==
    /\ pc = "run" /\ op = "xzdecode" /\ ~MoreInput
    /\ Return
    /\ UNCHANGED <<argument, dec, enc, availIn>>

Encode(action) ==
    LzmaEncode(action, enc, [j \in 1 .. availIn |-> plain - availIn + j], availIn, availOut, MaxStream)

(* php_xz_encode_string(): one turn of the first loop. *)
EncodeRun ==
    /\ pc = "run" /\ op = "xzencode" /\ MoreInput
    /\ \E o \in Encode(LZMA_RUN) :
          /\ enc' = o.next
          /\ availIn' = availIn - o.used
          /\ IF o.ret = LZMA_OK THEN Grow(enc.p, o.made) /\ UNCHANGED pc ELSE Fail
    /\ UNCHANGED <<argument, dec>>

\* Mutant of StreamComplete: LZMA_FINISH is asked for once.
StreamCompleteAtOnce(ret) == TRUE

StreamComplete(ret) == ret = LZMA_STREAM_END

(* One turn of the second loop, and what follows it when it is the last. *)
EncodeFinish ==
    /\ pc = "run" /\ op = "xzencode" /\ ~MoreInput
    /\ \E o \in Encode(LZMA_FINISH) :
          /\ enc' = o.next
          /\ IF ~Accepted(o.ret)
             THEN Fail
             ELSE IF StreamComplete(o.ret)
             THEN /\ pc' = "string"
                  /\ nextOut' = nextOut + o.made
                  /\ availOut' = 0
                  /\ out' = [i \in 1 .. nextOut + o.made |-> IF i <= nextOut THEN out[i]
                                                             ELSE enc.p + i - nextOut]
             ELSE Grow(enc.p, o.made) /\ UNCHANGED pc
    /\ UNCHANGED <<argument, dec, availIn>>

Next == DecodeRun \/ DecodeEnd \/ EncodeRun \/ EncodeFinish

Spec == Init /\ [][Next]_vars

-----------------------------------------------------------------------------
\* Bytes emitted so far.
Made == IF op = "xzdecode" THEN dec.p ELSE enc.p

(* The string holds the bytes emitted so far, each at its place, and next_out
   is behind them: growing it in the middle of a call moves and drops nothing
   (src/xz_decode.c:48-53, src/xz_encode.c:61-66 and 77-84). *)
OutInOrder ==
    pc # "false" =>
        /\ nextOut = Made
        /\ \A i \in 1 .. nextOut : out[i] = i
        /\ Len(out) - availOut = nextOut

(* A whole, undamaged .xz file decodes to all its plaintext, although the loop
   stops when the input is consumed and may leave the last string it grew
   unasked for (src/xz_decode.c:41). *)
SoundFileDecoded ==
    op = "xzdecode" /\ file.len > 0 /\ Sound(file) =>
        /\ pc # "false"
        /\ pc = "string" => Len(out) = file.yield[file.len]

(* Damage anywhere in the input makes xzdecode() fail, also when the decoder
   finds it in the last byte and the loop would stop there (src/xz_decode.c:43). *)
DamageReported == op = "xzdecode" /\ Damaged(file) => pc # "string"

(* xzencode() does not fail, and what it returns is a complete stream that
   encodes all of its argument (src/xz_encode.c:54-92). *)
EncodedWhole ==
    op = "xzencode" =>
        /\ pc # "false"
        /\ pc = "string" => enc.seq = "END" /\ enc.c = plain /\ enc.faithful

(* docs/USAGE.md:60 and xz.stub.php:77-78: false on invalid or corrupt input.
   What decodes to a string ends where a stream ends. *)
TruncationReported == op = "xzdecode" /\ pc = "string" => file.len \in file.ends
=============================================================================
