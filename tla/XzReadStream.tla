---------------------------- MODULE XzReadStream ----------------------------
(***************************************************************************)
(* Reading through the xz stream wrapper (src/xz_fopen_wrapper.c).         *)
(*                                                                         *)
(* A stream opened for reading keeps a lzma_stream, an input buffer        *)
(* in_buf, an output buffer out_buf and an index out_buf_idx into it: the  *)
(* bytes from out_buf_idx to strm.next_out are decoded and not yet handed  *)
(* out.  php_xziop_read() serves a call from that window and refills it    *)
(* through php_xz_decompress(), which in turn refills in_buf from the      *)
(* inner stream.  The caller chooses the size of every read; the inner     *)
(* stream chooses how much each of its reads returns and when it reports   *)
(* its end; the decoder chooses where it stops.                            *)
(*                                                                         *)
(* Buffers carry contents: a compressed byte is its offset in the file, a  *)
(* plaintext byte its position in the plaintext (see Lzma).                *)
(***************************************************************************)
EXTENDS Lzma

CONSTANTS
    XZ_BUFFER_SIZE,     \* size of in_buf and of out_buf
    MaxCount,           \* largest read the caller asks for
    Files,              \* the compressed files the stream may be opened on
    MayFail(_)          \* whether a read of the inner stream over a file may return -1

ASSUME BufferAssumption == XZ_BUFFER_SIZE \in Nat \ {0}
ASSUME CountAssumption  == MaxCount \in Nat \ {0}
ASSUME FilesAssumption  == \A f \in Files : WellFormedFile(f) /\ MayFail(f) \in BOOLEAN

VARIABLES
    \* the inner stream
    file,       \* the file it is open on
    fpos,       \* compressed bytes read from it so far
    innerEof,   \* what php_stream_eof(self->stream) answers
    \* struct php_xz_stream_ctx: strm, in_buf, out_buf, out_buf_idx
    dec,        \* the decoder behind strm
    inBuf, nextIn, availIn,
    outBuf, outIdx, nextOut, availOut,
    \* the php_stream and the php_xziop_read() call in progress
    eof,        \* stream->eof
    pc, buf, toRead, haveRead, ret,
    \* history: plaintext bytes returned by calls before the latest one, and
    \* whether any call has returned -1
    start, told

inner  == <<file, fpos, innerEof>>
input  == <<inBuf, nextIn, availIn>>
output == <<outBuf, nextOut, availOut>>
vars == <<inner, dec, input, output, outIdx, eof, pc, buf, toRead, haveRead, ret, start, told>>

Slots == 0 .. XZ_BUFFER_SIZE - 1

TypeOK ==
    /\ WellFormedFile(file)
    /\ fpos \in 0 .. file.len
    /\ innerEof \in BOOLEAN
    /\ dec \in DecoderState
    /\ inBuf \in [Slots -> Nat]
    /\ nextIn \in 0 .. XZ_BUFFER_SIZE
    /\ availIn \in 0 .. XZ_BUFFER_SIZE
    /\ outBuf \in [Slots -> Nat]
    /\ outIdx \in 0 .. XZ_BUFFER_SIZE
    /\ nextOut \in 0 .. XZ_BUFFER_SIZE
    /\ availOut \in 0 .. XZ_BUFFER_SIZE
    /\ eof \in BOOLEAN
    /\ pc \in {"idle", "loop", "check", "decode"}
    /\ buf \in [1 .. MaxCount -> Nat]
    /\ toRead \in 0 .. MaxCount
    /\ haveRead \in 0 .. MaxCount
    /\ ret \in -1 .. MaxCount
    /\ start \in Nat
    /\ told \in BOOLEAN

-----------------------------------------------------------------------------
(* php_xz_init_decoder(): both buffers empty, uninitialised contents (0). *)
Init ==
    /\ file \in Files
    /\ fpos = 0
    /\ innerEof = FALSE
    /\ dec = NewDecoder
    /\ inBuf = [i \in Slots |-> 0]
    /\ nextIn = 0
    /\ availIn = 0
    /\ outBuf = [i \in Slots |-> 0]
    /\ outIdx = 0
    /\ nextOut = 0
    /\ availOut = XZ_BUFFER_SIZE
    /\ eof = FALSE
    /\ pc = "idle"
    /\ buf = [i \in 1 .. MaxCount |-> 0]
    /\ toRead = 0
    /\ haveRead = 0
    /\ ret = 0
    /\ start = 0
    /\ told = FALSE

\* Decoded bytes waiting between out_buf_idx and next_out.
Window == nextOut - outIdx

\* Plaintext bytes handed to the caller: by the calls that have returned, and
\* by the one in progress.
Returned  == start + (IF ret > 0 THEN ret ELSE 0)
Delivered == IF pc = "idle" THEN Returned ELSE start + haveRead

Return(v) ==
    /\ pc' = "idle"
    /\ ret' = v
    /\ told' = (told \/ v = -1)

\* Mutant of CopyOut: copies to the start of the caller's buffer each time.
CopyOutToStart(n) ==
    buf' = [i \in 1 .. MaxCount |-> IF i \in 1 .. n THEN outBuf[outIdx + i - 1] ELSE buf[i]]

\* memcpy(buf + have_read, out_buf_idx, n)
CopyOut(n) ==
    buf' = [i \in 1 .. MaxCount |->
               IF i \in haveRead + 1 .. haveRead + n THEN outBuf[outIdx + i - haveRead - 1] ELSE buf[i]]

-----------------------------------------------------------------------------
(* The caller asks for count bytes. *)
ReadCall(count) ==
    /\ pc = "idle"
    /\ pc' = "loop"
    /\ toRead' = count
    /\ start' = Returned
    /\ haveRead' = 0
    /\ ret' = 0
    /\ UNCHANGED <<inner, dec, input, output, outIdx, eof, buf, told>>

(* The loop's condition: nothing left to read. *)
ReadDone ==
    /\ pc = "loop"
    /\ toRead = 0
    /\ Return(haveRead)
    /\ UNCHANGED <<inner, dec, input, output, outIdx, eof, buf, toRead, haveRead, start>>

(* The window holds more than the call still wants. *)
ServePart ==
    /\ pc = "loop"
    /\ toRead > 0
    /\ toRead < Window
    /\ CopyOut(toRead)
    /\ outIdx' = outIdx + toRead
    /\ haveRead' = haveRead + toRead
    /\ Return(haveRead + toRead)
    /\ UNCHANGED <<inner, dec, input, output, eof, toRead, start>>

\* Mutants of Advance: by what the caller asked for; without the rewind.
AdvanceByCount       == outIdx' = outIdx + toRead /\ UNCHANGED output
AdvanceWithoutRewind == outIdx' = nextOut /\ UNCHANGED output

\* The window has been taken; a full output buffer is rewound.
Advance ==
    \/ availOut > 0 /\ outIdx' = nextOut /\ UNCHANGED output
    \/ /\ availOut = 0
       /\ outIdx' = 0
       /\ nextOut' = 0
       /\ availOut' = XZ_BUFFER_SIZE
       /\ UNCHANGED outBuf

(* The call takes the whole window. *)
ServeAll ==
    /\ pc = "loop"
    /\ Window > 0
    /\ Window <= toRead
    /\ CopyOut(Window)
    /\ haveRead' = haveRead + Window
    /\ toRead' = toRead - Window
    /\ Advance
    /\ pc' = "check"
    /\ UNCHANGED <<inner, dec, input, eof, ret, start, told>>

\* The loop body past the copies: the window was taken, or there was none.
PastCopy ==
    \/ pc = "check"
    \/ pc = "loop" /\ toRead > 0 /\ Window = 0

\* Mutants of AtEnd: the inner stream alone decides; next_out compared with out_buf.
AtEndOfInner  == outIdx = nextOut /\ innerEof
AtEndAtOrigin == outIdx = 0 /\ innerEof /\ availIn = 0

AtEnd == outIdx = nextOut /\ innerEof /\ availIn = 0

HitEof ==
    /\ PastCopy
    /\ AtEnd
    /\ eof' = TRUE
    /\ Return(haveRead)
    /\ UNCHANGED <<inner, dec, input, output, outIdx, buf, toRead, haveRead, start>>

(* php_xz_decompress(), first half: in_buf is refilled when it is empty and the
   inner stream is not at its end.  A read of the inner stream returns at least
   one byte before the end and 0 at the end; it may report its end together with the
   last bytes or only on the next read. *)
ReadInner(k) ==
    /\ fpos' = fpos + k
    /\ inBuf' = [i \in Slots |-> IF i < k THEN file.bytes[fpos + i + 1] ELSE inBuf[i]]
    /\ nextIn' = 0
    /\ availIn' = k
    /\ innerEof' \in BOOLEAN
    /\ innerEof' => fpos + k = file.len
    /\ k = 0 => innerEof'

\* Mutant of NeedsInput: refills whatever in_buf holds.
NeedsInputAlways == ~innerEof

NeedsInput == availIn = 0 /\ ~innerEof

Refill ==
    /\ PastCopy
    /\ ~AtEnd
    /\ \/ ~NeedsInput /\ UNCHANGED <<fpos, input, innerEof>>
       \/ NeedsInput /\ \E k \in 0 .. XZ_BUFFER_SIZE : fpos + k <= file.len /\ ReadInner(k)
    /\ pc' = "decode"
    /\ UNCHANGED <<file, dec, output, outIdx, eof, buf, toRead, haveRead, ret, start, told>>

\* Mutants of GiveUp: a failure takes what was copied with it; no failure is reported.
GiveUpAlways  == Return(-1)
GiveUpQuietly == Return(haveRead)

(* php_xz_decompress() has returned -1. *)
GiveUp == Return(IF haveRead = 0 THEN -1 ELSE haveRead)

\* A read of the inner stream may return -1.
InnerMayFail == MayFail(file)

(* XZ_STREAM_READ_INTO returns -1 from php_xz_decompress(); a failed read
   may leave the inner stream at its end. *)
RefillFails ==
    /\ InnerMayFail
    /\ PastCopy
    /\ ~AtEnd
    /\ NeedsInput
    /\ innerEof' \in BOOLEAN
    /\ GiveUp
    /\ UNCHANGED <<file, fpos, dec, input, output, outIdx, eof, buf, toRead, haveRead, start>>

(* php_xz_decompress(), second half: one lzma_code(LZMA_RUN) on what in_buf holds
   and the room left in out_buf; LZMA_CONCATENATED was set when the decoder was initialised. *)
SingleStream == FALSE    \* mutant of Concatenated: the flag is missing

Concatenated == TRUE

Decode ==
    /\ pc = "decode"
    /\ \E o \in LzmaDecode(file, Concatenated, LZMA_RUN, dec,
                           [j \in 1 .. availIn |-> inBuf[nextIn + j - 1]], availIn, availOut) :
          /\ dec' = o.next
          /\ nextIn' = nextIn + o.used
          /\ availIn' = availIn - o.used
          /\ outBuf' = [i \in Slots |-> IF i \in nextOut .. nextOut + o.made - 1
                                        THEN dec.p + i - nextOut + 1 ELSE outBuf[i]]
          /\ nextOut' = nextOut + o.made
          /\ availOut' = availOut - o.made
          /\ IF o.ret \in {LZMA_OK, LZMA_STREAM_END}
             THEN pc' = "loop" /\ UNCHANGED <<ret, told>>
             ELSE GiveUp
    /\ UNCHANGED <<inner, inBuf, outIdx, eof, buf, toRead, haveRead, start>>

-----------------------------------------------------------------------------
Step == ReadDone \/ ServePart \/ ServeAll \/ HitEof \/ Refill \/ RefillFails \/ Decode

Next == Step \/ \E count \in 1 .. MaxCount : ReadCall(count)

Spec == Init /\ [][Next]_vars

(* A call that has started runs to its return: the code never waits.  A caller
   that keeps reading until feof() or a failure is CallerReads below. *)
Progress == WF_vars(Step)

CallerReads == WF_vars(~eof /\ \E count \in 1 .. MaxCount : ReadCall(count))

FairSpec == Spec /\ Progress /\ CallerReads

-----------------------------------------------------------------------------
(* What is in the buffers.  The properties are stated for the bytes a
   caller has in its hands and for those still on their way. *)

(* The window lies inside out_buf, avail_out is the room behind it, and a
   full output buffer always has something to serve: lzma_code() is never called without room
   (php_xziop_read, src/xz_fopen_wrapper.c:129-140). *)
WindowInv ==
    /\ outIdx <= nextOut
    /\ nextOut + availOut = XZ_BUFFER_SIZE
    /\ availOut = 0 => outIdx < nextOut
    /\ pc = "check" => Window = 0
    /\ pc = "decode" => availOut > 0

(* Every decoded byte is delivered or still in the window, in order: nothing is
   overwritten before it is copied out, copied twice or skipped, whatever
   the sizes of the reads, and a call that fails hands nothing out that it
   forgets (php_xziop_read). *)
PlaintextInOrder ==
    /\ Delivered + Window = dec.p
    /\ \A i \in outIdx .. nextOut - 1 : outBuf[i] = Delivered + (i - outIdx) + 1

(* The bytes the caller finds in its buffer are the next ones of the
   plaintext (php_xziop_read, memcpy at src/xz_fopen_wrapper.c:125, 130). *)
CallerSeesPlaintext ==
    \A i \in 1 .. Delivered - start : buf[i] = start + i

(* The decoder is fed every compressed byte once and in file order: in_buf is
   refilled only when it is used up (php_xz_decompress). *)
InputInOrder ==
    /\ dec.c + availIn = fpos
    /\ \A j \in 1 .. availIn : inBuf[nextIn + j - 1] = file.bytes[dec.c + j]

(* A whole, undamaged file is read without an error: no sequence of read
   sizes and short inner reads makes lzma_code() refuse a call (a second call without
   progress is LZMA_BUF_ERROR, which php_xz_decompress turns into -1). *)
SoundFileNeverFails == ~Damaged(file) /\ ~InnerMayFail => ~told /\ dec.seq = "RUN"

(* End of file on a whole, undamaged file means the caller has it all
   (the test at src/xz_fopen_wrapper.c:142 against bytes the decoder still holds). *)
EofMeansAll == eof /\ Sound(file) /\ ~InnerMayFail => Delivered = file.yield[file.len]

(* The rest of what makes the properties above inductive.  A call has returned
   what it copied or, having copied nothing, -1; the decoder holds at most what
   its last byte decodes to; a call of lzma_code() without progress happens only at the
   end of the file, where no further call follows. *)
CallInv ==
    /\ pc # "idle" => ret = 0 /\ toRead + haveRead <= MaxCount
    /\ pc = "idle" => ret = haveRead \/ (ret = -1 /\ haveRead = 0)
    /\ nextIn + availIn <= XZ_BUFFER_SIZE

DecoderInv ==
    /\ dec.seq \in {"RUN", "ERROR"}
    /\ dec.p <= file.yield[dec.c]
    /\ dec.c > 0 => file.yield[dec.c - 1] <= dec.p
    /\ dec.stuck => AtEnd
    /\ pc = "decode" => Window = 0 /\ ~dec.stuck /\ (availIn = 0 => innerEof)
    /\ innerEof /\ ~InnerMayFail => fpos = file.len

IInv ==
    /\ TypeOK
    /\ WindowInv
    /\ PlaintextInOrder
    /\ CallerSeesPlaintext
    /\ InputInOrder
    /\ CallInv
    /\ DecoderInv
    /\ SoundFileNeverFails
    /\ EofMeansAll

(* The stream implements PlainReader: total is the plaintext of the file, and
   the file is sound when it is whole, undamaged and the inner stream does not fail. *)
Abstract == INSTANCE PlainReader WITH
    total  <- file.yield[file.len],
    sound  <- Sound(file) /\ ~InnerMayFail,
    got    <- Delivered,
    eof    <- eof,
    failed <- told

(* Every step of the reader is a step of PlainReader or changes nothing a
   caller sees (all of php_xziop_read and php_xz_decompress). *)
ImplementsPlainReader == Abstract!Spec

(* Once a call is in progress it returns (the loop at
   src/xz_fopen_wrapper.c:123 terminates, also on damaged and truncated files). *)
ReadReturns == pc # "idle" ~> pc = "idle"

(* The loop of a caller, while (!feof($fp)) xzread($fp, n), ends: with feof(),
   or with a failure it can see. *)
CallerFinishes == <>(eof \/ told)

(* What docs/USAGE.md:510 says of the whole extension, for the reader: an
   I/O or lzma failure makes a call return false.  At the end of the file a
   failure has been reported. *)
FailureIsReported == eof /\ dec.seq = "ERROR" => told
=============================================================================
