--------------------------- MODULE XzWriteStream ---------------------------
(***************************************************************************)
(* Writing through the xz stream wrapper (src/xz_fopen_wrapper.c).         *)
(*                                                                         *)
(* php_xziop_write() gathers plaintext in in_buf and, each time it is      *)
(* full, has php_xz_compress() push it through lzma_code(LZMA_RUN) and     *)
(* write what comes out to the inner stream.  php_xziop_flush() does the   *)
(* same with a partly filled in_buf, php_xziop_close() ends the stream     *)
(* with lzma_code(LZMA_FINISH).  A write of the inner stream may come up   *)
(* short: php_xz_compress() gives up then, php_xziop_close() does not look.*)
(*                                                                         *)
(* The plaintext bytes a caller writes are numbered 1, 2, ... over the     *)
(* life of the stream, and so are the compressed bytes the encoder emits;  *)
(* buffers carry these numbers.                                            *)
(***************************************************************************)
EXTENDS Lzma

CONSTANTS
    XZ_BUFFER_SIZE,     \* size of in_buf and of out_buf
    MaxCount,           \* largest write the caller asks for
    MaxPlain,           \* bound: plaintext bytes written in all
    MaxStream,          \* bound: compressed bytes emitted in all
    InnerMayFail        \* whether a write of the inner stream may come up short

ASSUME BufferAssumption == XZ_BUFFER_SIZE \in Nat \ {0}
ASSUME BoundAssumption  == MaxCount \in Nat \ {0} /\ MaxPlain \in Nat /\ MaxStream \in Nat
ASSUME FailAssumption   == InnerMayFail \in BOOLEAN

VARIABLES
    \* the inner stream: bytes it has stored, and whether they are the
    \* compressed bytes 1 .. stored
    stored, intact,
    \* struct php_xz_stream_ctx: strm, in_buf, out_buf
    enc,        \* the encoder behind strm
    inBuf, nextIn, availIn,
    outBuf, nextOut, availOut,
    \* the handler in progress
    pc, op,
    count, wrote,   \* php_xziop_write: bytes asked for, bytes taken
    lzret,          \* php_xziop_close: lz_ret
    \* history: plaintext bytes offered by earlier writes; whether an inner
    \* write has come up short; whether any call has returned a failure
    offered, failed, told

file   == <<stored, intact>>
input  == <<inBuf, nextIn, availIn>>
output == <<outBuf, nextOut, availOut>>
call   == <<op, count, wrote>>
vars == <<file, enc, input, output, pc, call, lzret, offered, failed, told>>

Slots == 0 .. XZ_BUFFER_SIZE - 1

\* avail_in may exceed the buffer after a failure: see WriteTail.
TypeOK ==
    /\ stored \in Nat
    /\ intact \in BOOLEAN
    /\ enc \in EncoderState
    /\ inBuf \in [Slots -> Nat]
    /\ nextIn \in 0 .. XZ_BUFFER_SIZE
    /\ availIn \in 0 .. XZ_BUFFER_SIZE + MaxCount
    /\ outBuf \in [Slots -> Nat]
    /\ nextOut \in 0 .. XZ_BUFFER_SIZE
    /\ availOut \in 0 .. XZ_BUFFER_SIZE
    /\ pc \in {"idle", "fill", "compress", "emit", "tail", "finish", "drain", "closed"}
    /\ op \in {"none", "write", "flush", "close"}
    /\ count \in 0 .. MaxCount
    /\ wrote \in 0 .. count
    /\ lzret \in LzmaRet
    /\ offered \in Nat
    /\ failed \in BOOLEAN
    /\ told \in BOOLEAN

(* php_xz_init_encoder(): both buffers empty, uninitialised contents (0). *)
Init ==
    /\ stored = 0
    /\ intact = TRUE
    /\ enc = NewEncoder
    /\ inBuf = [i \in Slots |-> 0]
    /\ nextIn = 0
    /\ availIn = 0
    /\ outBuf = [i \in Slots |-> 0]
    /\ nextOut = 0
    /\ availOut = XZ_BUFFER_SIZE
    /\ pc = "idle"
    /\ op = "none"
    /\ count = 0
    /\ wrote = 0
    /\ lzret = LZMA_OK
    /\ offered = 0
    /\ failed = FALSE
    /\ told = FALSE

-----------------------------------------------------------------------------
(* Past the end of in_buf nothing is defined any more; the model stops there. *)
Defined == availIn <= XZ_BUFFER_SIZE

Room == XZ_BUFFER_SIZE - availIn
Left == count - wrote

\* Mutant of Overfull: forgets what in_buf holds already.
OverfullWhenEmpty == Left > XZ_BUFFER_SIZE

\* The rest of the caller's bytes does not fit behind what in_buf holds.
Overfull == Left > Room

\* memcpy(in_buf + avail_in, buf + wrote, n)
Gather(n) ==
    /\ inBuf' = [i \in Slots |-> IF i \in availIn .. availIn + n - 1
                                 THEN offered + wrote + (i - availIn) + 1 ELSE inBuf[i]]
    /\ availIn' = availIn + n

WriteCall(n) ==
    /\ pc = "idle"
    /\ Defined
    /\ offered + n <= MaxPlain
    /\ pc' = "fill"
    /\ op' = "write"
    /\ count' = n
    /\ wrote' = 0
    /\ UNCHANGED <<file, enc, input, output, lzret, offered, failed, told>>

FlushCall ==
    /\ pc = "idle"
    /\ Defined
    /\ pc' = "compress"
    /\ op' = "flush"
    /\ UNCHANGED <<file, enc, input, output, count, wrote, lzret, offered, failed, told>>

CloseCall ==
    /\ pc = "idle"
    /\ Defined
    /\ pc' = "finish"
    /\ op' = "close"
    /\ UNCHANGED <<file, enc, input, output, count, wrote, lzret, offered, failed, told>>

(* php_xziop_write(): in_buf is filled up and compressed while the rest of the
   caller's bytes does not fit behind it. *)
Fill ==
    /\ pc = "fill"
    /\ Overfull
    /\ Gather(Room)
    /\ wrote' = wrote + Room
    /\ pc' = "compress"
    /\ UNCHANGED <<file, enc, nextIn, output, op, count, lzret, offered, failed, told>>

(* The rest of the caller's bytes goes behind what in_buf holds: after the
   loop when it fits, and also when php_xz_compress() has failed, where it need not. *)
WriteTail ==
    /\ \/ pc = "fill" /\ ~Overfull
       \/ pc = "tail"
    /\ Gather(Left)
    /\ offered' = offered + count
    /\ count' = 0
    /\ wrote' = 0
    /\ pc' = "idle"
    /\ op' = "none"
    /\ told' = (told \/ pc = "tail")
    /\ UNCHANGED <<file, enc, nextIn, output, lzret, failed>>

-----------------------------------------------------------------------------
(* The answers of lzma_code(action) on what in_buf holds, with room bytes free
   in out_buf, and what an answer leaves when output goes to out_buf from
   slot `from' on. *)
LzmaCode(action, room) ==
    LzmaEncode(action, enc, [j \in 1 .. availIn |-> inBuf[nextIn + j - 1]], availIn, room, MaxStream)

Coded(o, from, room) ==
    /\ enc' = o.next
    /\ availIn' = availIn - o.used
    /\ outBuf' = [i \in Slots |-> IF i \in from .. from + o.made - 1
                                  THEN enc.p + (i - from) + 1 ELSE outBuf[i]]
    /\ nextOut' = from + o.made
    /\ availOut' = room - o.made

\* php_stream_write(out_buf, nextOut), of which k bytes reach the file.
Store(k) ==
    /\ stored' = stored + k
    /\ intact' = (intact /\ \A i \in 0 .. k - 1 : outBuf[i] = stored + i + 1)
    /\ failed' = (failed \/ k < nextOut)

\* How much of a write of nextOut bytes the inner stream takes.
Taken == IF InnerMayFail THEN 0 .. nextOut ELSE {nextOut}

\* Mutants of Rewind: avail_out alone; not at all.
RewindRoom == availOut' = XZ_BUFFER_SIZE /\ UNCHANGED nextOut
RewindNot  == UNCHANGED <<nextOut, availOut>>

\* out_buf has been written out.
Rewind == nextOut' = 0 /\ availOut' = XZ_BUFFER_SIZE

\* Mutant of KeepUnsent: out_buf is rewound as after any other write.
KeepUnsentNot == Rewind

\* After a short write out_buf is left as it is.
KeepUnsent == UNCHANGED <<nextOut, availOut>>

\* Mutant of CompressReturns: next_in is not reset.
CompressReturnsAhead(next) ==
    /\ UNCHANGED nextIn
    /\ IF op = "write" THEN pc' = next /\ UNCHANGED op ELSE pc' = "idle" /\ op' = "none"

\* php_xz_compress() resets next_in and returns: to php_xziop_write(), or to
\* php_xziop_flush(), which ignores the result.
CompressReturns(next) ==
    /\ nextIn' = 0
    /\ IF op = "write" THEN pc' = next /\ UNCHANGED op ELSE pc' = "idle" /\ op' = "none"

(* php_xz_compress(), one turn of the loop up to lzma_code(). *)
CompressCode ==
    /\ pc = "compress"
    /\ availIn > 0
    /\ \E o \in LzmaCode(LZMA_RUN, availOut) :
          /\ Coded(o, nextOut, availOut)
          /\ IF o.ret = LZMA_OK
             THEN pc' = "emit" /\ nextIn' = nextIn + o.used /\ UNCHANGED op
             ELSE CompressReturns("tail")
    /\ UNCHANGED <<file, inBuf, count, wrote, lzret, offered, failed, told>>

(* The rest of the turn: everything in out_buf is written and out_buf rewound,
   unless the write comes up short. *)
CompressEmit ==
    /\ pc = "emit"
    /\ \E k \in Taken :
          /\ Store(k)
          /\ \/ /\ k = nextOut
                /\ Rewind
                /\ pc' = "compress"
                /\ UNCHANGED <<nextIn, op>>
             \/ /\ k < nextOut
                /\ CompressReturns("tail")
                /\ KeepUnsent
    /\ UNCHANGED <<enc, inBuf, availIn, outBuf, count, wrote, lzret, offered, told>>

(* The loop ends: in_buf is used up. *)
CompressDone ==
    /\ pc = "compress"
    /\ availIn = 0
    /\ CompressReturns("fill")
    /\ UNCHANGED <<file, enc, inBuf, availIn, output, count, wrote, lzret, offered, failed, told>>

(* php_xziop_close(), one turn of the loop: out_buf is rewound, whatever it
   held, and lzma_code(LZMA_FINISH) called. *)
FinishCode ==
    /\ pc = "finish"
    /\ \E o \in LzmaCode(LZMA_FINISH, XZ_BUFFER_SIZE) :
          /\ Coded(o, 0, XZ_BUFFER_SIZE)
          /\ nextIn' = nextIn + o.used
          /\ lzret' = o.ret
    /\ pc' = "drain"
    /\ UNCHANGED <<file, inBuf, call, offered, failed, told>>

\* Mutants of Finished: one call is taken for enough; LZMA_STREAM_END for another LZMA_OK.
FinishedAtOnce  == TRUE
FinishedOnError == lzret \notin {LZMA_OK, LZMA_STREAM_END}

Finished == lzret # LZMA_OK

(* What came out is written, the result of the write ignored; the loop ends
   with any return code but LZMA_OK, and everything is freed. *)
FinishDrain ==
    /\ pc = "drain"
    /\ \E k \in Taken : Store(k)
    /\ IF nextOut > 0 THEN Rewind ELSE UNCHANGED <<nextOut, availOut>>
    /\ pc' = IF Finished THEN "closed" ELSE "finish"
    /\ UNCHANGED <<enc, input, outBuf, call, lzret, offered, told>>

-----------------------------------------------------------------------------
Step == Fill \/ WriteTail \/ CompressCode \/ CompressEmit \/ CompressDone \/ FinishCode \/ FinishDrain

Next == Step \/ FlushCall \/ CloseCall \/ \E n \in 1 .. MaxCount : WriteCall(n)

Spec == Init /\ [][Next]_vars

(* A handler that has started runs to its end: the code never waits. *)
FairSpec == Spec /\ WF_vars(Step)

-----------------------------------------------------------------------------
\* Plaintext taken from the caller so far.
Accepted == offered + wrote

(* As long as the inner stream takes what it is given, every byte taken from
   the caller has been fed to the encoder in order, or waits for it in in_buf
   (php_xziop_write, php_xz_compress: the memcpy at avail_in against next_in, which
   is reset only after the loop). *)
PlaintextInOrder ==
    ~failed =>
        /\ enc.faithful
        /\ enc.c + availIn = Accepted
        /\ nextIn + availIn <= XZ_BUFFER_SIZE
        /\ \A j \in 1 .. availIn : inBuf[nextIn + j - 1] = enc.c + j

(* Likewise every compressed byte is in the file or in out_buf, in order and
   once (the resets of next_out in php_xz_compress and php_xziop_close). *)
CompressedInOrder ==
    ~failed =>
        /\ intact
        /\ stored + nextOut = enc.p
        /\ \A i \in 0 .. nextOut - 1 : outBuf[i] = stored + i + 1

(* A stream closed without a short write is a complete .xz stream of everything
   the caller wrote, and no call has failed. *)
ClosedMeansStored ==
    pc = "closed" /\ ~failed =>
        /\ enc.seq = "END" /\ enc.faithful /\ enc.c = offered
        /\ intact /\ stored = enc.p
        /\ ~told

(* Short writes of earlier calls included: what a later call finds in out_buf are the
   latest compressed bytes, in order, with room behind them for lzma_code() to the end of
   out_buf and no further; and before the close no compressed byte is gone from out_buf
   that the inner stream has not been given and taken, since the call that fails leaves
   out_buf for the next one to write out again (src/xz_fopen_wrapper.c:68-73). *)
UnsentKept ==
    /\ nextOut + availOut = XZ_BUFFER_SIZE
    /\ \A i \in 0 .. nextOut - 1 : outBuf[i] = enc.p - nextOut + i + 1
    /\ op # "close" => enc.p - nextOut <= stored

(* The rest of what makes these inductive: where the buffers are rewound, and that
   lzma_code() refuses nothing as long as out_buf is written out after each call. *)
ControlInv ==
    /\ pc # "idle" => nextIn + availIn <= XZ_BUFFER_SIZE
    /\ pc \in {"idle", "fill", "tail"} => nextIn = 0
    /\ op = "write" \/ (count = 0 /\ wrote = 0)
    /\ pc = "fill" => op = "write"
    /\ pc = "idle" => op = "none"
    /\ pc \in {"fill", "compress", "emit", "tail"} => op \in {"write", "flush"}
    /\ pc = "tail" => op = "write"
    /\ pc \in {"finish", "drain", "closed"} => op = "close"

EncoderInv ==
    ~failed =>
        /\ ~told /\ ~enc.stuck /\ pc # "tail"
        /\ pc \notin {"emit", "drain"} => nextOut = 0
        /\ pc \notin {"finish", "drain", "closed"} => enc.seq = "RUN"
        /\ pc = "finish" => enc.seq \in {"RUN", "FINISH"}
        /\ pc = "drain" => \/ lzret = LZMA_OK /\ enc.seq = "FINISH"
                           \/ lzret = LZMA_STREAM_END /\ enc.seq = "END" /\ availIn = 0
        /\ pc = "closed" => enc.seq = "END" /\ availIn = 0

IInv ==
    /\ TypeOK
    /\ PlaintextInOrder
    /\ CompressedInOrder
    /\ UnsentKept
    /\ ControlInv
    /\ EncoderInv

(* Every handler returns: lzma_code() makes progress in both loops, also after
   short writes (php_xz_compress, php_xziop_close). *)
CallReturns == pc # "idle" ~> pc \in {"idle", "closed"}

(* docs/USAGE.md:510: an I/O failure makes a call return false.  By the time
   the stream is closed a short write has been reported. *)
FailureIsReported == pc = "closed" /\ failed => told
=============================================================================
