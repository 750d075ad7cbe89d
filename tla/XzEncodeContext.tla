-------------------------- MODULE XzEncodeContext --------------------------
(***************************************************************************)
(* The incremental encoder of src/xz_encode_context.c: a context made by   *)
(* xz_encode_init(), fed with pieces of a plaintext by xz_encode_add() and *)
(* told by xz_encode_finish() that no more follow.                         *)
(*                                                                         *)
(* Both calls run php_xz_encode_context_process(): lzma_code() is called   *)
(* until it leaves room in the output string, which grows by               *)
(* XZ_BUFFER_SIZE whenever it is full.  The caller chooses the pieces, the *)
(* encoder how much of its output it keeps to itself until the end.        *)
(* Plaintext and compressed bytes are named by their positions.            *)
(***************************************************************************)
EXTENDS Lzma, Sequences

CONSTANTS
    XZ_BUFFER_SIZE,     \* by how much the output string grows
    MaxChunk,           \* largest piece the caller adds
    MaxPlain,           \* bound: plaintext a caller feeds
    MaxStream           \* bound: length of a compressed stream

ASSUME BufferAssumption == XZ_BUFFER_SIZE \in Nat \ {0}
ASSUME BoundsAssumption == MaxChunk \in Nat /\ MaxPlain \in Nat /\ MaxStream \in Nat

VARIABLES
    \* the caller: how much plaintext the context has accepted, the size of the
    \* piece given to the latest call
    fed, given,
    \* php_xz_encode_context_obj: strm, status
    enc, status,
    \* the call in progress: avail_in, the string out, next_out and avail_out
    pc, action, availIn, out, nextOut, availOut,
    \* what the latest call returned, the status it found, and how many compressed
    \* bytes earlier calls returned
    ret, was, start

caller == <<fed, given>>
object == <<enc, status>>
string == <<out, nextOut, availOut>>
vars == <<caller, object, pc, action, availIn, string, ret, was, start>>

TypeOK ==
    /\ fed \in 0 .. MaxPlain
    /\ given \in 0 .. MaxChunk
    /\ enc \in EncoderState
    /\ status \in LzmaRet
    /\ pc \in {"idle", "process"}
    /\ action \in {LZMA_RUN, LZMA_FINISH}
    /\ availIn \in 0 .. given
    /\ out \in Seq(Nat)
    /\ nextOut \in 0 .. Len(out)
    /\ availOut \in 0 .. XZ_BUFFER_SIZE
    /\ ret \in {"none", "string", "false"}
    /\ was \in LzmaRet
    /\ start \in Nat

(* xz_encode_init() has succeeded. *)
Init ==
    /\ fed = 0
    /\ given = 0
    /\ enc = NewEncoder
    /\ status = LZMA_OK
    /\ pc = "idle"
    /\ action = LZMA_RUN
    /\ availIn = 0
    /\ out = <<>>
    /\ nextOut = 0
    /\ availOut = 0
    /\ ret = "none"
    /\ was = LZMA_OK
    /\ start = 0

-----------------------------------------------------------------------------
\* Compressed bytes returned by the calls so far.
Returned == start + (IF ret = "string" THEN Len(out) ELSE 0)

Blank == [i \in 1 .. XZ_BUFFER_SIZE |-> 0]

(* php_xz_encode_context_process() starts, on n bytes of input. *)
Process(act, n) ==
    /\ fed' = fed + n
    /\ pc' = "process"
    /\ action' = act
    /\ availIn' = n
    /\ out' = Blank
    /\ nextOut' = 0
    /\ availOut' = XZ_BUFFER_SIZE
    /\ ret' = "none"

(* A finished context answers false, with a warning. *)
Refuse ==
    /\ ret' = "false"
    /\ out' = <<>>
    /\ UNCHANGED <<fed, pc, action, availIn, nextOut, availOut>>

\* The beginning of both calls, for a piece of n bytes.
Call(act, n) ==
    /\ pc = "idle"
    /\ given' = n
    /\ was' = status
    /\ start' = Returned
    /\ IF status = LZMA_STREAM_END THEN Refuse ELSE Process(act, n)
    /\ UNCHANGED object

(* xz_encode_add(): the next n bytes of the plaintext. *)
Add(n) == fed + n <= MaxPlain /\ Call(LZMA_RUN, n)

(* xz_encode_finish() *)
Finish == Call(LZMA_FINISH, 0)

-----------------------------------------------------------------------------
\* Mutants of Extend: avail_out becomes the size of the whole string; next_out
\* goes back to its start.
ExtendWhole(s) ==
    /\ out' = s \o Blank
    /\ nextOut' = Len(s)
    /\ availOut' = Len(s) + XZ_BUFFER_SIZE

ExtendFromStart(s) ==
    /\ out' = s \o Blank
    /\ nextOut' = 0
    /\ availOut' = XZ_BUFFER_SIZE

\* zend_string_extend(): another XZ_BUFFER_SIZE bytes behind those of s.
Extend(s) ==
    /\ out' = s \o Blank
    /\ nextOut' = Len(s)
    /\ availOut' = XZ_BUFFER_SIZE

\* Mutants of Continues: the loop runs once; the room left is not looked at; a
\* call that gets nowhere is repeated.
ContinuesNever(code, full)   == FALSE
ContinuesAlways(code, full)  == code = LZMA_OK
ContinuesStalled(code, full) == (full /\ code = LZMA_OK) \/ code = LZMA_BUF_ERROR

\* The loop goes on while the string is full.
Continues(code, full) == code = LZMA_OK /\ full

\* The return codes after which the string is returned.
Benign == {LZMA_OK, LZMA_STREAM_END}

\* Mutant of OutUsed: taken before the call.
OutUsedBefore(made) == Len(out) - availOut

\* out_used, after a call that emits made bytes.
OutUsed(made) == Len(out) - (availOut - made)

(* One turn of the loop. *)
Code ==
    /\ pc = "process"
    /\ \E o \in LzmaEncode(action, enc, [j \in 1 .. availIn |-> fed - availIn + j],
                           availIn, availOut, MaxStream) :
          LET filled == [i \in 1 .. Len(out) |-> IF i \in nextOut + 1 .. nextOut + o.made
                                                 THEN enc.p + i - nextOut ELSE out[i]]
          IN  /\ enc' = o.next
              /\ status' = o.ret
              /\ availIn' = availIn - o.used
              /\ IF Continues(o.ret, o.made = availOut)
                 THEN Extend(filled) /\ UNCHANGED <<pc, ret>>
                 ELSE /\ pc' = "idle"
                      /\ nextOut' = 0
                      /\ availOut' = 0
                      /\ IF o.ret \in Benign
                         THEN out' = SubSeq(filled, 1, OutUsed(o.made)) /\ ret' = "string"
                         ELSE out' = <<>> /\ ret' = "false"
    /\ UNCHANGED <<caller, action, was, start>>

-----------------------------------------------------------------------------
Next == Finish \/ Code \/ \E n \in 0 .. MaxChunk : Add(n)

Spec == Init /\ [][Next]_vars

-----------------------------------------------------------------------------
\* Compressed bytes in the string being built or returned.
Built == Len(out) - availOut

(* The strings returned so far, put together, are the compressed stream from its first
   byte on, and so is the string a call is building; a call that fails, and
   releases its string, loses no byte of it (php_xz_encode_context_process). *)
OutInOrder ==
    /\ start + Built = enc.p
    /\ \A i \in 1 .. Built : out[i] = start + i
    /\ pc = "process" => nextOut = Built

(* A call that returns a string has given the encoder all the plaintext it was
   fed with, wherever the string was full: what avail_in still counts is not
   left behind (the test on avail_out at src/xz_encode_context.c:92). *)
InputTaken == pc = "idle" /\ ret # "false" => enc.c = fed /\ enc.faithful

(* A finish, the first time it is called, completes the stream, and the strings
   returned are the whole of it, for all the plaintext fed (xz_encode_finish). *)
FinishCompletes ==
    pc = "idle" /\ action = LZMA_FINISH =>
        /\ status = LZMA_STREAM_END
        /\ enc.seq = "END" /\ enc.c = fed
        /\ Returned = enc.p

(* The only calls that fail are those on a finished context and additions of
   nothing (the default: branch at src/xz_encode_context.c:103). *)
RefusalsExplained ==
    ret = "false" => was = LZMA_STREAM_END \/ (action = LZMA_RUN /\ given = 0)

(* The string outgrows the stream by at most one XZ_BUFFER_SIZE: the loop,
   every turn of which but the last grows it, ends (src/xz_encode_context.c:85-107). *)
OutBounded == Len(out) <= MaxStream + XZ_BUFFER_SIZE

(* docs/USAGE.md:138-139 and xz.stub.php:136-137: a chunk of output on success,
   and false only after xz_encode_finish(). *)
AddSucceeds == ret = "false" => was = LZMA_STREAM_END
=============================================================================
