-------------------------- MODULE XzDecodeContext --------------------------
(***************************************************************************)
(* The incremental decoder of src/xz_decode_context.c: a context made by   *)
(* xz_decode_init(), fed with pieces of a compressed file by               *)
(* xz_decode_add() and told by xz_decode_finish() that no more follow.     *)
(*                                                                         *)
(* Both calls run php_xz_decode_context_process(): lzma_code() is called   *)
(* until it has nothing more to say, into a string that grows by           *)
(* XZ_BUFFER_SIZE whenever it is full.  The caller chooses the pieces, the *)
(* decoder where it stops; the last return code is kept in status and      *)
(* decides what the context accepts next.                                  *)
(***************************************************************************)
EXTENDS Lzma, Sequences

CONSTANTS
    XZ_BUFFER_SIZE,     \* by how much the output string grows
    MaxChunk,           \* largest piece the caller adds
    Files               \* the compressed files a context may be fed with

ASSUME BufferAssumption == XZ_BUFFER_SIZE \in Nat \ {0}
ASSUME ChunkAssumption  == MaxChunk \in Nat
ASSUME FilesAssumption  == \A f \in Files : WellFormedFile(f)

VARIABLES
    \* the caller: the file it feeds, and how much of it it has fed
    file, fed,
    \* php_xz_decode_context_obj: strm, status; XZ_CONCATENATED among the flags
    concat, dec, status,
    \* the call in progress: avail_in, the string out, next_out and avail_out
    pc, action, availIn, out, nextOut, availOut,
    \* what the latest call returned, the status it found, and how much plaintext
    \* earlier calls returned
    ret, was, start

caller  == <<file, fed>>
object  == <<concat, dec, status>>
string  == <<out, nextOut, availOut>>
vars == <<caller, object, pc, action, availIn, string, ret, was, start>>

TypeOK ==
    /\ WellFormedFile(file)
    /\ fed \in 0 .. file.len
    /\ concat \in BOOLEAN
    /\ dec \in DecoderState
    /\ status \in LzmaRet
    /\ pc \in {"idle", "process"}
    /\ action \in {LZMA_RUN, LZMA_FINISH}
    /\ availIn \in 0 .. MaxChunk
    /\ out \in Seq(Nat)
    /\ nextOut \in 0 .. Len(out)
    /\ availOut \in 0 .. XZ_BUFFER_SIZE
    /\ ret \in {"none", "string", "false"}
    /\ was \in LzmaRet
    /\ start \in Nat

(* xz_decode_init() has succeeded; it asks for no LZMA_CONCATENATED unless the
   caller's flags do. *)
Init ==
    /\ file \in Files
    /\ fed = 0
    /\ concat \in BOOLEAN
    /\ dec = NewDecoder
    /\ status = LZMA_OK
    /\ pc = "idle"
    /\ action = LZMA_RUN
    /\ availIn = 0
    /\ out = <<>>
    /\ nextOut = 0
    /\ availOut = 0
    /\ ret = "none"
    /\ was = LZMA_OK
    /\ start = 0

-----------------------------------------------------------------------------
\* Plaintext returned by the calls so far.
Returned == start + (IF ret = "string" THEN Len(out) ELSE 0)

Blank == [i \in 1 .. XZ_BUFFER_SIZE |-> 0]

\* Mutant of Process: what the call before left of its input stays in avail_in.
ProcessBehind(act, n) ==
    /\ pc' = "process"
    /\ action' = act
    /\ availIn' = availIn + n
    /\ out' = Blank
    /\ nextOut' = 0
    /\ availOut' = XZ_BUFFER_SIZE
    /\ ret' = "none"

(* php_xz_decode_context_process() starts, on n bytes of input. *)
Process(act, n) ==
    /\ pc' = "process"
    /\ action' = act
    /\ availIn' = n
    /\ out' = Blank
    /\ nextOut' = 0
    /\ availOut' = XZ_BUFFER_SIZE
    /\ ret' = "none"

(* A context that has reached the end of its stream answers at once. *)
Refuse(answer) ==
    /\ ret' = answer
    /\ out' = <<>>
    /\ nextOut' = 0
    /\ availOut' = 0
    /\ UNCHANGED <<pc, action, availIn>>

\* What a call finds: the status, and what calls before it returned.
Found == was' = status /\ start' = Returned

(* xz_decode_add(): the next n bytes of the file. *)
Add(n) ==
    /\ pc = "idle"
    /\ fed + n <= file.len
    /\ fed' = fed + n
    /\ Found
    /\ IF status # LZMA_STREAM_END THEN Process(LZMA_RUN, n) ELSE Refuse("false")
    /\ UNCHANGED <<file, object>>

(* xz_decode_finish() *)
Finish ==
    /\ pc = "idle"
    /\ Found
    /\ IF status # LZMA_STREAM_END THEN Process(LZMA_FINISH, 0) ELSE Refuse("string")
    /\ UNCHANGED <<caller, object>>

-----------------------------------------------------------------------------
\* Mutant of Extend: next_out goes back to the start of the string.
ExtendFromStart(s) ==
    /\ out' = s \o Blank
    /\ nextOut' = 0
    /\ availOut' = XZ_BUFFER_SIZE

\* zend_string_extend(): another XZ_BUFFER_SIZE bytes behind those of s.
Extend(s) ==
    /\ out' = s \o Blank
    /\ nextOut' = Len(s)
    /\ availOut' = XZ_BUFFER_SIZE

\* Mutants of Continues: the string never grows; room left in it is not looked at.
ContinuesNever(code, full)  == FALSE
ContinuesAlways(code, full) == code \in {LZMA_OK, LZMA_BUF_ERROR}

\* The return codes after which the loop goes on, if out is full.
Continues(code, full) ==
    full /\ (code = LZMA_OK \/ (code = LZMA_BUF_ERROR /\ action = LZMA_FINISH))

\* Mutant of Benign: a call without input and output is an error.
BenignStrictly == {LZMA_OK, LZMA_STREAM_END}

\* Those after which the string is returned.
Benign == {LZMA_OK, LZMA_STREAM_END, LZMA_BUF_ERROR}

\* Mutant of OutUsed: taken before the call.
OutUsedBefore(made) == Len(out) - availOut

\* out_used, after a call that emits made bytes.
OutUsed(made) == Len(out) - (availOut - made)

(* One turn of the loop. *)
Code ==
    /\ pc = "process"
    /\ \E o \in LzmaDecode(file, concat, action, dec,
                           [j \in 1 .. availIn |-> file.bytes[fed - availIn + j]], availIn, availOut) :
          LET filled == [i \in 1 .. Len(out) |-> IF i \in nextOut + 1 .. nextOut + o.made
                                                 THEN dec.p + i - nextOut ELSE out[i]]
          IN  /\ dec' = o.next
              /\ status' = o.ret
              /\ availIn' = availIn - o.used
              /\ IF Continues(o.ret, o.made = availOut)
                 THEN Extend(filled) /\ UNCHANGED <<pc, ret>>
                 ELSE /\ pc' = "idle"
                      /\ nextOut' = 0
                      /\ availOut' = 0
                      /\ IF o.ret \in Benign
                         THEN out' = SubSeq(filled, 1, OutUsed(o.made)) /\ ret' = "string"
                         ELSE out' = <<>> /\ ret' = "false"
    /\ UNCHANGED <<caller, concat, action, was, start>>

\* xz_decode_get_status() and xz_decode_get_read_len(): strm.total_in.
GetStatus  == status
GetReadLen == dec.c

-----------------------------------------------------------------------------
Next == Finish \/ Code \/ \E n \in 0 .. MaxChunk : Add(n)

Spec == Init /\ [][Next]_vars

-----------------------------------------------------------------------------
\* Decoded bytes in the string being built or returned.
Built == Len(out) - availOut

(* The strings returned so far, put together, are the plaintext from its first byte
   on, and so is the string a call is building: growing it moves nothing, and
   next_out stays behind what was written (php_xz_decode_context_process). *)
OutInOrder ==
    dec.seq # "ERROR" =>
        /\ start + Built = dec.p
        /\ \A i \in 1 .. Built : out[i] = start + i
        /\ pc = "process" => nextOut = Built

(* An add that returns a string without ending the stream has consumed all it
   was given and returned all that decodes to, however the caller cut the
   pieces and wherever the string was full (the test on avail_out at
   src/xz_decode_context.c:78). *)
NothingHeldBack ==
    pc = "idle" /\ ret = "string" /\ dec.seq = "RUN" =>
        dec.c = fed /\ Returned = file.yield[fed]

(* A context whose status is 1 stopped at the end of a stream: of the first
   one, or of the last byte fed when XZ_CONCATENATED was asked for; it has returned
   everything up to there, and get_read_len() tells where that is
   (xz_decode_get_status, xz_decode_get_read_len). *)
EndIsExact ==
    pc = "idle" /\ GetStatus = LZMA_STREAM_END =>
        /\ GetReadLen \in file.ends
        /\ concat \/ \A e \in file.ends : GetReadLen <= e
        /\ Returned = file.yield[GetReadLen]

(* Pieces of an undamaged file never make a call fail, except after the end or
   after a finish that came too early. *)
UndamagedNeverFails ==
    ~Damaged(file) /\ ret = "false" => was = LZMA_STREAM_END \/ dec.seq = "FINISH"

(* The string outgrows the plaintext by at most one XZ_BUFFER_SIZE: the loop,
   every turn of which but the last grows it, ends (src/xz_decode_context.c:70-101). *)
OutBounded == Len(out) <= file.yield[file.len] + XZ_BUFFER_SIZE

(* docs/USAGE.md:316, 487 and xz.stub.php:236: status 0 means ready for more data.
   Undamaged data added to a context that says so is not refused. *)
ReadyMeansReady == ~Damaged(file) /\ ret = "false" => was # LZMA_OK
=============================================================================
