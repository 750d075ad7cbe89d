-------------------------------- MODULE Lzma --------------------------------
(***************************************************************************)
(* The contract of liblzma that the extension relies on.  liblzma itself   *)
(* is not part of the repository: this module states what lzma_code()      *)
(* promises, in the terms the callers under src/ can observe.              *)
(*                                                                         *)
(* A compressed file is abstracted by what its bytes decode to.  A record  *)
(* f describes it: f.len is its length, f.bytes[i] its i-th byte (i when   *)
(* the byte is the one the encoder wrote, 0 when it was damaged),          *)
(* f.yield[i] the number of plaintext bytes decodable from the first i     *)
(* bytes, and f.ends the offsets at which a complete .xz stream ends.      *)
(* Plaintext bytes are named by their positions 1, 2, 3, ...               *)
(***************************************************************************)
EXTENDS Integers

LZMA_OK          == "LZMA_OK"
LZMA_STREAM_END  == "LZMA_STREAM_END"
LZMA_DATA_ERROR  == "LZMA_DATA_ERROR"
LZMA_BUF_ERROR   == "LZMA_BUF_ERROR"
LZMA_PROG_ERROR  == "LZMA_PROG_ERROR"

LZMA_RUN    == "LZMA_RUN"
LZMA_FINISH == "LZMA_FINISH"

LzmaRet == {LZMA_OK, LZMA_STREAM_END, LZMA_DATA_ERROR, LZMA_BUF_ERROR, LZMA_PROG_ERROR}

(* A damaged byte reads 0; decoding more bytes never takes plaintext back. *)
WellFormedFile(f) ==
    /\ f.len \in Nat
    /\ f.bytes \in [1 .. f.len -> Nat]
    /\ \A i \in 1 .. f.len : f.bytes[i] \in {0, i}
    /\ f.yield \in [0 .. f.len -> Nat]
    /\ f.yield[0] = 0
    /\ \A i, j \in 0 .. f.len : i <= j => f.yield[i] <= f.yield[j]
    /\ f.ends \subseteq 1 .. f.len

Damaged(f) == \E i \in 1 .. f.len : f.bytes[i] # i

\* A whole .xz file: its last byte, in the stream footer, decodes to nothing.
Whole(f) == f.len > 0 => f.yield[f.len - 1] = f.yield[f.len]

Sound(f) == ~Damaged(f) /\ Whole(f)

(* The state of a decoder behind a lzma_stream: what lzma_code() remembers
   of earlier calls (seq, and stuck: the last call made no progress), and how
   far the decoder is: c compressed bytes consumed, p plaintext bytes produced. *)
DecoderState == [seq : {"RUN", "FINISH", "END", "ERROR"}, stuck : BOOLEAN, c : Nat, p : Nat]

NewDecoder == [seq |-> "RUN", stuck |-> FALSE, c |-> 0, p |-> 0]

-----------------------------------------------------------------------------
(* The first k of the offered bytes are the ones the decoder expects next. *)
Expected(d, in, k) == \A j \in 1 .. k : in[j] = d.c + j

(* The decoder stops because its output room is full.  It may already hold
   the bytes of one more input byte than it has emitted. *)
RoomExhausted(f, d, in, room, o) ==
    /\ o.ret = LZMA_OK
    /\ Expected(d, in, o.used)
    /\ o.made = room
    /\ d.p + room <= f.yield[d.c + o.used]
    /\ o.used > 0 => f.yield[d.c + o.used - 1] <= d.p + room

(* The decoder stops because it has consumed all its input and emitted all
   that the input decodes to. *)
InputExhausted(f, d, in, n, o) ==
    /\ o.ret = LZMA_OK
    /\ o.used = n
    /\ Expected(d, in, n)
    /\ d.p + o.made = f.yield[d.c + n]

(* A stream ends here: reported when the decoder handles one stream only, or
   when the caller has said that no input follows (LZMA_FINISH). *)
StreamEnds(f, concat, action, d, n, used) ==
    /\ d.c + used \in f.ends
    /\ concat => action = LZMA_FINISH /\ used = n

EndReached(f, concat, action, d, in, n, o) ==
    /\ o.ret = LZMA_STREAM_END
    /\ Expected(d, in, o.used)
    /\ d.p + o.made = f.yield[d.c + o.used]
    /\ StreamEnds(f, concat, action, d, n, o.used)

(* The next byte is not the one expected: everything before it is emitted, the
   byte itself may or may not have been consumed when the error is found. *)
DamageFound(f, d, in, n, o) ==
    /\ o.ret = LZMA_DATA_ERROR
    /\ \E good \in 0 .. n - 1 :
          /\ Expected(d, in, good)
          /\ in[good + 1] # d.c + good + 1
          /\ o.used \in {good, good + 1}
          /\ d.p + o.made = f.yield[d.c + good]

(* What the decoder proper may answer to n bytes of input and room bytes of
   output space. *)
Answers(f, concat, action, d, in, n, room) ==
    {o \in [ret : {LZMA_OK, LZMA_STREAM_END, LZMA_DATA_ERROR}, used : 0 .. n, made : 0 .. room] :
        /\ ~concat => \A e \in f.ends : e > d.c => d.c + o.used <= e
        /\ \/ RoomExhausted(f, d, in, room, o) /\ ~StreamEnds(f, concat, action, d, n, o.used)
           \/ InputExhausted(f, d, in, n, o) /\ ~StreamEnds(f, concat, action, d, n, o.used)
           \/ EndReached(f, concat, action, d, in, n, o)
           \/ DamageFound(f, d, in, n, o)}

-----------------------------------------------------------------------------
(* lzma_code() itself: the order of calls it accepts, and LZMA_BUF_ERROR on
   the second call in a row that makes no progress. *)
Refusal(d, ret) == [ret |-> ret, used |-> 0, made |-> 0, next |-> d]

AfterAnswer(d, action, o) ==
    LET idle  == o.ret = LZMA_OK /\ o.used = 0 /\ o.made = 0
        moved == [d EXCEPT !.c = @ + o.used, !.p = @ + o.made, !.stuck = idle]
    IN  [ret  |-> IF idle /\ d.stuck THEN LZMA_BUF_ERROR ELSE o.ret,
         used |-> o.used,
         made |-> o.made,
         next |-> [moved EXCEPT !.seq = CASE o.ret = LZMA_STREAM_END -> "END"
                                          [] o.ret = LZMA_DATA_ERROR -> "ERROR"
                                          [] OTHER -> IF action = LZMA_FINISH THEN "FINISH" ELSE @]]

LzmaDecode(f, concat, action, d, in, n, room) ==
    CASE d.seq = "END"   -> {Refusal(d, LZMA_STREAM_END)}
      [] d.seq = "ERROR" -> {Refusal(d, LZMA_PROG_ERROR)}
      [] d.seq = "FINISH" /\ action # LZMA_FINISH -> {Refusal(d, LZMA_PROG_ERROR)}
      [] OTHER -> {AfterAnswer(d, action, o) : o \in Answers(f, concat, action, d, in, n, room)}

-----------------------------------------------------------------------------
(* The encoder behind a lzma_stream.  c plaintext bytes consumed, p compressed
   bytes emitted; faithful: the bytes consumed were plaintext bytes 1 .. c, in
   order, so that the compressed bytes 1 .. p are those of that plaintext. *)
EncoderState ==
    [seq : {"RUN", "FINISH", "END", "ERROR"}, stuck : BOOLEAN, c : Nat, p : Nat, faithful : BOOLEAN]

NewEncoder == [seq |-> "RUN", stuck |-> FALSE, c |-> 0, p |-> 0, faithful |-> TRUE]

(* The encoder consumes all its input unless its room is full.  It may keep any
   amount of output to itself until LZMA_FINISH, which emits until the stream
   is complete.  A stream has at most `most' bytes. *)
EncoderAnswers(action, e, n, room, most) ==
    {o \in [ret : {LZMA_OK, LZMA_STREAM_END}, used : 0 .. n, made : 0 .. room] :
        /\ e.p + o.made <= most
        /\ o.used < n => o.made = room
        /\ IF action = LZMA_FINISH
           THEN IF o.ret = LZMA_OK THEN o.made = room ELSE o.used = n
           ELSE o.ret = LZMA_OK}

LzmaEncode(action, e, in, n, room, most) ==
    CASE e.seq = "END"   -> {Refusal(e, LZMA_STREAM_END)}
      [] e.seq = "ERROR" -> {Refusal(e, LZMA_PROG_ERROR)}
      [] e.seq = "FINISH" /\ action # LZMA_FINISH -> {Refusal(e, LZMA_PROG_ERROR)}
      [] OTHER ->
            {[AfterAnswer(e, action, o) EXCEPT !.next.faithful = @ /\ Expected(e, in, o.used)] :
                o \in EncoderAnswers(action, e, n, room, most)}
=============================================================================
