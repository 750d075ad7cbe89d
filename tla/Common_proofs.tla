--------------------------- MODULE Common_proofs ---------------------------
(***************************************************************************)
(* Facts about Lzma and ZendLong, on which the proofs about the components *)
(* rest: what a call of lzma_code() does, how a string grows, what a       *)
(* conversion of a zend_long keeps.                                        *)
(***************************************************************************)
EXTENDS Lzma, ZendLong, Sequences, SequenceTheorems, TLAPS

-----------------------------------------------------------------------------
(* Decoders and encoders. *)

LEMMA YieldMonotone ==
    ASSUME NEW f, WellFormedFile(f), NEW i \in 0 .. f.len, NEW j \in 0 .. f.len, i <= j
    PROVE  f.yield[i] \in Nat /\ f.yield[j] \in Nat /\ f.yield[i] <= f.yield[j]
  BY DEF WellFormedFile

(* The n bytes on offer are the next ones of the file, and the decoder has
   emitted what the bytes before them decode to, at most one byte's worth
   excepted. *)
Offered(f, d, in, n) ==
    /\ WellFormedFile(f)
    /\ d \in DecoderState
    /\ d.seq \in {"RUN", "ERROR"}
    /\ n \in Nat
    /\ d.c + n <= f.len
    /\ \A j \in 1 .. n : in[j] = f.bytes[d.c + j]
    /\ d.p <= f.yield[d.c]
    /\ d.c > 0 => f.yield[d.c - 1] <= d.p

(* Such a call consumes and emits within bounds, never runs ahead of what the
   bytes decode to nor falls behind by more than the last byte, makes progress
   when it has input and room, and refuses nothing on an undamaged file. *)
Ran(f, d, n, room, o) ==
    /\ o.used \in 0 .. n
    /\ o.made \in 0 .. room
    /\ o.next \in DecoderState
    /\ o.next.c = d.c + o.used
    /\ o.next.p = d.p + o.made
    /\ o.next.seq \in {"RUN", "ERROR"}
    /\ o.next.p <= f.yield[o.next.c]
    /\ o.next.c > 0 => f.yield[o.next.c - 1] <= o.next.p
    /\ d.seq = "RUN" /\ room > 0 /\ o.next.stuck => n = 0 /\ o.used = 0 /\ o.made = 0
    /\ d.seq = "RUN" /\ ~d.stuck /\ ~Damaged(f) => o.ret = LZMA_OK /\ o.next.seq = "RUN"
    /\ o.ret \in {LZMA_OK, LZMA_STREAM_END} => o.next.stuck \/ o.used > 0 \/ o.made > 0
    /\ d.seq = "ERROR" => o.next = d

(* What one lzma_code(LZMA_RUN) on a concatenating decoder does when it is
   offered the next bytes of the file. *)
LEMMA RunOnce ==
    ASSUME NEW f, NEW d, NEW in, NEW n, NEW room \in Nat, Offered(f, d, in, n),
           NEW o \in LzmaDecode(f, TRUE, LZMA_RUN, d, in, n, room)
    PROVE  Ran(f, d, n, room, o)
<1>. USE DEF Offered
<1>1. CASE d.seq = "ERROR"
  <2>1. o = Refusal(d, LZMA_PROG_ERROR)
    BY <1>1 DEF LzmaDecode
  <2>2. o.used = 0 /\ o.made = 0 /\ o.next = d /\ o.ret \notin {LZMA_OK, LZMA_STREAM_END}
    BY <2>1 DEF Refusal, LZMA_PROG_ERROR, LZMA_OK, LZMA_STREAM_END
  <2>. QED  BY <1>1, <2>2 DEF DecoderState, Ran
<1>2. CASE d.seq = "RUN"
  <2>1. PICK a \in Answers(f, TRUE, LZMA_RUN, d, in, n, room) : o = AfterAnswer(d, LZMA_RUN, a)
    BY <1>2 DEF LzmaDecode
  <2>2. /\ a.used \in 0 .. n
        /\ a.made \in 0 .. room
        /\ a.ret \in {LZMA_OK, LZMA_STREAM_END, LZMA_DATA_ERROR}
        /\ \/ RoomExhausted(f, d, in, room, a)
           \/ InputExhausted(f, d, in, n, a)
           \/ DamageFound(f, d, in, n, a)
    BY <2>1 DEF Answers, EndReached, StreamEnds, LZMA_RUN, LZMA_FINISH
  <2>. DEFINE c == d.c + a.used
              p == d.p + a.made
  <2>3. d.c \in Nat /\ d.p \in Nat /\ c \in Nat /\ p \in Nat /\ c <= f.len /\ f.len \in Nat
    BY <2>2 DEF DecoderState, WellFormedFile
  <2>4. /\ p <= f.yield[c]
        /\ c > 0 => f.yield[c - 1] <= p
    <3>1. \A i \in 0 .. f.len : f.yield[i] \in Nat
      BY DEF WellFormedFile
    <3>2. CASE RoomExhausted(f, d, in, room, a)
      BY <2>2, <2>3, <3>1, <3>2 DEF RoomExhausted
    <3>3. CASE InputExhausted(f, d, in, n, a)
      <4>1. p = f.yield[c]
        BY <3>3 DEF InputExhausted
      <4>2. c > 0 => f.yield[c - 1] <= f.yield[c]
        BY <2>3, YieldMonotone
      <4>. QED  BY <4>1, <4>2, <3>1, <2>3
    <3>4. CASE DamageFound(f, d, in, n, a)
      <4>1. PICK good \in 0 .. n - 1 : a.used \in {good, good + 1} /\ p = f.yield[d.c + good]
        BY <3>4 DEF DamageFound
      <4>2. CASE a.used = good
        <5>1. c > 0 => f.yield[c - 1] <= f.yield[c]
          BY <2>3, YieldMonotone
        <5>. QED  BY <4>1, <4>2, <5>1, <3>1, <2>3
      <4>3. CASE a.used = good + 1
        <5>1. c = d.c + good + 1 /\ c - 1 = d.c + good /\ c - 1 \in 0 .. f.len
          BY <4>3, <2>3
        <5>2. f.yield[c - 1] <= f.yield[c]
          BY <5>1, <2>3, YieldMonotone
        <5>. QED  BY <4>1, <5>1, <5>2, <3>1, <2>3
      <4>. QED  BY <4>1, <4>2, <4>3
    <3>. QED  BY <2>2, <3>2, <3>3, <3>4
  <2>5. /\ o.used = a.used
        /\ o.made = a.made
        /\ o.next.c = c
        /\ o.next.p = p
        /\ o.next.stuck = (a.ret = LZMA_OK /\ a.used = 0 /\ a.made = 0)
        /\ o.next.seq = IF a.ret = LZMA_STREAM_END THEN "END"
                        ELSE IF a.ret = LZMA_DATA_ERROR THEN "ERROR" ELSE "RUN"
        /\ o.next \in DecoderState
        /\ ~d.stuck => o.ret = a.ret
    BY <1>2, <2>1, <2>2, <2>3 DEF AfterAnswer, DecoderState, LZMA_RUN, LZMA_FINISH, LZMA_OK, LZMA_STREAM_END, LZMA_DATA_ERROR
  <2>6. a.ret # LZMA_STREAM_END
    BY <2>2 DEF RoomExhausted, InputExhausted, DamageFound, LZMA_OK, LZMA_STREAM_END, LZMA_DATA_ERROR
  <2>7. room > 0 /\ o.next.stuck => n = 0 /\ a.used = 0 /\ a.made = 0
    <3>1. ASSUME room > 0, a.ret = LZMA_OK, a.used = 0, a.made = 0 PROVE n = 0
      BY <2>2, <3>1 DEF RoomExhausted, InputExhausted, DamageFound, LZMA_OK, LZMA_DATA_ERROR
    <3>2. o.next.stuck => a.ret = LZMA_OK /\ a.used = 0 /\ a.made = 0
      BY <2>5
    <3>. QED  BY <3>1, <3>2
  <2>8. ~Damaged(f) => a.ret = LZMA_OK
    <3>1. SUFFICES ASSUME DamageFound(f, d, in, n, a) PROVE Damaged(f)
      BY <2>2 DEF RoomExhausted, InputExhausted
    <3>2. PICK good \in 0 .. n - 1 : in[good + 1] # d.c + good + 1
      BY <3>1 DEF DamageFound
    <3>3. good + 1 \in 1 .. n /\ d.c + good + 1 \in 1 .. f.len
      BY <2>3
    <3>4. f.bytes[d.c + good + 1] # d.c + good + 1
      BY <3>2, <3>3, <2>3
    <3>. QED  BY <3>3, <3>4 DEF Damaged
  <2>9. o.ret \in {LZMA_OK, LZMA_STREAM_END} => o.next.stuck \/ o.used > 0 \/ o.made > 0
    <3>1. o.ret = IF a.ret = LZMA_OK /\ a.used = 0 /\ a.made = 0 /\ d.stuck THEN LZMA_BUF_ERROR ELSE a.ret
      BY <2>1 DEF AfterAnswer
    <3>2. o.ret \in {LZMA_OK, LZMA_STREAM_END} => a.ret = LZMA_OK
      BY <2>2, <2>6, <3>1 DEF LZMA_OK, LZMA_STREAM_END, LZMA_DATA_ERROR, LZMA_BUF_ERROR
    <3>3. a.ret = LZMA_OK => o.next.stuck \/ a.used # 0 \/ a.made # 0
      BY <2>5
    <3>. QED  BY <2>2, <2>5, <3>2, <3>3
  <2>. QED  BY <1>2, <2>2, <2>4, <2>5, <2>6, <2>7, <2>8, <2>9 DEF Ran, LZMA_OK, LZMA_STREAM_END, LZMA_DATA_ERROR
<1>. QED  BY <1>1, <1>2

-----------------------------------------------------------------------------
(* The same for any decoder and either action, as long as the decoder has not
   ended, failed or been told before that no input follows. *)
Fed(f, concat, action, d, in, n) ==
    /\ WellFormedFile(f)
    /\ d \in DecoderState
    /\ d.seq = "RUN" \/ (d.seq = "FINISH" /\ action = LZMA_FINISH)
    /\ n \in Nat /\ d.c + n <= f.len
    /\ \A j \in 1 .. n : in[j] = f.bytes[d.c + j]
    /\ d.p <= f.yield[d.c]
    /\ ~concat => \A e \in f.ends : d.c < e

(* Where it stands after the call: short of the end, with its room full or with
   all of its input decoded; without progress, having no input; at the end of the
   only or of the last stream; or at a damaged byte. *)
GoesOn(f, concat, action, d, o) ==
    /\ o.next.seq = IF action = LZMA_FINISH THEN "FINISH" ELSE d.seq
    /\ ~concat => \A e \in f.ends : o.next.c < e

Decoded(f, concat, action, d, n, room, o) ==
    /\ o.used \in 0 .. n
    /\ o.made \in 0 .. room
    /\ o.next \in DecoderState
    /\ o.next.c = d.c + o.used
    /\ o.next.p = d.p + o.made
    /\ o.next.p <= f.yield[o.next.c]
    /\ \/ /\ o.ret = LZMA_OK
          /\ GoesOn(f, concat, action, d, o)
          /\ o.made = room \/ (o.used = n /\ o.next.p = f.yield[o.next.c])
       \/ /\ o.ret = LZMA_BUF_ERROR
          /\ GoesOn(f, concat, action, d, o)
          /\ n = 0 /\ o.made = 0 /\ o.next.p = f.yield[o.next.c]
       \/ /\ o.ret = LZMA_STREAM_END
          /\ o.next.seq = "END"
          /\ o.next.c \in f.ends /\ o.next.p = f.yield[o.next.c]
          /\ concat \/ \A e \in f.ends : o.next.c <= e
       \/ /\ o.ret = LZMA_DATA_ERROR
          /\ o.next.seq = "ERROR"
          /\ Damaged(f)

LEMMA DecodeOnce ==
    ASSUME NEW f, NEW concat \in BOOLEAN, NEW action \in {LZMA_RUN, LZMA_FINISH}, NEW d, NEW in, NEW n,
           NEW room \in Nat \ {0}, Fed(f, concat, action, d, in, n),
           NEW o \in LzmaDecode(f, concat, action, d, in, n, room)
    PROVE  Decoded(f, concat, action, d, n, room, o)
<1>. USE DEF Fed
<1>1. PICK a \in Answers(f, concat, action, d, in, n, room) : o = AfterAnswer(d, action, a)
  BY DEF LzmaDecode
<1>2. /\ a.used \in 0 .. n
      /\ a.made \in 0 .. room
      /\ a.ret \in {LZMA_OK, LZMA_STREAM_END, LZMA_DATA_ERROR}
      /\ ~concat => \A e \in f.ends : e > d.c => d.c + a.used <= e
      /\ \/ RoomExhausted(f, d, in, room, a) /\ ~StreamEnds(f, concat, action, d, n, a.used)
         \/ InputExhausted(f, d, in, n, a) /\ ~StreamEnds(f, concat, action, d, n, a.used)
         \/ EndReached(f, concat, action, d, in, n, a)
         \/ DamageFound(f, d, in, n, a)
  BY <1>1 DEF Answers
<1>. DEFINE c == d.c + a.used
            p == d.p + a.made
            idle == a.ret = LZMA_OK /\ a.used = 0 /\ a.made = 0
<1>3. /\ d.c \in Nat /\ d.p \in Nat /\ c \in Nat /\ p \in Nat /\ c <= f.len /\ f.len \in Nat
      /\ f.ends \subseteq 1 .. f.len
      /\ \A i \in 0 .. f.len : f.yield[i] \in Nat
  BY <1>2 DEF DecoderState, WellFormedFile
<1>4. /\ o.used = a.used
      /\ o.made = a.made
      /\ o.next.c = c
      /\ o.next.p = p
      /\ o.ret = a.ret \/ (idle /\ o.ret = LZMA_BUF_ERROR)
      /\ o.next.seq = IF a.ret = LZMA_STREAM_END THEN "END"
                      ELSE IF a.ret = LZMA_DATA_ERROR THEN "ERROR"
                      ELSE IF action = LZMA_FINISH THEN "FINISH" ELSE d.seq
  <2>1. /\ o.used = a.used
        /\ o.made = a.made
        /\ o.ret = IF idle /\ d.stuck THEN LZMA_BUF_ERROR ELSE a.ret
    BY <1>1 DEF AfterAnswer
  <2>2. o.next.c = c /\ o.next.p = p
    BY <1>1 DEF AfterAnswer, DecoderState
  <2>3. o.next.seq = IF a.ret = LZMA_STREAM_END THEN "END"
                     ELSE IF a.ret = LZMA_DATA_ERROR THEN "ERROR"
                     ELSE IF action = LZMA_FINISH THEN "FINISH" ELSE d.seq
    BY <1>1, <1>2 DEF AfterAnswer, DecoderState, LZMA_OK, LZMA_STREAM_END, LZMA_DATA_ERROR
  <2>. QED  BY <2>1, <2>2, <2>3
<1>5. o.next \in DecoderState
  BY <1>1, <1>2, <1>3 DEF AfterAnswer, DecoderState, LZMA_RUN, LZMA_FINISH, LZMA_OK, LZMA_STREAM_END, LZMA_DATA_ERROR
<1>6. ASSUME ~StreamEnds(f, concat, action, d, n, a.used), ~concat PROVE \A e \in f.ends : c < e
  <2>1. c \notin f.ends
    BY <1>6 DEF StreamEnds
  <2>2. \A e \in f.ends : e \in Nat /\ d.c < e /\ c <= e
    BY <1>2, <1>3, <1>6
  <2>. QED  BY <1>3, <2>1, <2>2
<1>7. CASE RoomExhausted(f, d, in, room, a) /\ ~StreamEnds(f, concat, action, d, n, a.used)
  <2>1. a.ret = LZMA_OK /\ a.made = room /\ p <= f.yield[c]
    BY <1>7, <1>3 DEF RoomExhausted
  <2>2. o.ret = LZMA_OK
    BY <1>4, <2>1
  <2>3. GoesOn(f, concat, action, d, o)
    BY <1>4, <1>6, <1>7, <2>1 DEF GoesOn, LZMA_OK, LZMA_STREAM_END, LZMA_DATA_ERROR
  <2>. QED  BY <1>2, <1>4, <1>5, <2>1, <2>2, <2>3 DEF Decoded
<1>8. CASE InputExhausted(f, d, in, n, a) /\ ~StreamEnds(f, concat, action, d, n, a.used)
  <2>1. a.ret = LZMA_OK /\ a.used = n /\ p = f.yield[c] /\ f.yield[c] \in Nat
    BY <1>8, <1>3 DEF InputExhausted
  <2>2. GoesOn(f, concat, action, d, o)
    BY <1>4, <1>6, <1>8, <2>1 DEF GoesOn, LZMA_OK, LZMA_STREAM_END, LZMA_DATA_ERROR
  <2>3. CASE o.ret = LZMA_OK
    BY <1>2, <1>4, <1>5, <2>1, <2>2, <2>3 DEF Decoded
  <2>4. CASE o.ret = LZMA_BUF_ERROR /\ n = 0 /\ a.made = 0
    BY <1>2, <1>4, <1>5, <2>1, <2>2, <2>4 DEF Decoded
  <2>. QED  BY <1>4, <2>1, <2>3, <2>4
<1>9. CASE EndReached(f, concat, action, d, in, n, a)
  <2>1. a.ret = LZMA_STREAM_END /\ p = f.yield[c] /\ c \in f.ends /\ f.yield[c] \in Nat
    BY <1>9, <1>3 DEF EndReached, StreamEnds
  <2>2. o.ret = LZMA_STREAM_END /\ o.next.seq = "END"
    BY <1>4, <2>1 DEF LZMA_OK, LZMA_STREAM_END
  <2>3. concat \/ \A e \in f.ends : c <= e
    BY <1>2, <1>3
  <2>. QED  BY <1>2, <1>4, <1>5, <2>1, <2>2, <2>3 DEF Decoded
<1>10. CASE DamageFound(f, d, in, n, a)
  <2>1. PICK good \in 0 .. n - 1 : /\ in[good + 1] # d.c + good + 1
                                  /\ a.used \in {good, good + 1}
                                  /\ p = f.yield[d.c + good]
    BY <1>10 DEF DamageFound
  <2>2. a.ret = LZMA_DATA_ERROR
    BY <1>10 DEF DamageFound
  <2>3. good + 1 \in 1 .. n /\ d.c + good + 1 \in 1 .. f.len /\ d.c + good \in 0 .. f.len
    BY <1>3
  <2>4. Damaged(f)
    <3>1. in[good + 1] = f.bytes[d.c + (good + 1)]
      BY <2>3
    <3>2. f.bytes[d.c + good + 1] # d.c + good + 1
      BY <1>3, <2>1, <2>3, <3>1
    <3>. QED  BY <2>3, <3>2 DEF Damaged
  <2>5. c \in 0 .. f.len /\ d.c + good <= c
    BY <1>3, <2>1
  <2>6. p <= f.yield[c]
    BY <2>1, <2>3, <2>5, YieldMonotone
  <2>7. o.ret = LZMA_DATA_ERROR /\ o.next.seq = "ERROR"
    BY <1>4, <2>2 DEF LZMA_OK, LZMA_STREAM_END, LZMA_DATA_ERROR
  <2>. QED  BY <1>2, <1>4, <1>5, <2>4, <2>6, <2>7 DEF Decoded
<1>. QED  BY <1>2, <1>7, <1>8, <1>9, <1>10

(* Told that no input follows, at a place where a stream ends, the decoder reports
   the end. *)
LEMMA EndsWhenTold ==
    ASSUME NEW f, NEW concat \in BOOLEAN, NEW d \in DecoderState, NEW in, NEW room \in Nat,
           d.seq \in {"RUN", "FINISH"}, d.c \in f.ends,
           NEW o \in LzmaDecode(f, concat, LZMA_FINISH, d, in, 0, room)
    PROVE  o.next.seq = "END"
<1>1. PICK a \in Answers(f, concat, LZMA_FINISH, d, in, 0, room) : o = AfterAnswer(d, LZMA_FINISH, a)
  BY DEF LzmaDecode
<1>2. a.used = 0
  BY DEF Answers
<1>3. StreamEnds(f, concat, LZMA_FINISH, d, 0, a.used)
  <2>1. d.c + 0 = d.c
    BY DEF DecoderState
  <2>. QED  BY <1>2, <2>1 DEF StreamEnds
<1>4. ~DamageFound(f, d, in, 0, a)
  BY DEF DamageFound
<1>5. a.ret = LZMA_STREAM_END
  BY <1>3, <1>4 DEF Answers, EndReached
<1>. QED  BY <1>1, <1>2, <1>5 DEF AfterAnswer, DecoderState, LZMA_OK, LZMA_STREAM_END, LZMA_DATA_ERROR

-----------------------------------------------------------------------------
(* Whatever the encoder is asked, its answer fits the input and the room. *)
EncoderFits(e, n, room, o) ==
    /\ o.used \in 0 .. n
    /\ o.made \in 0 .. room
    /\ o.next \in EncoderState
    /\ o.ret \in LzmaRet

LEMMA EncodeFits ==
    ASSUME NEW e \in EncoderState, NEW action \in {LZMA_RUN, LZMA_FINISH}, NEW in,
           NEW n \in Nat, NEW room \in Nat, NEW most \in Nat,
           NEW o \in LzmaEncode(action, e, in, n, room, most)
    PROVE  EncoderFits(e, n, room, o)
<1>1. CASE \E ret \in LzmaRet : o = Refusal(e, ret)
  BY <1>1 DEF Refusal, EncoderFits
<1>2. CASE \E a \in EncoderAnswers(action, e, n, room, most) :
              o = [AfterAnswer(e, action, a) EXCEPT !.next.faithful = @ /\ Expected(e, in, a.used)]
  <2>1. PICK a \in EncoderAnswers(action, e, n, room, most) :
              o = [AfterAnswer(e, action, a) EXCEPT !.next.faithful = @ /\ Expected(e, in, a.used)]
    BY <1>2
  <2>2. a.used \in 0 .. n /\ a.made \in 0 .. room /\ a.ret \in {LZMA_OK, LZMA_STREAM_END}
    BY DEF EncoderAnswers
  <2>3. /\ o.used = a.used
        /\ o.made = a.made
        /\ o.ret \in {a.ret, LZMA_BUF_ERROR}
        /\ o.next.c = e.c + a.used
        /\ o.next.p = e.p + a.made
    BY <2>1 DEF AfterAnswer, EncoderState
  <2>4. o.next \in EncoderState
    <3>1. e.c + a.used \in Nat /\ e.p + a.made \in Nat
      BY <2>2 DEF EncoderState
    <3>. QED  BY <2>1, <2>2, <3>1 DEF AfterAnswer, EncoderState, LZMA_OK, LZMA_STREAM_END, LZMA_DATA_ERROR
  <2>. QED  BY <2>2, <2>3, <2>4 DEF EncoderFits, LzmaRet
<1>. QED  BY <1>1, <1>2 DEF LzmaEncode, LzmaRet

(* Whatever it was asked before: no stream grows beyond its length, and a call that
   succeeds with room to write to, and something to do, takes or emits a byte. *)
Moved(e, action, n, room, most, o) ==
    /\ o.used \in 0 .. n
    /\ o.made \in 0 .. room
    /\ o.next.p = e.p + o.made
    /\ e.p <= most => e.p + o.made <= most
    /\ o.ret = LZMA_OK /\ room > 0 /\ (n > 0 \/ action = LZMA_FINISH) => o.used > 0 \/ o.made > 0

LEMMA EncodeMoves ==
    ASSUME NEW e \in EncoderState, NEW action \in {LZMA_RUN, LZMA_FINISH}, NEW in,
           NEW n \in Nat, NEW room \in Nat, NEW most \in Nat,
           NEW o \in LzmaEncode(action, e, in, n, room, most)
    PROVE  Moved(e, action, n, room, most, o)
<1>1. e.p \in Nat /\ e.p + 0 = e.p
  BY DEF EncoderState
<1>2. CASE \E ret \in LzmaRet \ {LZMA_OK} : o = Refusal(e, ret)
  BY <1>1, <1>2 DEF Refusal, Moved
<1>3. CASE \E a \in EncoderAnswers(action, e, n, room, most) :
              o = [AfterAnswer(e, action, a) EXCEPT !.next.faithful = @ /\ Expected(e, in, a.used)]
  <2>1. PICK a \in EncoderAnswers(action, e, n, room, most) :
              o = [AfterAnswer(e, action, a) EXCEPT !.next.faithful = @ /\ Expected(e, in, a.used)]
    BY <1>3
  <2>2. /\ a.used \in 0 .. n /\ a.made \in 0 .. room /\ a.ret \in {LZMA_OK, LZMA_STREAM_END}
        /\ e.p + a.made <= most
        /\ a.used < n => a.made = room
        /\ action = LZMA_FINISH /\ a.ret = LZMA_OK => a.made = room
    BY DEF EncoderAnswers
  <2>3. /\ o.used = a.used
        /\ o.made = a.made
        /\ o.ret \in {a.ret, LZMA_BUF_ERROR}
        /\ o.next.p = e.p + a.made
    BY <2>1 DEF AfterAnswer, EncoderState
  <2>4. o.ret = LZMA_OK => a.ret = LZMA_OK
    BY <2>3 DEF LZMA_OK, LZMA_BUF_ERROR
  <2>5. ASSUME a.ret = LZMA_OK, room > 0, n > 0 \/ action = LZMA_FINISH PROVE a.used > 0 \/ a.made > 0
    BY <2>2, <2>5
  <2>. QED  BY <2>2, <2>3, <2>4, <2>5 DEF Moved
<1>. QED  BY <1>2, <1>3 DEF LzmaEncode, LzmaRet, LZMA_OK, LZMA_STREAM_END, LZMA_PROG_ERROR

(* An encoder that has refused nothing so far, offered the next plaintext bytes
   and room to write to, takes them in order and moves on: LZMA_RUN returns LZMA_OK,
   LZMA_FINISH LZMA_OK or, having taken everything, LZMA_STREAM_END. *)
Encoded(e, action, n, o) ==
    /\ o.next.c = e.c + o.used
    /\ o.next.p = e.p + o.made
    /\ o.next.faithful
    /\ ~o.next.stuck
    /\ action = LZMA_RUN => o.ret = LZMA_OK /\ o.next.seq = "RUN"
    /\ action = LZMA_FINISH =>
          \/ o.ret = LZMA_OK /\ o.next.seq = "FINISH"
          \/ o.ret = LZMA_STREAM_END /\ o.next.seq = "END" /\ o.used = n

LEMMA EncodeOnce ==
    ASSUME NEW e \in EncoderState, NEW action \in {LZMA_RUN, LZMA_FINISH}, NEW in,
           NEW n \in Nat, NEW room \in Nat \ {0}, NEW most \in Nat,
           e.seq = "RUN" \/ (e.seq = "FINISH" /\ action = LZMA_FINISH),
           action = LZMA_RUN => n > 0,
           ~e.stuck, e.faithful,
           \A j \in 1 .. n : in[j] = e.c + j,
           NEW o \in LzmaEncode(action, e, in, n, room, most)
    PROVE  Encoded(e, action, n, o)
<1>1. PICK a \in EncoderAnswers(action, e, n, room, most) :
           o = [AfterAnswer(e, action, a) EXCEPT !.next.faithful = @ /\ Expected(e, in, a.used)]
  BY DEF LzmaEncode, LZMA_RUN, LZMA_FINISH
<1>2. a.used \in 0 .. n /\ a.made \in 0 .. room /\ a.ret \in {LZMA_OK, LZMA_STREAM_END}
  BY DEF EncoderAnswers
<1>3. Expected(e, in, a.used)
  BY <1>2 DEF Expected
<1>4. ~(a.ret = LZMA_OK /\ a.used = 0 /\ a.made = 0)
  BY DEF EncoderAnswers, LZMA_RUN, LZMA_FINISH, LZMA_OK, LZMA_STREAM_END
<1>5. /\ o.used = a.used
      /\ o.made = a.made
      /\ o.ret = a.ret
      /\ o.next.c = e.c + a.used
      /\ o.next.p = e.p + a.made
      /\ o.next.stuck = FALSE
      /\ o.next.seq = IF a.ret = LZMA_STREAM_END THEN "END"
                      ELSE IF action = LZMA_FINISH THEN "FINISH" ELSE e.seq
  BY <1>1, <1>2, <1>4 DEF AfterAnswer, EncoderState, LZMA_OK, LZMA_STREAM_END, LZMA_DATA_ERROR
<1>6. o.next.faithful = (e.faithful /\ Expected(e, in, a.used))
  BY <1>1 DEF AfterAnswer, EncoderState
<1>7. /\ action = LZMA_RUN => a.ret = LZMA_OK
      /\ action = LZMA_FINISH /\ a.ret = LZMA_STREAM_END => a.used = n
  BY DEF EncoderAnswers, LZMA_RUN, LZMA_FINISH, LZMA_OK, LZMA_STREAM_END
<1>8. o.next.faithful
  BY <1>3, <1>6
<1>. QED  BY <1>2, <1>5, <1>7, <1>8 DEF Encoded, LZMA_RUN, LZMA_FINISH, LZMA_OK, LZMA_STREAM_END

(* The same with no assumption on what the encoder was asked before, as long as it
   has not ended: where it stands after the call. *)
Turned(e, action, n, room, o) ==
    /\ o.used \in 0 .. n
    /\ o.made \in 0 .. room
    /\ o.next \in EncoderState
    /\ o.next.c = e.c + o.used
    /\ o.next.p = e.p + o.made
    /\ o.next.faithful
    /\ o.next.stuck => o.used = 0 /\ o.made = 0
    /\ \/ /\ o.ret = LZMA_OK
          /\ o.next.seq = IF action = LZMA_FINISH THEN "FINISH" ELSE e.seq
          /\ o.made = room \/ (o.used = n /\ action = LZMA_RUN)
       \/ /\ o.ret = LZMA_BUF_ERROR
          /\ action = LZMA_RUN /\ n = 0 /\ o.made = 0 /\ e.stuck
          /\ o.next.seq = e.seq
       \/ /\ o.ret = LZMA_STREAM_END
          /\ o.next.seq = "END"
          /\ action = LZMA_FINISH /\ o.used = n

LEMMA EncodeTurn ==
    ASSUME NEW e \in EncoderState, NEW action \in {LZMA_RUN, LZMA_FINISH}, NEW in,
           NEW n \in Nat, NEW room \in Nat \ {0}, NEW most \in Nat,
           e.seq = "RUN" \/ (e.seq = "FINISH" /\ action = LZMA_FINISH),
           e.faithful,
           \A j \in 1 .. n : in[j] = e.c + j,
           NEW o \in LzmaEncode(action, e, in, n, room, most)
    PROVE  Turned(e, action, n, room, o)
<1>1. PICK a \in EncoderAnswers(action, e, n, room, most) :
           o = [AfterAnswer(e, action, a) EXCEPT !.next.faithful = @ /\ Expected(e, in, a.used)]
  BY DEF LzmaEncode, LZMA_RUN, LZMA_FINISH
<1>2. a.used \in 0 .. n /\ a.made \in 0 .. room /\ a.ret \in {LZMA_OK, LZMA_STREAM_END}
  BY DEF EncoderAnswers
<1>. DEFINE idle == a.ret = LZMA_OK /\ a.used = 0 /\ a.made = 0
<1>3. /\ o.used = a.used
      /\ o.made = a.made
      /\ o.ret = IF idle /\ e.stuck THEN LZMA_BUF_ERROR ELSE a.ret
  BY <1>1 DEF AfterAnswer
<1>4. /\ o.next.c = e.c + a.used
      /\ o.next.p = e.p + a.made
      /\ o.next.stuck = idle
  BY <1>1 DEF AfterAnswer, EncoderState
<1>5. o.next.seq = IF a.ret = LZMA_STREAM_END THEN "END"
                   ELSE IF action = LZMA_FINISH THEN "FINISH" ELSE e.seq
  BY <1>1, <1>2 DEF AfterAnswer, EncoderState, LZMA_OK, LZMA_STREAM_END, LZMA_DATA_ERROR
<1>6. o.next.faithful = (e.faithful /\ Expected(e, in, a.used))
  BY <1>1 DEF AfterAnswer, EncoderState
<1>7. o.next.faithful
  <2>1. Expected(e, in, a.used)
    BY <1>2 DEF Expected
  <2>. QED  BY <1>6, <2>1
<1>8. o.next \in EncoderState
  BY EncodeFits DEF EncoderFits
<1>9. /\ a.used < n => a.made = room
      /\ action = LZMA_FINISH => IF a.ret = LZMA_OK THEN a.made = room ELSE a.used = n
      /\ action = LZMA_RUN => a.ret = LZMA_OK
  BY DEF EncoderAnswers, LZMA_RUN, LZMA_FINISH
<1>10. CASE a.ret = LZMA_STREAM_END
  <2>1. action = LZMA_FINISH /\ a.used = n /\ ~idle
    BY <1>9, <1>10 DEF LZMA_OK, LZMA_STREAM_END
  <2>. QED  BY <1>2, <1>3, <1>4, <1>5, <1>7, <1>8, <1>10, <2>1 DEF Turned
<1>11. CASE a.ret = LZMA_OK /\ ~(idle /\ e.stuck)
  <2>1. a.made = room \/ (a.used = n /\ action = LZMA_RUN)
    BY <1>2, <1>9, <1>11
  <2>2. o.next.seq = IF action = LZMA_FINISH THEN "FINISH" ELSE e.seq
    BY <1>5, <1>11 DEF LZMA_OK, LZMA_STREAM_END
  <2>. QED  BY <1>2, <1>3, <1>4, <1>7, <1>8, <1>11, <2>1, <2>2 DEF Turned
<1>12. CASE idle /\ e.stuck
  <2>1. action = LZMA_RUN /\ n = 0
    BY <1>2, <1>9, <1>12
  <2>2. o.next.seq = e.seq
    BY <1>5, <1>12, <2>1 DEF LZMA_OK, LZMA_STREAM_END, LZMA_RUN, LZMA_FINISH
  <2>. QED  BY <1>2, <1>3, <1>4, <1>7, <1>8, <1>12, <2>1, <2>2 DEF Turned
<1>. QED  BY <1>2, <1>10, <1>11, <1>12

-----------------------------------------------------------------------------
(* The strings that the incremental coders return: next_out points to their
   next-th byte, behind which room bytes are free. *)

LEMMA BlankSeq ==
    ASSUME NEW k \in Nat
    PROVE  [i \in 1 .. k |-> 0] \in Seq(Nat) /\ Len([i \in 1 .. k |-> 0]) = k
  OBVIOUS

(* A string that grows keeps what it holds. *)
LEMMA GrowString ==
    ASSUME NEW s \in Seq(Nat), NEW k \in Nat
    PROVE  LET grown == s \o [i \in 1 .. k |-> 0]
           IN  /\ grown \in Seq(Nat)
               /\ Len(grown) = Len(s) + k
               /\ \A i \in 1 .. Len(s) : grown[i] = s[i]
<1>. DEFINE b == [i \in 1 .. k |-> 0]
<1>1. b \in Seq(Nat) /\ Len(b) = k
  BY BlankSeq
<1>. HIDE DEF b
<1>2. /\ s \o b \in Seq(Nat)
      /\ Len(s \o b) = Len(s) + Len(b)
      /\ \A i \in 1 .. Len(s) + Len(b) : (s \o b)[i] = IF i <= Len(s) THEN s[i] ELSE b[i - Len(s)]
  BY <1>1, ConcatProperties
<1>3. Len(s) \in Nat
  BY LenProperties
<1>4. \A i \in 1 .. Len(s) : i \in 1 .. Len(s) + Len(b) /\ i <= Len(s)
  BY <1>1, <1>3
<1>. QED  BY <1>1, <1>2, <1>4 DEF b

WrittenAt(out, next, made, p) ==
    [i \in 1 .. Len(out) |-> IF i \in next + 1 .. next + made THEN p + i - next ELSE out[i]]

InOrder(s, n, start) == \A i \in 1 .. n : s[i] = start + i

(* What lzma_code() writes, made bytes behind next_out, the first of which is byte
   p + 1, is in order behind what the string holds already: bytes start + 1 .. p. *)
LEMMA FillString ==
    ASSUME NEW out \in Seq(Nat), NEW next \in Nat, NEW room \in Nat, Len(out) = next + room,
           NEW made \in 0 .. room, NEW p \in Nat, NEW start \in Nat
    PROVE  LET filled == WrittenAt(out, next, made, p)
               built  == SubSeq(filled, 1, next + made)
           IN  /\ filled \in Seq(Nat) /\ Len(filled) = next + room
               /\ built \in Seq(Nat) /\ Len(built) = next + made
               /\ start + next = p /\ InOrder(out, next, start) =>
                     InOrder(filled, next + made, start) /\ InOrder(built, next + made, start)
<1>. DEFINE filled == WrittenAt(out, next, made, p)
            built  == SubSeq(filled, 1, next + made)
<1>1. Len(out) \in Nat /\ next + made \in 0 .. Len(out) /\ made \in Nat
  OBVIOUS
<1>2. ASSUME NEW i \in 1 .. Len(out)
      PROVE  /\ filled[i] = IF i \in next + 1 .. next + made THEN p + i - next ELSE out[i]
             /\ filled[i] \in Nat
  <2>1. out[i] \in Nat
    BY ElementOfSeq
  <2>2. i \in next + 1 .. next + made => p + i - next \in Nat
    BY <1>1
  <2>. QED  BY <2>1, <2>2 DEF WrittenAt
<1>3. filled \in [1 .. Len(out) -> Nat]
  BY <1>2 DEF WrittenAt
<1>4. filled \in Seq(Nat) /\ Len(filled) = Len(out)
  BY <1>1, <1>3, SeqDef
<1>. HIDE DEF filled
<1>5. \A i \in 1 .. next + made : i \in 1 .. Len(out) /\ filled[i] \in Nat
  BY <1>1, <1>2
<1>6. /\ built \in Seq(Nat)
      /\ Len(built) = next + made
      /\ \A i \in 1 .. next + made : built[i] = filled[i]
  <2>1. /\ built \in Seq(Nat)
        /\ Len(built) = IF 1 <= next + made THEN next + made - 1 + 1 ELSE 0
        /\ \A i \in 1 .. next + made - 1 + 1 : built[i] = filled[1 + i - 1]
    BY <1>1, <1>5, SubSeqProperties
  <2>. HIDE DEF built
  <2>2. next + made - 1 + 1 = next + made /\ next + made \in Nat
    BY <1>1
  <2>3. \A i \in 1 .. next + made : 1 + i - 1 = i
    OBVIOUS
  <2>. QED  BY <2>1, <2>2, <2>3
<1>7. ASSUME start + next = p, \A i \in 1 .. next : out[i] = start + i
      PROVE  \A i \in 1 .. next + made : filled[i] = start + i
  <2>. TAKE i \in 1 .. next + made
  <2>1. i \in 1 .. Len(out)
    BY <1>5
  <2>2. CASE i \in next + 1 .. next + made
    <3>1. filled[i] = p + i - next
      BY <1>2, <2>1, <2>2
    <3>2. p + i - next = start + i
      BY <1>7
    <3>. QED  BY <3>1, <3>2
  <2>3. CASE i \in 1 .. next
    <3>1. i \notin next + 1 .. next + made
      BY <2>3
    <3>. QED  BY <1>2, <1>7, <2>1, <2>3, <3>1
  <2>. QED  BY <2>2, <2>3
<1>. HIDE DEF built
<1>8. /\ filled \in Seq(Nat) /\ Len(filled) = next + room
      /\ built \in Seq(Nat) /\ Len(built) = next + made
      /\ start + next = p /\ (\A i \in 1 .. next : out[i] = start + i) =>
            /\ \A i \in 1 .. next + made : filled[i] = start + i
            /\ \A i \in 1 .. next + made : built[i] = start + i
  BY <1>4, <1>6, <1>7
<1>. QED  BY <1>8 DEF built, filled, InOrder

-----------------------------------------------------------------------------
(* The conversions of ZendLong, for every size of the integers involved. *)

LEMMA ModRange == ASSUME NEW a \in Int, NEW n \in Nat \ {0} PROVE a % n \in 0 .. n - 1
  OBVIOUS
LEMMA ModSmall == ASSUME NEW a \in Int, NEW n \in Nat \ {0}, 0 <= a, a < n PROVE a % n = a
  OBVIOUS
LEMMA ModNegative == ASSUME NEW a \in Int, NEW n \in Nat \ {0}, a < 0, 0 <= a + n PROVE a % n = a + n
  OBVIOUS

(* The range of a zend_long: its largest value is about half of LongWord. *)
LEMMA LongRange ==
    /\ ZEND_LONG_MAX \in Nat
    /\ 2 * ZEND_LONG_MAX < LongWord
    /\ 2 * ZEND_LONG_MAX >= LongWord - 3
    /\ \A x \in Long : x \in Int /\ 0 - ZEND_LONG_MAX - 1 <= x /\ x <= ZEND_LONG_MAX
<1>1. ZEND_LONG_MAX \in Nat /\ 2 * ZEND_LONG_MAX < LongWord /\ 2 * ZEND_LONG_MAX >= LongWord - 3
  BY WordAssumption, LongWordAssumption DEF ZEND_LONG_MAX
<1>2. ASSUME NEW x \in Long PROVE x \in Int /\ 0 - ZEND_LONG_MAX - 1 <= x /\ x <= ZEND_LONG_MAX
  <2>. DEFINE m == ZEND_LONG_MAX
  <2>. HIDE DEF m
  <2>1. m \in Nat
    BY <1>1 DEF m
  <2>2. x \in (0 - m) - 1 .. m
    BY DEF Long, m
  <2>3. x \in Int /\ 0 - m - 1 <= x /\ x <= m
    BY <2>1, <2>2
  <2>. QED  BY <2>3 DEF m
<1>. QED  BY <1>1, <1>2

LEMMA Widths == Word \in Nat \ {0} /\ LongWord \in Nat \ {0} /\ Word > 10
  BY WordAssumption, LongWordAssumption

(* A conversion to 32 bits keeps what fits. *)
LEMMA U32Facts ==
    ASSUME NEW x \in Long
    PROVE  U32(x) \in 0 .. Word - 1 /\ (x \in 0 .. Word - 1 => U32(x) = x)
<1>1. x \in Int
  BY LongRange
<1>2. x % Word \in 0 .. Word - 1
  BY <1>1, Widths, ModRange
<1>3. x \in 0 .. Word - 1 => x % Word = x
  BY <1>1, Widths, ModSmall
<1>. QED  BY <1>2, <1>3 DEF U32

(* One to 64 bits keeps what is not negative, and makes the rest large. *)
LEMMA U64Facts ==
    ASSUME NEW x \in Long
    PROVE  /\ U64(x) \in 0 .. LongWord - 1
           /\ x >= 0 => U64(x) = x
           /\ x < 0  => U64(x) = x + LongWord /\ U64(x) >= ZEND_LONG_MAX
           /\ U64(U64(x)) = U64(x)
<1>1. x \in Int /\ x < LongWord /\ 0 <= x + LongWord /\ ZEND_LONG_MAX <= (0 - ZEND_LONG_MAX - 1) + LongWord
  BY LongRange, Widths
<1>2. x % LongWord \in 0 .. LongWord - 1
  BY <1>1, Widths, ModRange
<1>3. x >= 0 => x % LongWord = x
  BY <1>1, Widths, ModSmall
<1>4. x < 0 => x % LongWord = x + LongWord
  BY <1>1, Widths, ModNegative
<1>5. x < 0 => x + LongWord >= ZEND_LONG_MAX
  BY <1>1, LongRange, Widths
<1>6. \A y \in 0 .. LongWord - 1 : y % LongWord = y
  BY Widths, ModSmall
<1>. QED  BY <1>2, <1>3, <1>4, <1>5, <1>6 DEF U64

(* A decoder's limit is the one given, or limits nothing, also when the value is
   converted to uint64_t before. *)
LEMMA MemLimitMeans ==
    ASSUME NEW x \in Long
    PROVE  /\ MemLimit(x) \in 0 .. UINT64_MAX /\ LimitMeans(x, MemLimit(x))
           /\ MemLimit(U64(x)) = MemLimit(x)
<1>1. UINT64_MAX = LongWord - 1 /\ UINT64_MAX \in Nat /\ ZEND_LONG_MAX <= UINT64_MAX
  BY LongRange, Widths DEF UINT64_MAX
<1>2. x \in Int
  BY LongRange
<1>3. MemLimit(x) = IF x = 0 THEN UINT64_MAX ELSE U64(x)
  BY DEF MemLimit
<1>4. MemLimit(U64(x)) = IF U64(x) = 0 THEN UINT64_MAX ELSE U64(x)
  BY U64Facts DEF MemLimit
<1>5. U64(x) = 0 <=> x = 0
  <2>1. 0 - ZEND_LONG_MAX - 1 <= x /\ ZEND_LONG_MAX \in Nat /\ 2 * ZEND_LONG_MAX < LongWord
    BY LongRange
  <2>2. LongWord > 20
    BY WordAssumption, LongWordAssumption
  <2>. DEFINE m == ZEND_LONG_MAX
  <2>. HIDE DEF m
  <2>3. 0 - m - 1 <= x /\ m \in Nat /\ 2 * m < LongWord
    BY <2>1 DEF m
  <2>4. x < 0 => x + LongWord > 0
    BY <1>2, <2>2, <2>3, Widths
  <2>5. x >= 0 \/ x < 0
    BY <1>2
  <2>6. x >= 0 => U64(x) = x
    BY U64Facts
  <2>7. x < 0 => U64(x) = x + LongWord
    BY U64Facts
  <2>. QED  BY <1>2, <2>4, <2>5, <2>6, <2>7, Widths
<1>6. x > 0 => MemLimit(x) = x
  BY <1>2, <1>3, U64Facts
<1>7. x <= 0 => MemLimit(x) >= ZEND_LONG_MAX
  BY <1>1, <1>2, <1>3, U64Facts
<1>. QED  BY <1>1, <1>2, <1>3, <1>4, <1>5, <1>6, <1>7, U64Facts DEF LimitMeans
=============================================================================
