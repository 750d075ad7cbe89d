-------------------------- MODULE XzOneShot_proofs --------------------------
(***************************************************************************)
(* Proofs about XzOneShot: for every string that xzdecode() may be called  *)
(* with, sound, truncated or damaged, and every one for xzencode().        *)
(***************************************************************************)
EXTENDS XzOneShot, Common_proofs

-----------------------------------------------------------------------------
(* The invariant.  The decoder has consumed what avail_in no longer counts, which
   was undamaged, and holds at most what the last byte of it decodes to.  It is
   never stuck: each turn of its loop offers it input and room. *)
Decoding ==
    op = "xzdecode" =>
        /\ dec.c + availIn = file.len
        /\ dec.p <= file.yield[dec.c]
        /\ dec.c > 0 => file.yield[dec.c - 1] <= dec.p
        /\ pc = "run" => dec.seq = "RUN" /\ ~dec.stuck
        /\ pc = "string" => availIn = 0
        /\ pc = "false" => file.len = 0 \/ Damaged(file)
        /\ pc # "false" => \A i \in 1 .. dec.c : file.bytes[i] = i

(* Nor is the encoder, of which LZMA_FINISH is asked once there is no input left. *)
Encoding ==
    op = "xzencode" =>
        /\ enc.c + availIn = plain
        /\ enc.faithful
        /\ pc # "false"
        /\ pc = "run" => ~enc.stuck /\ (enc.seq = "RUN" \/ (enc.seq = "FINISH" /\ availIn = 0))
        /\ pc = "string" => enc.seq = "END" /\ availIn = 0

(* The string: there is always room behind next_out. *)
String ==
    pc # "false" =>
        /\ nextOut = Made
        /\ nextOut + availOut = Len(out)
        /\ InOrder(out, nextOut, 0)
        /\ pc = "run" => availOut > 0
        /\ pc = "string" => availOut = 0

IInv == TypeOK /\ Decoding /\ Encoding /\ String

LEMMA BlankFacts == Blank \in Seq(Nat) /\ Len(Blank) = XZ_BUFFER_SIZE
  BY BlankSeq, BufferAssumption DEF Blank

LEMMA Types ==
    ASSUME IInv
    PROVE  /\ XZ_BUFFER_SIZE \in Nat \ {0} /\ MaxStream \in Nat /\ MaxPlain \in Nat
           /\ availIn \in Nat /\ nextOut \in Nat /\ availOut \in Nat /\ plain \in Nat
           /\ out \in Seq(Nat) /\ Len(out) \in Nat
           /\ dec \in DecoderState /\ dec.c \in Nat /\ dec.p \in Nat
           /\ enc \in EncoderState /\ enc.c \in Nat /\ enc.p \in Nat
           /\ WellFormedFile(file) /\ file.len \in Nat
<1>1. /\ out \in Seq(Nat) /\ Len(out) \in Nat /\ plain \in Nat
      /\ WellFormedFile(file) /\ file.len \in Nat
  BY BoundsAssumption, LenProperties DEF IInv, TypeOK, WellFormedFile
<1>2. availIn \in Nat /\ nextOut \in Nat /\ availOut \in Nat
  BY <1>1, BufferAssumption DEF IInv, TypeOK
<1>. QED  BY <1>1, <1>2, BufferAssumption, BoundsAssumption DEF IInv, TypeOK, DecoderState, EncoderState

\* Part of an amount is used.
LEMMA Used ==
    ASSUME NEW c \in Nat, NEW n \in Nat, NEW used \in 0 .. n, NEW all \in Nat, c + n = all
    PROVE  /\ n - used \in 0 .. all /\ n - used \in 0 .. n
           /\ c + used + (n - used) = all
           /\ used # n => n - used > 0
  OBVIOUS

LEMMA InitIInv == Init => IInv
<1>. SUFFICES ASSUME Init PROVE IInv
  OBVIOUS
<1>. USE DEF Init
<1>1. WellFormedFile(file) /\ file.len \in Nat /\ file.yield[0] = 0
  BY FilesAssumption DEF WellFormedFile
<1>2. dec \in DecoderState /\ dec.seq = "RUN" /\ dec.c = 0 /\ dec.p = 0 /\ ~dec.stuck
  BY DEF NewDecoder, DecoderState
<1>3. enc \in EncoderState /\ enc.seq = "RUN" /\ enc.c = 0 /\ enc.p = 0 /\ enc.faithful /\ ~enc.stuck
  BY DEF NewEncoder, EncoderState
<1>4. out \in Seq(Nat) /\ Len(out) = XZ_BUFFER_SIZE /\ XZ_BUFFER_SIZE \in Nat \ {0}
  BY BlankFacts, BufferAssumption
<1>5. plain \in 0 .. MaxPlain /\ plain \in Nat /\ availIn = IF op = "xzdecode" THEN file.len ELSE plain
  BY BoundsAssumption
<1>6. TypeOK
  <2>1. availIn \in 0 .. (IF op = "xzdecode" THEN file.len ELSE plain)
    BY <1>1, <1>5
  <2>2. nextOut \in 0 .. Len(out) /\ availOut \in 0 .. XZ_BUFFER_SIZE
    BY <1>4
  <2>. QED  BY <1>1, <1>2, <1>3, <1>4, <1>5, <2>1, <2>2 DEF TypeOK
<1>7. Decoding
  BY <1>1, <1>2 DEF Decoding
<1>8. Encoding
  BY <1>3, <1>5 DEF Encoding
<1>9. String
  BY <1>2, <1>3, <1>4 DEF String, Made, InOrder
<1>. QED  BY <1>6, <1>7, <1>8, <1>9 DEF IInv

-----------------------------------------------------------------------------
(* The string. *)

\* One that grows, by the made bytes of a turn.
LEMMA Grown ==
    ASSUME IInv, pc = "run", NEW made \in 0 .. availOut, Grow(Made, made)
    PROVE  /\ out' \in Seq(Nat) /\ nextOut' \in 0 .. Len(out')
           /\ availOut' \in 0 .. XZ_BUFFER_SIZE /\ availOut' > 0
           /\ nextOut' = Made + made /\ nextOut' + availOut' = Len(out')
           /\ InOrder(out', nextOut', 0)
<1>. DEFINE filled == WrittenAt(out, nextOut, made, Made)
<1>1. /\ nextOut = Made /\ Len(out) = nextOut + availOut /\ InOrder(out, nextOut, 0)
      /\ availOut > 0 /\ availOut <= XZ_BUFFER_SIZE
  BY BufferAssumption DEF IInv, String, TypeOK
<1>2. Made \in Nat /\ 0 + nextOut = Made /\ made \in Nat /\ 0 \in Nat
  BY <1>1, Types
<1>3. /\ filled \in Seq(Nat) /\ Len(filled) = nextOut + availOut
      /\ InOrder(filled, nextOut + made, 0)
  <2>1. /\ out \in Seq(Nat) /\ nextOut \in Nat /\ availOut \in Nat /\ Made \in Nat /\ 0 \in Nat
        /\ Len(out) = nextOut + availOut /\ made \in 0 .. availOut
    BY <1>1, <1>2, Types
  <2>2. LET s == WrittenAt(out, nextOut, made, Made)
            t == SubSeq(s, 1, nextOut + made)
        IN  /\ s \in Seq(Nat) /\ Len(s) = nextOut + availOut
            /\ t \in Seq(Nat) /\ Len(t) = nextOut + made
            /\ 0 + nextOut = Made /\ InOrder(out, nextOut, 0) =>
                  InOrder(s, nextOut + made, 0) /\ InOrder(t, nextOut + made, 0)
    BY <2>1, FillString
  <2>. QED  BY <1>1, <1>2, <2>2, Zenon
<1>4. IF Full(made)
      THEN Extend(filled)
      ELSE out' = filled /\ nextOut' = nextOut + made /\ availOut' = availOut - made
  BY DEF Grow, WrittenAt
<1>. HIDE DEF filled
<1>5. CASE Full(made)
  <2>1. out' = filled \o Blank /\ nextOut' = Len(filled) /\ availOut' = XZ_BUFFER_SIZE
    BY <1>4, <1>5 DEF Extend
  <2>2. Len(filled) = nextOut + made
    BY <1>3, <1>5 DEF Full
  <2>3. /\ out' \in Seq(Nat) /\ Len(out') = nextOut + made + XZ_BUFFER_SIZE
        /\ \A i \in 1 .. nextOut + made : out'[i] = filled[i]
    BY <1>3, <2>1, <2>2, GrowString, Types DEF Blank
  <2>4. InOrder(out', nextOut + made, 0)
    BY <1>3, <2>3 DEF InOrder
  <2>5. nextOut' = nextOut + made /\ Len(out') \in Nat /\ nextOut' \in Nat
    BY <1>2, <2>1, <2>2, <2>3, Types
  <2>6. nextOut' + availOut' = Len(out') /\ nextOut' \in 0 .. Len(out')
    BY <2>1, <2>3, <2>5, Types
  <2>7. availOut' \in 0 .. XZ_BUFFER_SIZE /\ availOut' > 0
    BY <2>1, Types
  <2>8. InOrder(out', nextOut', 0)
    BY <2>4, <2>5
  <2>. QED  BY <1>1, <2>3, <2>5, <2>6, <2>7, <2>8
<1>6. CASE ~Full(made)
  <2>1. out' = filled /\ nextOut' = nextOut + made /\ availOut' = availOut - made
    BY <1>4, <1>6
  <2>2. availOut - made > 0 /\ availOut - made \in 0 .. XZ_BUFFER_SIZE
    <3>1. availOut - made > 0 /\ availOut - made \in 0 .. availOut
      BY <1>6, Types, Used DEF Full
    <3>. QED  BY <1>1, <3>1, Types
  <2>3. nextOut + made + (availOut - made) = nextOut + availOut /\ nextOut + made \in 0 .. nextOut + availOut
    BY <1>2, <2>2, Types
  <2>4. out' \in Seq(Nat) /\ Len(out') = nextOut + availOut /\ InOrder(out', nextOut', 0)
    BY <1>3, <2>1
  <2>. QED  BY <1>1, <2>1, <2>2, <2>3, <2>4
<1>. QED  BY <1>5, <1>6

\* One that is cut to what it holds.
LEMMA Cut ==
    ASSUME NEW s \in Seq(Nat), NEW n \in 0 .. Len(s)
    PROVE  /\ SubSeq(s, 1, n) \in Seq(Nat)
           /\ Len(SubSeq(s, 1, n)) = n
           /\ \A i \in 1 .. n : SubSeq(s, 1, n)[i] = s[i]
<1>1. Len(s) \in Nat /\ n \in Nat
  BY LenProperties
<1>2. \A i \in 1 .. n : i \in 1 .. Len(s) /\ s[i] \in Nat
  BY <1>1, ElementOfSeq
<1>. DEFINE built == SubSeq(s, 1, n)
<1>3. /\ built \in Seq(Nat)
      /\ Len(built) = IF 1 <= n THEN n - 1 + 1 ELSE 0
      /\ \A i \in 1 .. n - 1 + 1 : built[i] = s[1 + i - 1]
  BY <1>1, <1>2, SubSeqProperties
<1>. HIDE DEF built
<1>4. n - 1 + 1 = n /\ \A i \in 1 .. n : 1 + i - 1 = i
  BY <1>1
<1>5. built \in Seq(Nat) /\ Len(built) = n /\ \A i \in 1 .. n : built[i] = s[i]
  BY <1>1, <1>3, <1>4
<1>. QED  BY <1>5 DEF built

-----------------------------------------------------------------------------
(* xzdecode() *)

Input == [j \in 1 .. availIn |-> file.bytes[file.len - availIn + j]]

\* What one call of lzma_code() does in the loop.
LEMMA DecodeTurn ==
    ASSUME IInv, pc = "run", op = "xzdecode", MoreInput,
           NEW o \in LzmaDecode(file, TRUE, LZMA_RUN, dec, Input, availIn, availOut)
    PROVE  /\ Ran(file, dec, availIn, availOut, o)
           /\ o.ret \in {LZMA_OK, LZMA_BUF_ERROR, LZMA_DATA_ERROR, LZMA_STREAM_END}
           /\ Accepted(o.ret) =>
                 /\ o.next.seq = "RUN" /\ ~o.next.stuck
                 /\ \A i \in 1 .. o.next.c : file.bytes[i] = i
           /\ ~Accepted(o.ret) => Damaged(file)
<1>1. /\ dec.c + availIn = file.len /\ dec.p <= file.yield[dec.c]
      /\ dec.c > 0 => file.yield[dec.c - 1] <= dec.p
      /\ dec.seq = "RUN" /\ ~dec.stuck
      /\ \A i \in 1 .. dec.c : file.bytes[i] = i
      /\ availOut > 0 /\ availIn > 0
  BY DEF IInv, Decoding, String, MoreInput
<1>2. \A j \in 1 .. availIn : Input[j] = file.bytes[dec.c + j]
  <2>1. file.len - availIn = dec.c
    BY <1>1, Types
  <2>. QED  BY <2>1 DEF Input
<1>3. Ran(file, dec, availIn, availOut, o)
  <2>1. Offered(file, dec, Input, availIn)
    BY <1>1, <1>2, Types DEF Offered
  <2>. QED  BY <2>1, Types, RunOnce
<1>4. Decoded(file, TRUE, LZMA_RUN, dec, availIn, availOut, o)
  <2>1. Fed(file, TRUE, LZMA_RUN, dec, Input, availIn)
    BY <1>1, <1>2, Types DEF Fed
  <2>2. availOut \in Nat \ {0}
    BY <1>1, Types
  <2>. QED  BY <2>1, <2>2, DecodeOnce
<1>5. o.ret = LZMA_OK => Expected(dec, Input, o.used)
  <2>. SUFFICES ASSUME o.ret = LZMA_OK PROVE Expected(dec, Input, o.used)
    OBVIOUS
  <2>1. PICK a \in Answers(file, TRUE, LZMA_RUN, dec, Input, availIn, availOut) : o = AfterAnswer(dec, LZMA_RUN, a)
    BY <1>1 DEF LzmaDecode, LZMA_RUN, LZMA_FINISH
  <2>2. o.ret = a.ret /\ o.used = a.used
    BY <1>1, <2>1 DEF AfterAnswer
  <2>. QED  BY <2>1, <2>2 DEF Answers, RoomExhausted, InputExhausted, EndReached, DamageFound,
                              LZMA_OK, LZMA_STREAM_END, LZMA_DATA_ERROR
<1>6. o.ret # LZMA_STREAM_END
  BY <1>3, <1>4 DEF Ran, Decoded, LZMA_OK, LZMA_STREAM_END, LZMA_BUF_ERROR, LZMA_DATA_ERROR
<1>7. o.ret \in {LZMA_OK, LZMA_BUF_ERROR, LZMA_DATA_ERROR, LZMA_STREAM_END}
  BY <1>4 DEF Decoded
<1>8. ASSUME Accepted(o.ret)
      PROVE  /\ o.next.seq = "RUN" /\ ~o.next.stuck
             /\ \A i \in 1 .. o.next.c : file.bytes[i] = i
  <2>1. o.ret = LZMA_OK
    BY <1>6, <1>8 DEF Accepted
  <2>2. o.next.seq = "RUN"
    BY <1>1, <1>4, <2>1 DEF Decoded, GoesOn, LZMA_OK, LZMA_STREAM_END, LZMA_BUF_ERROR, LZMA_DATA_ERROR, LZMA_RUN, LZMA_FINISH
  <2>3. ~o.next.stuck
    <3>1. o.next.stuck => availIn = 0
      BY <1>1, <1>3 DEF Ran
    <3>. QED  BY <1>1, <3>1
  <2>4. ASSUME NEW i \in 1 .. o.next.c PROVE file.bytes[i] = i
    <3>1. o.next.c = dec.c + o.used /\ o.used \in 0 .. availIn
      BY <1>3 DEF Ran
    <3>2. CASE i <= dec.c
      BY <1>1, <3>2, Types
    <3>3. CASE i > dec.c
      <4>. DEFINE j == i - dec.c
      <4>1. i \in Int /\ i <= dec.c + o.used /\ o.used \in Int /\ o.used <= availIn
        BY <3>1, Types
      <4>2. j \in Int /\ 1 <= j /\ j <= o.used /\ j <= availIn /\ dec.c + j = i
        <5>1. dec.c \in Int /\ availIn \in Int
          BY Types
        <5>. QED  BY <3>3, <4>1, <5>1
      <4>3. j \in 1 .. o.used /\ j \in 1 .. availIn
        BY <4>1, <4>2, Types
      <4>4. Input[j] = dec.c + j
        BY <1>5, <2>1, <4>3 DEF Expected
      <4>. QED  BY <1>2, <4>2, <4>3, <4>4
    <3>. QED  BY <3>2, <3>3, <3>1, Types
  <2>. QED  BY <2>2, <2>3, <2>4
<1>9. ~Accepted(o.ret) => Damaged(file)
  BY <1>1, <1>3 DEF Ran, Accepted
<1>. QED  BY <1>3, <1>7, <1>8, <1>9

LEMMA DecodeRunIInv ==
    ASSUME IInv, DecodeRun
    PROVE  IInv'
<1>1. pc = "run" /\ op = "xzdecode" /\ MoreInput /\ UNCHANGED <<argument, enc>>
  BY DEF DecodeRun
<1>2. PICK o \in LzmaDecode(file, TRUE, LZMA_RUN, dec, Input, availIn, availOut) :
         /\ dec' = o.next
         /\ availIn' = availIn - o.used
         /\ IF Accepted(o.ret) THEN Grow(dec.p, o.made) /\ UNCHANGED pc ELSE Fail
  BY DEF DecodeRun, Input
<1>3. /\ o.used \in 0 .. availIn /\ o.made \in 0 .. availOut
      /\ o.next \in DecoderState /\ o.next.c = dec.c + o.used /\ o.next.p = dec.p + o.made
      /\ o.next.p <= file.yield[o.next.c]
      /\ o.next.c > 0 => file.yield[o.next.c - 1] <= o.next.p
  BY <1>1, <1>2, DecodeTurn DEF Ran
<1>4. dec.c + availIn = file.len /\ Made = dec.p
  BY <1>1 DEF IInv, Decoding, Made
<1>5. /\ o.next.c + availIn' = file.len
      /\ availIn' \in 0 .. file.len
  <2>1. /\ dec.c \in Nat /\ availIn \in Nat /\ o.used \in 0 .. availIn /\ file.len \in Nat
        /\ dec.c + availIn = file.len
    BY <1>3, <1>4, Types
  <2>2. dec.c + o.used + (availIn - o.used) = file.len /\ availIn - o.used \in 0 .. file.len
    BY <2>1, Used
  <2>. QED  BY <1>2, <1>3, <2>2
<1>6. Encoding'
  BY <1>1 DEF argument, Encoding
<1>7. CASE Accepted(o.ret)
  <2>1. /\ o.next.seq = "RUN" /\ ~o.next.stuck
        /\ \A i \in 1 .. o.next.c : file.bytes[i] = i
    BY <1>1, <1>2, <1>7, DecodeTurn
  <2>2. Grow(Made, o.made) /\ pc' = pc
    BY <1>2, <1>4, <1>7
  <2>3. /\ out' \in Seq(Nat) /\ nextOut' \in 0 .. Len(out')
        /\ availOut' \in 0 .. XZ_BUFFER_SIZE /\ availOut' > 0
        /\ nextOut' = Made + o.made /\ nextOut' + availOut' = Len(out')
        /\ InOrder(out', nextOut', 0)
    BY <1>1, <1>3, <2>2, Grown
  <2>4. TypeOK'
    BY <1>1, <1>2, <1>3, <1>5, <2>2, <2>3 DEF argument, IInv, TypeOK
  <2>5. Decoding'
    BY <1>1, <1>2, <1>3, <1>5, <2>1, <2>2 DEF argument, Decoding
  <2>6. String'
    BY <1>1, <1>2, <1>3, <1>4, <2>2, <2>3 DEF argument, String, Made
  <2>. QED  BY <1>6, <2>4, <2>5, <2>6 DEF IInv
<1>8. CASE ~Accepted(o.ret)
  <2>1. pc' = "false" /\ UNCHANGED <<out, nextOut, availOut>>
    BY <1>2, <1>8 DEF Fail
  <2>2. Damaged(file)
    BY <1>1, <1>2, <1>8, DecodeTurn
  <2>3. TypeOK'
    BY <1>1, <1>2, <1>3, <1>5, <2>1 DEF argument, IInv, TypeOK
  <2>4. Decoding'
    BY <1>1, <1>2, <1>3, <1>5, <2>1, <2>2 DEF argument, Decoding
  <2>5. String'
    BY <2>1 DEF String
  <2>. QED  BY <1>6, <2>3, <2>4, <2>5 DEF IInv
<1>. QED  BY <1>7, <1>8

LEMMA DecodeEndIInv ==
    ASSUME IInv, DecodeEnd
    PROVE  IInv'
<1>1. /\ pc = "run" /\ op = "xzdecode" /\ ~MoreInput /\ pc' = "string"
      /\ out' = SubSeq(out, 1, Len(out) - availOut) /\ nextOut' = Len(out) - availOut /\ availOut' = 0
      /\ UNCHANGED <<argument, dec, enc, availIn>>
  BY DEF DecodeEnd, Return
<1>2. nextOut = dec.p /\ nextOut + availOut = Len(out) /\ InOrder(out, nextOut, 0) /\ availIn = 0
  BY <1>1, Types DEF IInv, String, Made, MoreInput
<1>3. Len(out) - availOut = nextOut /\ nextOut \in 0 .. Len(out)
  BY <1>2, Types
<1>4. out' \in Seq(Nat) /\ Len(out') = nextOut /\ \A i \in 1 .. nextOut : out'[i] = out[i]
  BY <1>1, <1>3, Types, Cut
<1>5. TypeOK'
  <2>1. nextOut' \in 0 .. Len(out') /\ availOut' \in 0 .. XZ_BUFFER_SIZE
    BY <1>1, <1>3, <1>4, Types
  <2>. QED  BY <1>1, <1>4, <2>1 DEF argument, IInv, TypeOK
<1>6. Decoding'
  BY <1>1, <1>2 DEF argument, IInv, Decoding
<1>7. Encoding'
  BY <1>1 DEF argument, Encoding
<1>8. String'
  <2>1. nextOut' = nextOut /\ nextOut' + availOut' = Len(out')
    BY <1>1, <1>3, <1>4, Types
  <2>2. InOrder(out', nextOut', 0)
    BY <1>2, <1>4, <2>1 DEF InOrder
  <2>. QED  BY <1>1, <1>2, <2>1, <2>2 DEF argument, String, Made
<1>. QED  BY <1>5, <1>6, <1>7, <1>8 DEF IInv

-----------------------------------------------------------------------------
(* xzencode() *)

Offer == [j \in 1 .. availIn |-> plain - availIn + j]

LEMMA EncodeOffer ==
    ASSUME IInv, pc = "run", op = "xzencode", NEW action \in {LZMA_RUN, LZMA_FINISH},
           MoreInput <=> action = LZMA_RUN,
           NEW o \in LzmaEncode(action, enc, Offer, availIn, availOut, MaxStream)
    PROVE  EncoderFits(enc, availIn, availOut, o) /\ Encoded(enc, action, availIn, o)
<1>1. /\ enc.c + availIn = plain /\ enc.faithful /\ ~enc.stuck /\ availOut > 0
      /\ enc.seq = "RUN" \/ (enc.seq = "FINISH" /\ availIn = 0)
  BY DEF IInv, Encoding, String
<1>2. (availIn > 0 <=> action = LZMA_RUN) /\ availOut \in Nat \ {0}
  BY <1>1, Types DEF MoreInput
<1>3. EncoderFits(enc, availIn, availOut, o)
  BY Types, EncodeFits
<1>4. \A j \in 1 .. availIn : Offer[j] = enc.c + j
  <2>1. plain - availIn = enc.c
    BY <1>1, Types
  <2>. QED  BY <2>1 DEF Offer
<1>5. enc.seq = "RUN" \/ (enc.seq = "FINISH" /\ action = LZMA_FINISH)
  BY <1>1, <1>2 DEF LZMA_RUN, LZMA_FINISH
<1>. QED  BY <1>1, <1>2, <1>3, <1>4, <1>5, Types, EncodeOnce

LEMMA EncodeRunIInv ==
    ASSUME IInv, EncodeRun
    PROVE  IInv'
<1>1. pc = "run" /\ op = "xzencode" /\ MoreInput /\ UNCHANGED <<argument, dec>>
  BY DEF EncodeRun
<1>2. PICK o \in LzmaEncode(LZMA_RUN, enc, Offer, availIn, availOut, MaxStream) :
         /\ enc' = o.next
         /\ availIn' = availIn - o.used
         /\ IF o.ret = LZMA_OK THEN Grow(enc.p, o.made) /\ UNCHANGED pc ELSE Fail
  BY DEF EncodeRun, Encode, Offer
<1>3. /\ o.used \in 0 .. availIn /\ o.made \in 0 .. availOut /\ o.next \in EncoderState
      /\ o.next.c = enc.c + o.used /\ o.next.p = enc.p + o.made
      /\ o.next.faithful /\ ~o.next.stuck
      /\ o.ret = LZMA_OK /\ o.next.seq = "RUN"
  BY <1>1, <1>2, EncodeOffer DEF EncoderFits, Encoded
<1>4. enc.c + availIn = plain /\ Made = enc.p
  BY <1>1 DEF IInv, Encoding, Made
<1>5. o.next.c + availIn' = plain /\ availIn' \in 0 .. plain
  <2>1. /\ enc.c \in Nat /\ availIn \in Nat /\ o.used \in 0 .. availIn /\ plain \in Nat
        /\ enc.c + availIn = plain
    BY <1>3, <1>4, Types
  <2>2. enc.c + o.used + (availIn - o.used) = plain /\ availIn - o.used \in 0 .. plain
    BY <2>1, Used
  <2>. QED  BY <1>2, <1>3, <2>2
<1>6. Grow(Made, o.made) /\ pc' = pc
  BY <1>2, <1>3, <1>4
<1>7. /\ out' \in Seq(Nat) /\ nextOut' \in 0 .. Len(out')
      /\ availOut' \in 0 .. XZ_BUFFER_SIZE /\ availOut' > 0
      /\ nextOut' = Made + o.made /\ nextOut' + availOut' = Len(out')
      /\ InOrder(out', nextOut', 0)
  BY <1>1, <1>3, <1>6, Grown
<1>8. TypeOK'
  BY <1>1, <1>2, <1>3, <1>5, <1>6, <1>7 DEF argument, IInv, TypeOK
<1>9. Decoding'
  BY <1>1 DEF argument, Decoding
<1>10. Encoding'
  BY <1>1, <1>2, <1>3, <1>5, <1>6 DEF argument, Encoding
<1>11. String'
  BY <1>1, <1>2, <1>3, <1>4, <1>6, <1>7 DEF argument, String, Made
<1>. QED  BY <1>8, <1>9, <1>10, <1>11 DEF IInv

LEMMA EncodeFinishIInv ==
    ASSUME IInv, EncodeFinish
    PROVE  IInv'
<1>1. pc = "run" /\ op = "xzencode" /\ ~MoreInput /\ UNCHANGED <<argument, dec, availIn>>
  BY DEF EncodeFinish
<1>. DEFINE Last(made) == [i \in 1 .. nextOut + made |-> IF i <= nextOut THEN out[i] ELSE enc.p + i - nextOut]
<1>2. PICK o \in LzmaEncode(LZMA_FINISH, enc, Offer, availIn, availOut, MaxStream) :
         /\ enc' = o.next
         /\ IF ~Accepted(o.ret) THEN Fail
            ELSE IF StreamComplete(o.ret)
            THEN pc' = "string" /\ nextOut' = nextOut + o.made /\ availOut' = 0 /\ out' = Last(o.made)
            ELSE Grow(enc.p, o.made) /\ UNCHANGED pc
  BY DEF EncodeFinish, Encode, Offer
<1>3. /\ o.used \in 0 .. availIn /\ o.made \in 0 .. availOut /\ o.next \in EncoderState
      /\ o.next.c = enc.c + o.used /\ o.next.p = enc.p + o.made
      /\ o.next.faithful /\ ~o.next.stuck
      /\ \/ o.ret = LZMA_OK /\ o.next.seq = "FINISH"
         \/ o.ret = LZMA_STREAM_END /\ o.next.seq = "END"
  <2>1. LZMA_FINISH # LZMA_RUN
    BY DEF LZMA_RUN, LZMA_FINISH
  <2>. QED  BY <1>1, <1>2, <2>1, EncodeOffer DEF EncoderFits, Encoded
<1>4. enc.c + availIn = plain /\ Made = enc.p /\ availIn = 0
  BY <1>1, Types DEF IInv, Encoding, Made, MoreInput
<1>5. o.used = 0 /\ o.next.c + availIn = plain
  BY <1>3, <1>4, Types
<1>6. Decoding'
  BY <1>1 DEF argument, Decoding
<1>7. CASE o.ret = LZMA_OK
  <2>1. Grow(Made, o.made) /\ pc' = pc /\ o.next.seq = "FINISH"
    BY <1>2, <1>3, <1>4, <1>7 DEF Accepted, StreamComplete, LZMA_OK, LZMA_STREAM_END
  <2>2. /\ out' \in Seq(Nat) /\ nextOut' \in 0 .. Len(out')
        /\ availOut' \in 0 .. XZ_BUFFER_SIZE /\ availOut' > 0
        /\ nextOut' = Made + o.made /\ nextOut' + availOut' = Len(out')
        /\ InOrder(out', nextOut', 0)
    BY <1>1, <1>3, <2>1, Grown
  <2>3. TypeOK'
    BY <1>1, <1>2, <1>3, <2>1, <2>2 DEF argument, IInv, TypeOK
  <2>4. Encoding'
    BY <1>1, <1>2, <1>3, <1>4, <1>5, <2>1 DEF argument, Encoding
  <2>5. String'
    BY <1>1, <1>2, <1>3, <1>4, <2>1, <2>2 DEF argument, String, Made
  <2>. QED  BY <1>6, <2>3, <2>4, <2>5 DEF IInv
<1>8. CASE o.ret = LZMA_STREAM_END
  <2>1. /\ pc' = "string" /\ nextOut' = nextOut + o.made /\ availOut' = 0 /\ out' = Last(o.made)
        /\ o.next.seq = "END"
    BY <1>2, <1>3, <1>8 DEF Accepted, StreamComplete, LZMA_OK, LZMA_STREAM_END
  <2>2. /\ nextOut = enc.p /\ nextOut + availOut = Len(out) /\ InOrder(out, nextOut, 0)
        /\ o.made \in Nat /\ nextOut + o.made \in Nat
    BY <1>1, <1>3, <1>4, Types DEF IInv, String
  <2>3. ASSUME NEW i \in 1 .. nextOut + o.made
        PROVE  Last(o.made)[i] = i /\ Last(o.made)[i] \in Nat
    <3>1. CASE i <= nextOut
      <4>1. Last(o.made)[i] = out[i]
        BY <3>1
      <4>2. i \in 1 .. nextOut
        BY <2>2, <3>1, Types
      <4>. QED  BY <2>2, <4>1, <4>2 DEF InOrder
    <3>2. CASE ~(i <= nextOut)
      <4>1. Last(o.made)[i] = enc.p + i - nextOut
        BY <3>2
      <4>2. enc.p + i - nextOut = i /\ i \in Nat
        BY <2>2, Types
      <4>. QED  BY <4>1, <4>2
    <3>. QED  BY <3>1, <3>2
  <2>4. Last(o.made) \in Seq(Nat) /\ Len(Last(o.made)) = nextOut + o.made
    <3>1. Last(o.made) \in [1 .. nextOut + o.made -> Nat]
      BY <2>3
    <3>. QED  BY <2>2, <3>1, SeqDef
  <2>. HIDE DEF Last
  <2>5. TypeOK'
    <3>1. nextOut' \in 0 .. Len(out') /\ availOut' \in 0 .. XZ_BUFFER_SIZE
      BY <2>1, <2>2, <2>4, Types
    <3>. QED  BY <1>1, <1>2, <1>3, <2>1, <2>4, <3>1 DEF argument, IInv, TypeOK
  <2>6. Encoding'
    BY <1>1, <1>2, <1>3, <1>4, <1>5, <2>1 DEF argument, Encoding
  <2>7. String'
    <3>1. InOrder(out', nextOut', 0)
      BY <2>1, <2>3 DEF InOrder
    <3>2. nextOut' = Made' /\ nextOut' + availOut' = Len(out')
      BY <1>1, <1>2, <1>3, <2>1, <2>2, <2>4 DEF argument, Made
    <3>. QED  BY <2>1, <3>1, <3>2 DEF String
  <2>. QED  BY <1>6, <2>5, <2>6, <2>7 DEF IInv
<1>. QED  BY <1>3, <1>7, <1>8

LEMMA NextIInv == IInv /\ [Next]_vars => IInv'
<1>. SUFFICES ASSUME IInv, [Next]_vars PROVE IInv'
  OBVIOUS
<1>1. CASE UNCHANGED vars
  BY <1>1 DEF vars, argument, IInv, TypeOK, Decoding, Encoding, String, Made
<1>. QED  BY <1>1, DecodeRunIInv, DecodeEndIInv, EncodeRunIInv, EncodeFinishIInv DEF Next

LEMMA SpecIInv == Spec => []IInv
  BY InitIInv, NextIInv, PTL DEF Spec

-----------------------------------------------------------------------------
(* The string holds what has been emitted, in order, wherever it had to grow
   (src/xz_decode.c:48-53, src/xz_encode.c:61-66 and 77-84). *)
THEOREM StringInOrder == Spec => []OutInOrder
<1>1. IInv => OutInOrder
  <2>. SUFFICES ASSUME IInv, pc # "false"
                PROVE  /\ nextOut = Made
                       /\ \A i \in 1 .. nextOut : out[i] = i
                       /\ Len(out) - availOut = nextOut
    BY DEF OutInOrder
  <2>1. nextOut = Made /\ nextOut + availOut = Len(out) /\ InOrder(out, nextOut, 0)
    BY DEF IInv, String
  <2>2. \A i \in 1 .. nextOut : out[i] = i
    BY <2>1, Types DEF InOrder
  <2>. QED  BY <2>1, <2>2, Types
<1>. QED  BY <1>1, SpecIInv, PTL

(* A whole, undamaged file is decoded to its last byte, although the loop stops with
   its input (src/xz_decode.c:41). *)
THEOREM WholeFileDecoded == Spec => []SoundFileDecoded
<1>1. IInv => SoundFileDecoded
  <2>. SUFFICES ASSUME IInv, op = "xzdecode", file.len > 0, Sound(file)
                PROVE  /\ pc # "false"
                       /\ pc = "string" => Len(out) = file.yield[file.len]
    BY DEF SoundFileDecoded
  <2>1. pc # "false"
    BY Types DEF IInv, Decoding, Sound
  <2>2. ASSUME pc = "string" PROVE Len(out) = file.yield[file.len]
    <3>1. dec.c + availIn = file.len /\ availIn = 0
      BY <2>2 DEF IInv, Decoding
    <3>2. dec.c = file.len
      BY <3>1, Types
    <3>3. dec.p <= file.yield[file.len] /\ file.yield[file.len - 1] <= dec.p
      BY <3>2 DEF IInv, Decoding
    <3>4. file.yield[file.len - 1] = file.yield[file.len] /\ file.yield[file.len] \in Nat
      BY Types DEF Sound, Whole, WellFormedFile
    <3>5. nextOut = dec.p /\ nextOut + availOut = Len(out)
      BY <2>2 DEF IInv, String, Made
    <3>6. availOut = 0
      BY <2>2 DEF IInv, String
    <3>. QED  BY <3>3, <3>4, <3>5, <3>6, Types
  <2>. QED  BY <2>1, <2>2
<1>. QED  BY <1>1, SpecIInv, PTL

(* Damage is never returned as a string, not even in the last byte
   (src/xz_decode.c:43). *)
THEOREM DamageNotDecoded == Spec => []DamageReported
<1>1. IInv => DamageReported
  <2>. SUFFICES ASSUME IInv, op = "xzdecode", Damaged(file), pc = "string" PROVE FALSE
    BY DEF DamageReported
  <2>1. dec.c + availIn = file.len /\ availIn = 0 /\ \A i \in 1 .. dec.c : file.bytes[i] = i
    BY DEF IInv, Decoding
  <2>2. dec.c = file.len
    BY <2>1, Types
  <2>. QED  BY <2>1, <2>2 DEF Damaged
<1>. QED  BY <1>1, SpecIInv, PTL

(* xzencode() returns a complete stream of its argument (src/xz_encode.c:54-92). *)
THEOREM WholeStringEncoded == Spec => []EncodedWhole
<1>1. IInv => EncodedWhole
  <2>. SUFFICES ASSUME IInv, op = "xzencode"
                PROVE  /\ pc # "false"
                       /\ pc = "string" => enc.seq = "END" /\ enc.c = plain /\ enc.faithful
    BY DEF EncodedWhole
  <2>1. /\ enc.c + availIn = plain /\ enc.faithful /\ pc # "false"
        /\ pc = "string" => enc.seq = "END" /\ availIn = 0
    BY DEF IInv, Encoding
  <2>2. availIn = 0 => enc.c = plain
    BY <2>1, Types
  <2>. QED  BY <2>1, <2>2
<1>. QED  BY <1>1, SpecIInv, PTL
-----------------------------------------------------------------------------
(* Both functions return.  A turn of a loop that is not the last uses up a byte of the
   input or of the output still to come. *)

StreamBounded == enc.p <= MaxStream

OutputLeft == IF op = "xzdecode" THEN file.yield[file.len] - dec.p ELSE MaxStream - enc.p

StepsLeft == availIn + OutputLeft + (IF pc = "run" THEN 1 ELSE 0)

LEMMA StepsAreCounted ==
    ASSUME IInv, StreamBounded
    PROVE  OutputLeft \in Nat /\ StepsLeft \in Nat
<1>1. CASE op = "xzdecode"
  <2>1. dec.c + availIn = file.len /\ dec.p <= file.yield[dec.c]
    BY <1>1 DEF IInv, Decoding
  <2>2. dec.c \in 0 .. file.len /\ file.len \in 0 .. file.len /\ dec.c <= file.len
    BY <2>1, Types
  <2>3. file.yield[dec.c] \in Nat /\ file.yield[file.len] \in Nat
    BY <2>2, Types DEF WellFormedFile
  <2>4. file.yield[dec.c] <= file.yield[file.len]
    BY <2>2, Types, YieldMonotone
  <2>5. OutputLeft \in Nat
    <3>1. dec.p \in Nat /\ dec.p <= file.yield[file.len]
      BY <2>1, <2>3, <2>4, Types
    <3>2. OutputLeft = file.yield[file.len] - dec.p
      BY <1>1 DEF OutputLeft
    <3>. QED  BY <2>3, <3>1, <3>2
  <2>. QED  BY <2>5, Types DEF StepsLeft
<1>2. CASE op # "xzdecode"
  <2>1. OutputLeft \in Nat
    BY <1>2, Types DEF OutputLeft, StreamBounded
  <2>. QED  BY <2>1, Types DEF StepsLeft
<1>. QED  BY <1>1, <1>2

\* What a turn takes and emits it takes off what is left.
LEMMA Lowers ==
    ASSUME IInv, StreamBounded, pc = "run", NEW used \in 0 .. availIn, NEW made \in Nat,
           availIn' = availIn - used, OutputLeft' = OutputLeft - made,
           pc' = "run" => used > 0 \/ made > 0
    PROVE  StepsLeft' < StepsLeft
<1>. DEFINE rest == (availIn - used) + (OutputLeft - made)
<1>1. StepsLeft = availIn + OutputLeft + 1 /\ availIn \in Nat /\ OutputLeft \in Nat
  BY StepsAreCounted, Types DEF StepsLeft
<1>2. CASE pc' = "run"
  <2>1. StepsLeft' = rest + 1
    BY <1>2 DEF StepsLeft
  <2>2. rest + 1 < StepsLeft
    BY <1>1, <1>2
  <2>. QED  BY <2>1, <2>2
<1>3. CASE pc' # "run"
  <2>1. StepsLeft' = rest + 0
    BY <1>3 DEF StepsLeft
  <2>2. rest + 0 < StepsLeft
    BY <1>1
  <2>. QED  BY <2>1, <2>2
<1>. QED  BY <1>2, <1>3

LEMMA DecodeRunProgress ==
    ASSUME IInv, StreamBounded, DecodeRun
    PROVE  StepsLeft' < StepsLeft /\ StreamBounded'
<1>1. pc = "run" /\ op = "xzdecode" /\ MoreInput /\ UNCHANGED <<argument, enc>>
  BY DEF DecodeRun
<1>2. PICK o \in LzmaDecode(file, TRUE, LZMA_RUN, dec, Input, availIn, availOut) :
         /\ dec' = o.next
         /\ availIn' = availIn - o.used
         /\ IF Accepted(o.ret) THEN Grow(dec.p, o.made) /\ UNCHANGED pc ELSE Fail
  BY DEF DecodeRun, Input
<1>3. /\ o.used \in 0 .. availIn /\ o.made \in Nat /\ o.next.p = dec.p + o.made
      /\ Accepted(o.ret) => o.used > 0 \/ o.made > 0
  <2>1. Ran(file, dec, availIn, availOut, o) /\ (Accepted(o.ret) => ~o.next.stuck)
    BY <1>1, <1>2, DecodeTurn
  <2>. QED  BY <2>1, Types DEF Ran, Accepted
<1>4. pc' = "run" => o.used > 0 \/ o.made > 0
  BY <1>2, <1>3 DEF Fail
<1>5. OutputLeft' = OutputLeft - o.made
  <2>1. file.yield[file.len] \in Nat
    BY Types DEF WellFormedFile
  <2>2. file.yield[file.len] - (dec.p + o.made) = OutputLeft - o.made
    BY <1>1, <1>3, <2>1, Types DEF OutputLeft
  <2>. QED  BY <1>1, <1>2, <1>3, <2>2 DEF OutputLeft, argument
<1>6. StreamBounded'
  BY <1>1 DEF StreamBounded
<1>. QED  BY <1>1, <1>2, <1>3, <1>4, <1>5, <1>6, Lowers

LEMMA DecodeEndProgress ==
    ASSUME IInv, StreamBounded, DecodeEnd
    PROVE  StepsLeft' < StepsLeft /\ StreamBounded'
<1>1. pc = "run" /\ pc' = "string" /\ UNCHANGED <<argument, dec, enc, availIn>>
  BY DEF DecodeEnd, Return
<1>2. OutputLeft' = OutputLeft /\ OutputLeft \in Nat /\ availIn \in Nat
  BY <1>1, StepsAreCounted, Types DEF OutputLeft, argument
<1>3. 0 \in 0 .. availIn /\ 0 \in Nat /\ availIn' = availIn - 0 /\ OutputLeft' = OutputLeft - 0
  BY <1>1, <1>2
<1>4. StreamBounded'
  BY <1>1 DEF StreamBounded
<1>. QED  BY <1>1, <1>3, <1>4, Lowers

\* What any answer of the encoder does to what is left.
LEMMA EncoderEmits ==
    ASSUME IInv, StreamBounded, op = "xzencode", op' = op, NEW action \in {LZMA_RUN, LZMA_FINISH},
           NEW o \in LzmaEncode(action, enc, Offer, availIn, availOut, MaxStream), enc' = o.next
    PROVE  /\ o.used \in 0 .. availIn /\ o.made \in Nat
           /\ OutputLeft' = OutputLeft - o.made /\ StreamBounded'
           /\ o.ret = LZMA_OK /\ availOut > 0 /\ (availIn > 0 \/ action = LZMA_FINISH) =>
                  o.used > 0 \/ o.made > 0
<1>1. Moved(enc, action, availIn, availOut, MaxStream, o)
  BY Types, EncodeMoves
<1>2. /\ o.used \in 0 .. availIn /\ o.made \in Nat
      /\ o.next.p = enc.p + o.made /\ enc.p + o.made <= MaxStream
  BY <1>1, Types DEF Moved, StreamBounded
<1>3. MaxStream - (enc.p + o.made) = OutputLeft - o.made
  BY <1>2, Types DEF OutputLeft
<1>4. OutputLeft' = OutputLeft - o.made
  BY <1>2, <1>3 DEF OutputLeft
<1>. QED  BY <1>1, <1>2, <1>4 DEF Moved, StreamBounded

LEMMA EncodeRunProgress ==
    ASSUME IInv, StreamBounded, EncodeRun
    PROVE  StepsLeft' < StepsLeft /\ StreamBounded'
<1>1. pc = "run" /\ op = "xzencode" /\ op' = op /\ availIn > 0 /\ availOut > 0
  BY DEF EncodeRun, MoreInput, argument, IInv, String
<1>2. PICK o \in LzmaEncode(LZMA_RUN, enc, Offer, availIn, availOut, MaxStream) :
         /\ enc' = o.next
         /\ availIn' = availIn - o.used
         /\ IF o.ret = LZMA_OK THEN Grow(enc.p, o.made) /\ UNCHANGED pc ELSE Fail
  BY DEF EncodeRun, Encode, Offer
<1>3. /\ o.used \in 0 .. availIn /\ o.made \in Nat
      /\ OutputLeft' = OutputLeft - o.made /\ StreamBounded'
      /\ o.ret = LZMA_OK => o.used > 0 \/ o.made > 0
  BY <1>1, <1>2, EncoderEmits
<1>4. pc' = "run" => o.used > 0 \/ o.made > 0
  BY <1>2, <1>3 DEF Fail
<1>. QED  BY <1>1, <1>2, <1>3, <1>4, Lowers

LEMMA EncodeFinishProgress ==
    ASSUME IInv, StreamBounded, EncodeFinish
    PROVE  StepsLeft' < StepsLeft /\ StreamBounded'
<1>1. pc = "run" /\ op = "xzencode" /\ op' = op /\ ~(availIn > 0) /\ availIn' = availIn /\ availOut > 0
  BY DEF EncodeFinish, MoreInput, argument, IInv, String
<1>2. PICK o \in LzmaEncode(LZMA_FINISH, enc, Offer, availIn, availOut, MaxStream) :
         /\ enc' = o.next
         /\ pc' = "run" => o.ret = LZMA_OK
  BY <1>1 DEF EncodeFinish, Encode, Offer, Fail, Accepted, StreamComplete
<1>3. /\ o.used \in 0 .. availIn /\ o.made \in Nat
      /\ OutputLeft' = OutputLeft - o.made /\ StreamBounded'
      /\ o.ret = LZMA_OK => o.used > 0 \/ o.made > 0
  BY <1>1, <1>2, EncoderEmits
<1>4. o.used = 0 /\ availIn' = availIn - o.used
  BY <1>1, <1>3, Types
<1>. QED  BY <1>1, <1>2, <1>3, <1>4, Lowers

LEMMA NextProgress == IInv /\ StreamBounded /\ Next => StepsLeft' < StepsLeft /\ StreamBounded'
  BY DecodeRunProgress, DecodeEndProgress, EncodeRunProgress, EncodeFinishProgress DEF Next

(* Neither function asks liblzma for ever: every step of a call lowers StepsLeft, a
   natural number, on every input, damaged or not (src/xz_decode.c:41-54,
   src/xz_encode.c:54-88). *)
THEOREM StepsRunOut == Spec => [](StepsLeft \in Nat) /\ [][StepsLeft' < StepsLeft]_vars
<1>1. Init => StreamBounded
  BY BoundsAssumption DEF Init, StreamBounded, NewEncoder
<1>2. IInv /\ StreamBounded => StepsLeft \in Nat
  BY StepsAreCounted
<1>3. IInv /\ StreamBounded /\ [Next]_vars => [StepsLeft' < StepsLeft]_vars
  BY NextProgress
<1>4. StreamBounded /\ UNCHANGED vars => StreamBounded'
  BY DEF StreamBounded, vars
<1>5. IInv /\ StreamBounded /\ [Next]_vars => StreamBounded'
  BY <1>4, NextProgress
<1>. QED  BY <1>1, <1>2, <1>3, <1>5, SpecIInv, PTL DEF Spec
=============================================================================
