---------------------------- MODULE XzPipe_proofs ----------------------------
(***************************************************************************)
(* Proofs about the incremental encoder, alone and with the decoder at the *)
(* other end of the wire: for every plaintext and every stream it may be   *)
(* written to, every way to cut either into pieces and everything the      *)
(* encoder may keep to itself meanwhile.                                   *)
(*                                                                         *)
(* First the encoder (Spec, of XzEncodeContext), then the two together     *)
(* (PipeSpec), where the decoder's own proofs are used by instantiation.   *)
(***************************************************************************)
EXTENDS XzPipe, Common_proofs

-----------------------------------------------------------------------------
(* The encoder's invariant.  It has taken the plaintext but what avail_in still
   counts; between calls it runs or has ended.  That a call which makes no progress
   was given nothing and has nothing in its string needs stuck: a turn that filled
   the string clears it. *)

InStep ==
    /\ enc.faithful
    /\ enc.c + availIn = fed
    /\ pc = "idle" => availIn = 0
    /\ pc = "process" =>
          /\ (availIn = given /\ nextOut = 0) \/ ~enc.stuck
          /\ enc.seq = "RUN" \/ (enc.seq = "FINISH" /\ action = LZMA_FINISH)
          /\ action = LZMA_FINISH => availIn = 0

AtEnd ==
    /\ enc.seq = "END" <=> status = LZMA_STREAM_END
    /\ pc = "idle" => enc.seq \in {"RUN", "END"} /\ (action = LZMA_FINISH => enc.seq = "END")
    /\ ret = "false" => was = LZMA_STREAM_END \/ (action = LZMA_RUN /\ given = 0)

(* The string of the call, and those returned before it. *)
Strings ==
    /\ start + (Len(out) - availOut) = enc.p
    /\ \A i \in 1 .. Len(out) - availOut : out[i] = start + i
    /\ pc = "process" =>
          /\ availOut = XZ_BUFFER_SIZE /\ Len(out) = nextOut + XZ_BUFFER_SIZE
          /\ ret = "none"
    /\ pc = "idle" =>
          /\ availOut = 0 /\ nextOut = 0
          /\ ret # "string" => out = <<>>

IInv == TypeOK /\ InStep /\ AtEnd /\ Strings

LEMMA BlankFacts == Blank \in Seq(Nat) /\ Len(Blank) = XZ_BUFFER_SIZE
  BY BlankSeq, BufferAssumption DEF Blank

LEMMA Types ==
    ASSUME IInv
    PROVE  /\ XZ_BUFFER_SIZE \in Nat \ {0} /\ MaxStream \in Nat /\ MaxPlain \in Nat
           /\ availIn \in Nat /\ nextOut \in Nat /\ start \in Nat /\ fed \in Nat /\ given \in Nat
           /\ out \in Seq(Nat) /\ Len(out) \in Nat
           /\ enc \in EncoderState /\ enc.c \in Nat /\ enc.p \in Nat
<1>1. out \in Seq(Nat) /\ Len(out) \in Nat
  BY LenProperties DEF IInv, TypeOK
<1>2. given \in Nat
  BY BoundsAssumption DEF IInv, TypeOK
<1>. QED  BY <1>1, <1>2, BufferAssumption, BoundsAssumption DEF IInv, TypeOK, EncoderState

LEMMA InitIInv == Init => IInv
<1>. SUFFICES ASSUME Init PROVE IInv
  OBVIOUS
<1>. USE DEF Init
<1>1. enc \in EncoderState /\ enc.seq = "RUN" /\ enc.c = 0 /\ enc.p = 0 /\ enc.faithful
  BY DEF NewEncoder, EncoderState
<1>2. out \in Seq(Nat) /\ Len(out) = 0
  BY EmptySeq
<1>3. 0 \in 0 .. MaxChunk /\ 0 \in 0 .. MaxPlain /\ 0 \in 0 .. XZ_BUFFER_SIZE
  BY BoundsAssumption, BufferAssumption
<1>4. TypeOK
  BY <1>1, <1>2, <1>3 DEF TypeOK, LzmaRet
<1>5. InStep
  BY <1>1 DEF InStep
<1>6. AtEnd
  BY <1>1 DEF AtEnd, LZMA_OK, LZMA_STREAM_END, LZMA_RUN, LZMA_FINISH
<1>7. Strings
  BY <1>1, <1>2 DEF Strings
<1>. QED  BY <1>4, <1>5, <1>6, <1>7 DEF IInv

\* The compressed bytes returned so far, between calls.
LEMMA ReturnedIdle ==
    ASSUME IInv, pc = "idle"
    PROVE  Returned = enc.p /\ enc.p \in Nat
<1>1. Len(out) \in Nat /\ availOut = 0 /\ start \in Nat /\ enc.p \in Nat
  BY Types DEF IInv, Strings
<1>2. ret # "string" => Len(out) = 0
  BY EmptySeq DEF IInv, Strings
<1>3. start + (Len(out) - availOut) = enc.p
  BY DEF IInv, Strings
<1>. QED  BY <1>1, <1>2, <1>3 DEF Returned

-----------------------------------------------------------------------------
(* The calls. *)

LEMMA CallIInv ==
    ASSUME IInv, NEW act \in {LZMA_RUN, LZMA_FINISH}, NEW n \in 0 .. MaxChunk,
           fed + n <= MaxPlain, act = LZMA_FINISH => n = 0, Call(act, n)
    PROVE  IInv'
<1>1. n \in Nat /\ fed \in Nat /\ enc.c \in Nat
  BY Types, BoundsAssumption
<1>2. /\ pc = "idle" /\ given' = n /\ was' = status /\ start' = Returned
      /\ UNCHANGED <<enc, status>>
  BY DEF Call, object
<1>3. Returned = enc.p /\ enc.p \in Nat /\ availIn = 0 /\ enc.c = fed /\ enc.faithful
  BY <1>2, ReturnedIdle, Types DEF IInv, InStep
<1>4. CASE status = LZMA_STREAM_END
  <2>1. ret' = "false" /\ out' = <<>> /\ UNCHANGED <<fed, pc, action, availIn, nextOut, availOut>>
    BY <1>4 DEF Call, Refuse
  <2>2. out' \in Seq(Nat) /\ Len(out') = 0
    BY <2>1, EmptySeq
  <2>3. availOut = 0 /\ nextOut = 0
    BY <1>2 DEF IInv, Strings
  <2>4. TypeOK'
    <3>1. availIn' \in 0 .. given' /\ nextOut' \in 0 .. Len(out') /\ start' \in Nat
      BY <1>1, <1>2, <1>3, <2>1, <2>2, <2>3
    <3>. QED  BY <1>2, <2>1, <2>2, <3>1 DEF IInv, TypeOK
  <2>5. InStep'
    BY <1>2, <2>1 DEF IInv, InStep
  <2>6. AtEnd'
    BY <1>2, <1>4, <2>1 DEF IInv, AtEnd
  <2>7. Strings'
    BY <1>2, <1>3, <2>1, <2>2, <2>3 DEF Strings
  <2>. QED  BY <2>4, <2>5, <2>6, <2>7 DEF IInv
<1>5. CASE status # LZMA_STREAM_END
  <2>1. Process(act, n)
    BY <1>5 DEF Call
  <2>2. /\ fed' = fed + n /\ pc' = "process" /\ action' = act /\ availIn' = n /\ out' = Blank
        /\ nextOut' = 0 /\ availOut' = XZ_BUFFER_SIZE /\ ret' = "none"
    BY <2>1 DEF Process
  <2>3. out' \in Seq(Nat) /\ Len(out') = XZ_BUFFER_SIZE /\ XZ_BUFFER_SIZE \in Nat
    BY <2>2, BlankFacts, BufferAssumption
  <2>4. enc.seq = "RUN"
    BY <1>2, <1>5 DEF IInv, AtEnd
  <2>5. TypeOK'
    <3>1. /\ fed' \in 0 .. MaxPlain /\ availIn' \in 0 .. given' /\ nextOut' \in 0 .. Len(out')
          /\ start' \in Nat /\ availOut' \in 0 .. XZ_BUFFER_SIZE
      BY <1>1, <1>2, <1>3, <2>2, <2>3, BoundsAssumption
    <3>. QED  BY <1>2, <2>2, <2>3, <3>1 DEF IInv, TypeOK
  <2>6. InStep'
    BY <1>1, <1>2, <1>3, <2>2, <2>4 DEF InStep
  <2>7. AtEnd'
    BY <1>2, <2>2 DEF IInv, AtEnd
  <2>8. Strings'
    BY <1>2, <1>3, <2>2, <2>3 DEF Strings
  <2>. QED  BY <2>5, <2>6, <2>7, <2>8 DEF IInv
<1>. QED  BY <1>4, <1>5

LEMMA AddIInv ==
    ASSUME IInv, NEW n \in 0 .. MaxChunk, Add(n)
    PROVE  IInv'
<1>1. fed + n <= MaxPlain /\ Call(LZMA_RUN, n) /\ LZMA_RUN # LZMA_FINISH
  BY DEF Add, LZMA_RUN, LZMA_FINISH
<1>. QED  BY <1>1, CallIInv

LEMMA FinishIInv ==
    ASSUME IInv, Finish
    PROVE  IInv'
<1>1. Call(LZMA_FINISH, 0)
  BY DEF Finish
<1>2. 0 \in 0 .. MaxChunk /\ fed + 0 <= MaxPlain
  BY Types, BoundsAssumption DEF IInv, TypeOK
<1>. QED  BY <1>1, <1>2, CallIInv

-----------------------------------------------------------------------------
(* A turn of the loop. *)

Input == [j \in 1 .. availIn |-> fed - availIn + j]

Filled(o) == WrittenAt(out, nextOut, o.made, enc.p)

\* What a turn does with lzma_code()'s answer.
Turn(o) ==
    /\ enc' = o.next
    /\ status' = o.ret
    /\ availIn' = availIn - o.used
    /\ IF Continues(o.ret, o.made = availOut)
       THEN Extend(Filled(o)) /\ UNCHANGED <<pc, ret>>
       ELSE /\ pc' = "idle"
            /\ nextOut' = 0
            /\ availOut' = 0
            /\ IF o.ret \in Benign
               THEN out' = SubSeq(Filled(o), 1, OutUsed(o.made)) /\ ret' = "string"
               ELSE out' = <<>> /\ ret' = "false"
    /\ UNCHANGED <<caller, action, was, start>>

LEMMA CodeTurns ==
    ASSUME Code
    PROVE  pc = "process" /\ \E o \in LzmaEncode(action, enc, Input, availIn, availOut, MaxStream) : Turn(o)
  BY DEF Code, Input, Filled, WrittenAt, Turn

LEMMA CodeIInv ==
    ASSUME IInv, Code
    PROVE  IInv'
<1>0. pc = "process"
  BY CodeTurns
<1>1. availOut = XZ_BUFFER_SIZE /\ Len(out) = nextOut + XZ_BUFFER_SIZE /\ ret = "none"
  BY <1>0 DEF IInv, Strings
<1>. PICK o \in LzmaEncode(action, enc, Input, availIn, availOut, MaxStream) : Turn(o)
  BY CodeTurns
<1>2. /\ enc.seq = "RUN" \/ (enc.seq = "FINISH" /\ action = LZMA_FINISH)
      /\ enc.faithful /\ enc.c + availIn = fed
      /\ action = LZMA_FINISH => availIn = 0
      /\ (availIn = given /\ nextOut = 0) \/ ~enc.stuck
      /\ action \in {LZMA_RUN, LZMA_FINISH}
      /\ availIn \in 0 .. given
  BY <1>0 DEF IInv, InStep, TypeOK
<1>3. Turned(enc, action, availIn, XZ_BUFFER_SIZE, o)
  <2>1. \A j \in 1 .. availIn : Input[j] = enc.c + j
    <3>1. fed - availIn = enc.c
      BY <1>2, Types
    <3>. QED  BY <3>1 DEF Input
  <2>. QED  BY <1>1, <1>2, <2>1, Types, EncodeTurn
<1>4. /\ o.used \in 0 .. availIn /\ o.made \in 0 .. XZ_BUFFER_SIZE
      /\ o.next \in EncoderState /\ o.next.c = enc.c + o.used /\ o.next.p = enc.p + o.made
      /\ o.next.faithful
      /\ o.next.stuck => o.made = 0
      /\ o.ret \in {LZMA_OK, LZMA_BUF_ERROR, LZMA_STREAM_END}
  BY <1>3 DEF Turned
<1>5. /\ enc' = o.next /\ status' = o.ret /\ availIn' = availIn - o.used
      /\ UNCHANGED <<fed, given, action, was, start>>
  BY DEF Turn, caller
<1>6. availIn - o.used \in 0 .. given /\ o.next.c + (availIn - o.used) = fed
  BY <1>2, <1>4, Types
\* the string
<1>. DEFINE next == nextOut + o.made
            built == SubSeq(Filled(o), 1, next)
<1>7. next \in Nat /\ o.made \in Nat
  BY <1>4, Types
<1>8. /\ start + nextOut = enc.p /\ InOrder(out, nextOut, start)
      /\ start + next = o.next.p
  <2>1. Len(out) - availOut = nextOut
    BY <1>1, Types
  <2>2. start + nextOut = enc.p /\ InOrder(out, nextOut, start)
    BY <2>1 DEF IInv, Strings, InOrder
  <2>. QED  BY <1>4, <2>2, Types
<1>9. /\ Filled(o) \in Seq(Nat) /\ Len(Filled(o)) = nextOut + XZ_BUFFER_SIZE
      /\ built \in Seq(Nat) /\ Len(built) = next
      /\ \A i \in 1 .. next : Filled(o)[i] = start + i
      /\ \A i \in 1 .. next : built[i] = start + i
  <2>1. /\ out \in Seq(Nat) /\ nextOut \in Nat /\ XZ_BUFFER_SIZE \in Nat
        /\ enc.p \in Nat /\ start \in Nat
        /\ Len(out) = nextOut + XZ_BUFFER_SIZE /\ o.made \in 0 .. XZ_BUFFER_SIZE
    BY <1>1, <1>4, Types
  <2>2. LET filled == WrittenAt(out, nextOut, o.made, enc.p)
            returned == SubSeq(filled, 1, nextOut + o.made)
        IN  /\ filled \in Seq(Nat) /\ Len(filled) = nextOut + XZ_BUFFER_SIZE
            /\ returned \in Seq(Nat) /\ Len(returned) = nextOut + o.made
            /\ start + nextOut = enc.p /\ InOrder(out, nextOut, start) =>
                  InOrder(filled, nextOut + o.made, start) /\ InOrder(returned, nextOut + o.made, start)
    BY <2>1, FillString
  <2>. QED  BY <1>8, <2>2, Zenon DEF Filled, InOrder
<1>10. OutUsed(o.made) = next
  BY <1>1, <1>7, Types DEF OutUsed
<1>. HIDE DEF next, built
\* the loop goes on, returns the string, or fails
<1>11. CASE Continues(o.ret, o.made = availOut)
  <2>1. o.ret = LZMA_OK /\ o.made = XZ_BUFFER_SIZE
    BY <1>1, <1>11 DEF Continues
  <2>2. next = Len(Filled(o))
    BY <1>9, <2>1 DEF next
  <2>3. /\ out' = Filled(o) \o Blank /\ nextOut' = next /\ availOut' = XZ_BUFFER_SIZE
        /\ UNCHANGED <<pc, ret>>
    BY <1>11, <2>2 DEF Turn, Extend
  <2>4. /\ out' \in Seq(Nat) /\ Len(out') = next + XZ_BUFFER_SIZE
        /\ \A i \in 1 .. next : out'[i] = Filled(o)[i]
    BY <1>9, <2>2, <2>3, GrowString, Types DEF Blank
  <2>5. Len(out') - availOut' = next
    BY <1>7, <2>3, <2>4, Types
  <2>6. /\ o.next.seq = IF action = LZMA_FINISH THEN "FINISH" ELSE enc.seq
        /\ ~o.next.stuck
    BY <1>3, <1>4, <2>1, Types DEF Turned, LZMA_OK, LZMA_BUF_ERROR, LZMA_STREAM_END
  <2>7. TypeOK'
    <3>1. nextOut' \in 0 .. Len(out') /\ availOut' \in 0 .. XZ_BUFFER_SIZE
      BY <1>7, <2>3, <2>4, Types
    <3>2. o.ret \in LzmaRet
      BY <2>1 DEF LzmaRet
    <3>. QED  BY <1>4, <1>5, <1>6, <2>3, <2>4, <3>1, <3>2 DEF IInv, TypeOK
  <2>8. InStep'
    <3>1. action = LZMA_FINISH => availIn - o.used = 0
      BY <1>2, <1>4, Types
    <3>2. o.next.seq = "RUN" \/ (o.next.seq = "FINISH" /\ action = LZMA_FINISH)
      BY <1>2, <2>6
    <3>. QED  BY <1>0, <1>4, <1>5, <1>6, <2>3, <2>6, <3>1, <3>2 DEF InStep
  <2>9. AtEnd'
    <3>1. o.next.seq # "END" /\ o.ret # LZMA_STREAM_END
      BY <1>2, <2>1, <2>6 DEF LZMA_OK, LZMA_STREAM_END
    <3>. QED  BY <1>0, <1>1, <1>5, <2>3, <3>1 DEF AtEnd
  <2>10. Strings'
    BY <1>0, <1>1, <1>5, <1>8, <1>9, <2>3, <2>4, <2>5 DEF Strings
  <2>. QED  BY <2>7, <2>8, <2>9, <2>10 DEF IInv
<1>12. CASE ~Continues(o.ret, o.made = availOut) /\ o.ret \in Benign
  <2>1. /\ pc' = "idle" /\ nextOut' = 0 /\ availOut' = 0 /\ ret' = "string"
        /\ out' = built
    BY <1>10, <1>12 DEF Turn, built
  <2>2. /\ o.ret \in {LZMA_OK, LZMA_STREAM_END}
        /\ o.used = availIn
        /\ \/ o.ret # LZMA_STREAM_END /\ action = LZMA_RUN /\ o.next.seq = "RUN"
           \/ o.ret = LZMA_STREAM_END /\ o.next.seq = "END"
    <3>1. CASE o.ret = LZMA_OK
      <4>1. o.made # XZ_BUFFER_SIZE
        BY <1>1, <1>12, <3>1 DEF Continues
      <4>. QED  BY <1>2, <1>3, <3>1, <4>1 DEF Turned, LZMA_OK, LZMA_BUF_ERROR, LZMA_STREAM_END, LZMA_RUN, LZMA_FINISH
    <3>2. CASE o.ret = LZMA_STREAM_END
      BY <1>3, <3>2 DEF Turned, LZMA_OK, LZMA_BUF_ERROR, LZMA_STREAM_END
    <3>. QED  BY <1>12, <3>1, <3>2 DEF Benign
  <2>3. availIn - o.used = 0
    BY <2>2, Types
  <2>4. TypeOK'
    <3>1. nextOut' \in 0 .. Len(out') /\ availOut' \in 0 .. XZ_BUFFER_SIZE
      BY <1>7, <1>9, <2>1, Types
    <3>2. o.ret \in LzmaRet
      BY <2>2 DEF LzmaRet
    <3>. QED  BY <1>4, <1>5, <1>6, <1>9, <2>1, <3>1, <3>2 DEF IInv, TypeOK
  <2>5. InStep'
    BY <1>4, <1>5, <1>6, <2>1, <2>3 DEF InStep
  <2>6. AtEnd'
    BY <1>5, <2>1, <2>2 DEF AtEnd, LZMA_RUN, LZMA_FINISH
  <2>7. Strings'
    <3>1. Len(out') - availOut' = next
      BY <1>7, <1>9, <2>1
    <3>. QED  BY <1>5, <1>8, <1>9, <2>1, <3>1 DEF Strings
  <2>. QED  BY <2>4, <2>5, <2>6, <2>7 DEF IInv
<1>13. CASE ~Continues(o.ret, o.made = availOut) /\ o.ret \notin Benign
  <2>1. /\ pc' = "idle" /\ nextOut' = 0 /\ availOut' = 0 /\ ret' = "false"
        /\ out' = <<>>
    BY <1>13 DEF Turn
  <2>2. o.ret = LZMA_BUF_ERROR
    BY <1>4, <1>13 DEF Benign
  <2>3. action = LZMA_RUN /\ availIn = 0 /\ o.made = 0 /\ enc.stuck /\ o.next.seq = enc.seq
    BY <1>3, <2>2 DEF Turned, LZMA_OK, LZMA_BUF_ERROR, LZMA_STREAM_END
  <2>4. given = 0 /\ enc.seq = "RUN"
    BY <1>2, <2>3 DEF LZMA_RUN, LZMA_FINISH
  <2>5. availIn - o.used = 0
    BY <1>4, <2>3, Types
  <2>6. Len(out') = 0 /\ out' \in Seq(Nat)
    BY <2>1, EmptySeq
  <2>7. TypeOK'
    <3>1. nextOut' \in 0 .. Len(out') /\ availOut' \in 0 .. XZ_BUFFER_SIZE
      BY <2>1, <2>6, Types
    <3>2. o.ret \in LzmaRet
      BY <2>2 DEF LzmaRet
    <3>. QED  BY <1>4, <1>5, <1>6, <2>1, <2>6, <3>1, <3>2 DEF IInv, TypeOK
  <2>8. InStep'
    BY <1>4, <1>5, <1>6, <2>1, <2>5 DEF InStep
  <2>9. AtEnd'
    BY <1>5, <2>1, <2>2, <2>3, <2>4 DEF AtEnd, LZMA_BUF_ERROR, LZMA_STREAM_END, LZMA_RUN, LZMA_FINISH
  <2>10. Strings'
    <3>1. nextOut = 0
      BY <1>2, <2>3
    <3>2. start = o.next.p
      BY <1>8, <2>3, <3>1, Types DEF next
    <3>. QED  BY <1>5, <2>1, <2>6, <3>2, Types DEF Strings
  <2>. QED  BY <2>7, <2>8, <2>9, <2>10 DEF IInv
<1>. QED  BY <1>11, <1>12, <1>13

LEMMA NextIInv == IInv /\ [Next]_vars => IInv'
<1>. SUFFICES ASSUME IInv, [Next]_vars PROVE IInv'
  OBVIOUS
<1>1. CASE UNCHANGED vars
  BY <1>1 DEF vars, caller, object, string, IInv, TypeOK, InStep, AtEnd, Strings
<1>. QED  BY <1>1, FinishIInv, CodeIInv, AddIInv DEF Next

LEMMA SpecIInv == Spec => []IInv
  BY InitIInv, NextIInv, PTL DEF Spec

-----------------------------------------------------------------------------
(* Every variable has its type: no pointer into the string leaves it, avail_in and
   avail_out never exceed what they count (php_xz_encode_context_process). *)
THEOREM EncodeTyped == Spec => []TypeOK
<1>1. IInv => TypeOK
  BY DEF IInv
<1>. QED  BY <1>1, SpecIInv, PTL

(* The strings returned are the compressed stream from its first byte on, also around
   calls that fail and release theirs (php_xz_encode_context_process). *)
THEOREM EncodedInOrder == Spec => []OutInOrder
<1>1. IInv => OutInOrder
  <2>1. IInv /\ pc = "process" => nextOut = Built
    BY Types DEF IInv, Strings, Built
  <2>. QED  BY <2>1 DEF IInv, Strings, OutInOrder, Built
<1>. QED  BY <1>1, SpecIInv, PTL

(* A call that returns has given the encoder all it was fed with, wherever the string
   was full (src/xz_encode_context.c:92). *)
THEOREM PiecesTaken == Spec => []InputTaken
<1>1. IInv => InputTaken
  <2>. SUFFICES ASSUME IInv, pc = "idle" PROVE enc.c = fed /\ enc.faithful
    BY DEF InputTaken
  <2>1. availIn = 0 /\ enc.c + availIn = fed /\ enc.faithful
    BY DEF IInv, InStep
  <2>. QED  BY <2>1, Types
<1>. QED  BY <1>1, SpecIInv, PTL

(* A finish completes the stream, of all the plaintext fed (xz_encode_finish). *)
THEOREM FinishEnds == Spec => []FinishCompletes
<1>1. IInv => FinishCompletes
  <2>. SUFFICES ASSUME IInv, pc = "idle", action = LZMA_FINISH
                PROVE  /\ status = LZMA_STREAM_END
                       /\ enc.seq = "END" /\ enc.c = fed
                       /\ Returned = enc.p
    BY DEF FinishCompletes
  <2>1. enc.seq = "END" /\ status = LZMA_STREAM_END
    BY DEF IInv, AtEnd
  <2>2. availIn = 0 /\ enc.c + availIn = fed
    BY DEF IInv, InStep
  <2>. QED  BY <2>1, <2>2, Types, ReturnedIdle
<1>. QED  BY <1>1, SpecIInv, PTL

(* The only calls that fail are those on a finished context and additions of nothing
   (src/xz_encode_context.c:103). *)
THEOREM RefusedWithReason == Spec => []RefusalsExplained
<1>1. IInv => RefusalsExplained
  BY DEF IInv, AtEnd, RefusalsExplained
<1>. QED  BY <1>1, SpecIInv, PTL

-----------------------------------------------------------------------------
(* The encoder's loop ends.  Every turn but the last fills the string that was grown
   for it, and no stream is longer than MaxStream. *)

StreamBounded == enc.p <= MaxStream

StillToEmit == MaxStream - enc.p

TurnsLeft == IF pc = "process" THEN StillToEmit + 1 ELSE 0

LEMMA TurnsAreCounted ==
    ASSUME IInv, StreamBounded
    PROVE  StillToEmit \in Nat /\ TurnsLeft \in Nat
<1>1. StillToEmit \in Nat
  BY Types DEF StreamBounded, StillToEmit
<1>. QED  BY <1>1 DEF TurnsLeft

LEMMA CodeProgress ==
    ASSUME IInv, StreamBounded, Code
    PROVE  TurnsLeft' < TurnsLeft /\ StreamBounded'
<1>1. pc = "process" /\ TurnsLeft = StillToEmit + 1 /\ StillToEmit \in Nat
  BY CodeTurns, TurnsAreCounted DEF TurnsLeft
<1>2. PICK o \in LzmaEncode(action, enc, Input, availIn, availOut, MaxStream) : Turn(o)
  BY CodeTurns
<1>3. enc' = o.next
  BY <1>2 DEF Turn
<1>4. availOut = XZ_BUFFER_SIZE /\ action \in {LZMA_RUN, LZMA_FINISH}
  BY <1>1 DEF IInv, Strings, TypeOK
<1>5. o.next.p = enc.p + o.made /\ enc.p + o.made <= MaxStream
  <2>1. Moved(enc, action, availIn, XZ_BUFFER_SIZE, MaxStream, o)
    BY <1>2, <1>4, Types, EncodeMoves
  <2>. QED  BY <2>1 DEF Moved, StreamBounded
<1>6. StreamBounded'
  BY <1>3, <1>5 DEF StreamBounded
<1>7. CASE ~Continues(o.ret, o.made = availOut)
  <2>1. pc' = "idle"
    BY <1>2, <1>7 DEF Turn
  <2>2. TurnsLeft' = 0
    BY <2>1 DEF TurnsLeft
  <2>. QED  BY <1>1, <1>6, <2>2
<1>8. CASE Continues(o.ret, o.made = availOut)
  <2>1. pc' = "process" /\ o.made = XZ_BUFFER_SIZE
    BY <1>1, <1>2, <1>4, <1>8 DEF Turn, Continues
  <2>. DEFINE rest == StillToEmit - XZ_BUFFER_SIZE
  <2>2. MaxStream - (enc.p + XZ_BUFFER_SIZE) = rest
    BY Types DEF StillToEmit
  <2>3. StillToEmit' = rest
    BY <1>3, <1>5, <2>1, <2>2 DEF StillToEmit
  <2>. HIDE DEF rest
  <2>4. TurnsLeft' = rest + 1
    BY <2>1, <2>3 DEF TurnsLeft
  <2>5. rest + 1 < TurnsLeft
    BY <1>1, Types DEF rest
  <2>. QED  BY <1>6, <2>4, <2>5
<1>. QED  BY <1>7, <1>8

LEMMA NextBounded == IInv /\ StreamBounded /\ [Next]_vars => StreamBounded'
<1>1. UNCHANGED enc /\ StreamBounded => StreamBounded'
  BY DEF StreamBounded
<1>2. Finish \/ (\E n \in 0 .. MaxChunk : Add(n)) \/ UNCHANGED vars => UNCHANGED enc
  BY DEF Finish, Add, Call, object, vars
<1>. QED  BY <1>1, <1>2, CodeProgress DEF Next

(* The loop of php_xz_encode_context_process() has a variant: every turn lowers
   TurnsLeft, a natural number, whatever the encoder emits and when
   (src/xz_encode_context.c:85-107). *)
THEOREM TurnsRunOut == Spec => [](TurnsLeft \in Nat) /\ [][Code => TurnsLeft' < TurnsLeft]_vars
<1>1. Init => StreamBounded
  BY BoundsAssumption DEF Init, StreamBounded, NewEncoder
<1>2. IInv /\ StreamBounded => TurnsLeft \in Nat
  BY TurnsAreCounted
<1>3. IInv /\ StreamBounded /\ [Next]_vars => [Code => TurnsLeft' < TurnsLeft]_vars
  BY CodeProgress
<1>. QED  BY <1>1, <1>2, <1>3, NextBounded, SpecIInv, PTL DEF Spec

(* A string outgrows the stream by at most XZ_BUFFER_SIZE
   (src/xz_encode_context.c:85-107). *)
THEOREM StringBounded == Spec => []OutBounded
<1>1. Init => StreamBounded
  BY BoundsAssumption DEF Init, StreamBounded, NewEncoder
<1>2. IInv /\ StreamBounded => OutBounded
  <2>. SUFFICES ASSUME IInv, StreamBounded PROVE Len(out) <= MaxStream + XZ_BUFFER_SIZE
    BY DEF OutBounded
  <2>1. start + (Len(out) - availOut) = enc.p /\ enc.p <= MaxStream
    BY DEF IInv, Strings, StreamBounded
  <2>2. availOut \in Nat /\ availOut <= XZ_BUFFER_SIZE
    BY Types DEF IInv, TypeOK
  <2>. QED  BY <2>1, <2>2, Types
<1>. QED  BY <1>1, <1>2, NextBounded, SpecIInv, PTL DEF Spec

-----------------------------------------------------------------------------
(* Both contexts at work.  The decoder's lemmas hold for what it does here, its
   assumptions included: the file is what arrives on the wire, the files are Plans. *)

DP == INSTANCE XzDecodeContext_proofs WITH
        Files <- Plans, file <- Arriving,
        fed <- dFed, concat <- dConcat, dec <- dDec, status <- dStatus, pc <- dPc, action <- dAction,
        availIn <- dAvailIn, out <- dOut, nextOut <- dNextOut, availOut <- dAvailOut,
        ret <- dRet, was <- dWas, start <- dStart

LEMMA DecoderAssumptions ==
    /\ \A f \in Plans : DP!WellFormedFile(f)
    /\ XZ_BUFFER_SIZE \in Nat \ {0}
    /\ MaxChunk \in Nat
    /\ Word \in Nat /\ Word > 20
    /\ LongWord \in Nat /\ LongWord >= 2 * Word
  BY PlanAssumption, BufferAssumption, BoundsAssumption, WordAssumption, LongWordAssumption
     DEF OneStream, WellFormedFile, DP!WellFormedFile

\* D, which XzPipe runs, and DP, which the lemmas are about, are the same decoder.
LEMMA SameCodes ==
    /\ DP!LZMA_OK = D!LZMA_OK /\ DP!LZMA_STREAM_END = D!LZMA_STREAM_END
    /\ DP!LZMA_DATA_ERROR = D!LZMA_DATA_ERROR /\ DP!LZMA_BUF_ERROR = D!LZMA_BUF_ERROR
    /\ DP!LZMA_PROG_ERROR = D!LZMA_PROG_ERROR
    /\ DP!LZMA_RUN = D!LZMA_RUN /\ DP!LZMA_FINISH = D!LZMA_FINISH
    /\ D!LZMA_STREAM_END = LZMA_STREAM_END
    /\ D!LZMA_RUN = LZMA_RUN /\ D!LZMA_FINISH = LZMA_FINISH /\ LZMA_RUN # LZMA_FINISH
  BY DEF D!LZMA_OK, DP!LZMA_OK, D!LZMA_STREAM_END, DP!LZMA_STREAM_END, LZMA_STREAM_END,
         D!LZMA_DATA_ERROR, DP!LZMA_DATA_ERROR, D!LZMA_BUF_ERROR, DP!LZMA_BUF_ERROR,
         D!LZMA_PROG_ERROR, DP!LZMA_PROG_ERROR,
         D!LZMA_RUN, DP!LZMA_RUN, LZMA_RUN, D!LZMA_FINISH, DP!LZMA_FINISH, LZMA_FINISH

LEMMA SameInit == D!Init <=> DP!Init
  BY SameCodes DEF DP!Init, D!Init, D!NewDecoder, DP!NewDecoder

LEMMA SameAnswers ==
    \A f, c, a, d, in, n, room : DP!Answers(f, c, a, d, in, n, room) = D!Answers(f, c, a, d, in, n, room)
  BY SameCodes, SMT DEF DP!Answers, D!Answers, DP!RoomExhausted, D!RoomExhausted, DP!InputExhausted, D!InputExhausted,
         DP!StreamEnds, D!StreamEnds, DP!EndReached, D!EndReached, DP!DamageFound, D!DamageFound, DP!Expected, D!Expected

LEMMA SameAfterAnswer == \A d, a, o : DP!AfterAnswer(d, a, o) = D!AfterAnswer(d, a, o)
  BY Zenon DEF DP!AfterAnswer, D!AfterAnswer, D!LZMA_OK, DP!LZMA_OK, D!LZMA_STREAM_END, DP!LZMA_STREAM_END,
         D!LZMA_DATA_ERROR, DP!LZMA_DATA_ERROR, D!LZMA_BUF_ERROR, DP!LZMA_BUF_ERROR, D!LZMA_FINISH, DP!LZMA_FINISH

LEMMA SameDecode ==
    \A f, c, a, d, in, n, room : DP!LzmaDecode(f, c, a, d, in, n, room) = D!LzmaDecode(f, c, a, d, in, n, room)
  BY SameCodes, SameAnswers, SameAfterAnswer, SMT DEF DP!LzmaDecode, D!LzmaDecode, DP!Refusal, D!Refusal

LEMMA SameCode == D!Code <=> DP!Code
  BY SameDecode, Zenon DEF D!Code, DP!Code, D!Continues, DP!Continues, D!Extend, DP!Extend, D!Blank, DP!Blank,
         D!Benign, DP!Benign, D!OutUsed, DP!OutUsed, D!caller, DP!caller,
         D!LZMA_OK, DP!LZMA_OK, D!LZMA_STREAM_END, DP!LZMA_STREAM_END,
         D!LZMA_BUF_ERROR, DP!LZMA_BUF_ERROR, D!LZMA_FINISH, DP!LZMA_FINISH

LEMMA SameAdd == \A n : D!Add(n) <=> DP!Add(n)
  BY Zenon DEF D!Add, DP!Add, D!Found, DP!Found, D!Returned, DP!Returned, D!Process, DP!Process, D!Refuse, DP!Refuse,
         D!Blank, DP!Blank, D!object, DP!object, D!LZMA_RUN, DP!LZMA_RUN, D!LZMA_STREAM_END, DP!LZMA_STREAM_END

LEMMA SameFinish == D!Finish <=> DP!Finish
  BY Zenon DEF D!Finish, DP!Finish, D!Found, DP!Found, D!Returned, DP!Returned, D!Process, DP!Process,
         D!Refuse, DP!Refuse, D!Blank, DP!Blank, D!object, DP!object, D!caller, DP!caller,
         D!LZMA_FINISH, DP!LZMA_FINISH, D!LZMA_STREAM_END, DP!LZMA_STREAM_END

-----------------------------------------------------------------------------
(* The invariant of the pipe.  The wire holds the beginning of the plan, as far as
   the encoder's calls have returned. *)
OnWire ==
    /\ plan \in Plans
    /\ wire \in Seq(Nat)
    /\ \A i \in 1 .. Len(wire) : wire[i] = i
    /\ Len(wire) = IF pc = "idle" THEN enc.p ELSE start

(* The encoder follows the plan, and reaches its end in a finish. *)
Planned ==
    /\ enc.p <= plan.len
    /\ plan.yield[enc.p] <= enc.c
    /\ fed <= Plaintext
    /\ enc.p = plan.len => action = LZMA_FINISH
    /\ status = LZMA_STREAM_END => enc.p = plan.len
    /\ pc = "process" => start < plan.len

(* The decoder has been fed from the wire; it is told that no input follows when it
   has been given all of the stream, and so is never left in the middle of it. *)
Received ==
    /\ dFed <= Len(wire)
    /\ dDec.seq # "FINISH"
    /\ dPc = "process" /\ dAction = LZMA_FINISH => dFed = plan.len

PInv == IInv /\ OnWire /\ Planned /\ DP!IInv /\ Received

LEMMA PlanFacts ==
    ASSUME NEW p \in Plans
    PROVE  /\ WellFormedFile(p) /\ p.len \in Nat \ {0} /\ p.ends = {p.len}
           /\ p.bytes \in [1 .. p.len -> Nat] /\ \A i \in 1 .. p.len : p.bytes[i] = i
           /\ p.yield \in [0 .. p.len -> Nat] /\ p.yield[0] = 0
           /\ p.yield[p.len] \in Nat
           /\ p = [len |-> p.len, bytes |-> p.bytes, yield |-> p.yield, ends |-> p.ends]
<1>1. /\ WellFormedFile(p) /\ Sound(p) /\ p.len > 0 /\ p.ends = {p.len}
      /\ p = [len |-> p.len, bytes |-> p.bytes, yield |-> p.yield, ends |-> p.ends]
  BY PlanAssumption DEF OneStream
<1>2. /\ p.len \in Nat /\ p.bytes \in [1 .. p.len -> Nat]
      /\ p.yield \in [0 .. p.len -> Nat] /\ p.yield[0] = 0
  BY <1>1 DEF WellFormedFile
<1>3. \A i \in 1 .. p.len : p.bytes[i] = i
  BY <1>1 DEF Sound, Damaged
<1>4. p.len \in Nat \ {0} /\ p.yield[p.len] \in Nat
  BY <1>1, <1>2
<1>. QED  BY <1>1, <1>2, <1>3, <1>4

\* A wire on which nothing is out of place does no damage.
LEMMA WireIsClean ==
    ASSUME NEW p \in Plans, NEW w, \A i \in 1 .. Len(w) : w[i] = i, Len(w) \in Nat
    PROVE  [p EXCEPT !.bytes = [i \in DOMAIN @ |-> IF i <= Len(w) THEN w[i] ELSE i]] = p
<1>. DEFINE b == [i \in DOMAIN p.bytes |-> IF i <= Len(w) THEN w[i] ELSE i]
<1>1. b = p.bytes
  <2>1. \A i \in 1 .. p.len : b[i] = p.bytes[i]
    BY PlanFacts
  <2>. QED  BY <2>1, PlanFacts
<1>. HIDE DEF b
<1>2. [p EXCEPT !.bytes = b] = p
  BY <1>1, PlanFacts
<1>. QED  BY <1>2 DEF b

LEMMA ArrivesAsSent == OnWire => Arriving = plan
<1>. SUFFICES ASSUME OnWire PROVE Arriving = plan
  OBVIOUS
<1>1. Len(wire) \in Nat
  BY LenProperties DEF OnWire
<1>. QED  BY <1>1, WireIsClean DEF OnWire, Arriving

LEMMA StaysAsSent ==
    ASSUME OnWire, OnWire', plan' = plan
    PROVE  Arriving' = Arriving
<1>1. Arriving = plan
  BY ArrivesAsSent
<1>2. Len(wire') \in Nat
  BY LenProperties DEF OnWire
<1>3. Arriving' = plan'
  BY <1>2, WireIsClean DEF OnWire, Arriving
<1>. QED  BY <1>1, <1>3

-----------------------------------------------------------------------------
(* What each step is to either context. *)

LEMMA EncoderSteps ==
    ASSUME [PipeNext]_pipe
    PROVE  plan' = plan /\ [Next]_vars
<1>1. CASE UNCHANGED pipe
  BY <1>1 DEF pipe, encoder
<1>2. ASSUME NEW n \in 0 .. MaxChunk, Feed(n) PROVE plan' = plan /\ Next
  BY <1>2 DEF Feed, Next
<1>3. CASE FinishEncoding
  BY <1>3 DEF FinishEncoding, Next
<1>4. CASE Encode
  BY <1>4 DEF Encode, Next
<1>5. ASSUME NEW n \in 0 .. MaxChunk, HandOn(n) PROVE plan' = plan /\ UNCHANGED vars
  BY <1>5 DEF HandOn, encoder
<1>6. CASE FinishDecoding
  BY <1>6 DEF FinishDecoding, encoder
<1>7. CASE Decode
  BY <1>7 DEF Decode, encoder
<1>. QED  BY <1>1, <1>2, <1>3, <1>4, <1>5, <1>6, <1>7 DEF PipeNext

(* A call on the encoder changes nothing on the wire. *)
LEMMA CallOnWire ==
    ASSUME IInv, OnWire, Planned, NEW act \in {LZMA_RUN, LZMA_FINISH}, NEW n \in 0 .. MaxChunk, Call(act, n),
           fed + n <= Plaintext \/ status = LZMA_STREAM_END, UNCHANGED <<plan, wire>>
    PROVE  OnWire' /\ Planned'
<1>1. pc = "idle" /\ enc' = enc /\ status' = status /\ start' = enc.p /\ enc.p \in Nat
  BY ReturnedIdle DEF Call, object
<1>2. Plaintext' = Plaintext
  BY DEF Plaintext
<1>3. Len(wire) = enc.p
  BY <1>1 DEF OnWire
<1>4. CASE status = LZMA_STREAM_END
  <2>1. UNCHANGED <<fed, pc, action>>
    BY <1>4 DEF Call, Refuse
  <2>. QED  BY <1>1, <1>2, <2>1 DEF OnWire, Planned
<1>5. CASE status # LZMA_STREAM_END
  <2>1. fed' = fed + n /\ pc' = "process" /\ action' = act
    BY <1>5 DEF Call, Process
  <2>2. action # LZMA_FINISH
    BY <1>1, <1>5 DEF IInv, AtEnd
  <2>3. enc.p # plan.len
    BY <2>2 DEF Planned
  <2>4. enc.p < plan.len
    BY <1>1, <2>3, PlanFacts DEF Planned, OnWire
  <2>5. OnWire'
    BY <1>1, <1>3, <2>1 DEF OnWire
  <2>6. Planned'
    BY <1>1, <1>2, <1>5, <2>1, <2>3, <2>4 DEF Planned
  <2>. QED  BY <2>5, <2>6
<1>. QED  BY <1>4, <1>5

LEMMA EncodeOnWire ==
    ASSUME IInv, IInv', OnWire, Planned, Encode
    PROVE  OnWire' /\ Planned'
<1>1. pc = "process" /\ UNCHANGED <<plan, fed, action, start>>
  BY DEF Encode, Code, caller
<1>2. /\ enc'.p <= plan.len
      /\ plan.yield[enc'.p] <= enc'.c
      /\ enc'.p = plan.len => action = LZMA_FINISH
      /\ enc'.seq = "END" => enc'.p = plan.len
  BY DEF Encode, OnPlan
<1>3. wire' = IF pc' = "idle" THEN wire \o out' ELSE wire
  BY DEF Encode
<1>4. /\ start' + (Len(out') - availOut') = enc'.p
      /\ \A i \in 1 .. Len(out') - availOut' : out'[i] = start' + i
      /\ pc' = "idle" => availOut' = 0
      /\ pc' \in {"idle", "process"}
      /\ out' \in Seq(Nat) /\ Len(out') \in Nat
      /\ enc'.seq = "END" <=> status' = LZMA_STREAM_END
      /\ start \in Nat
  BY <1>1, LenProperties DEF IInv, Strings, TypeOK, AtEnd
<1>5. Len(wire) = start /\ wire \in Seq(Nat) /\ \A i \in 1 .. Len(wire) : wire[i] = i
  BY <1>1 DEF OnWire
<1>6. OnWire'
  <2>1. CASE pc' = "idle"
    <3>1. wire' = wire \o out' /\ start + Len(out') = enc'.p /\ \A i \in 1 .. Len(out') : out'[i] = start + i
      BY <1>1, <1>3, <1>4, <2>1
    <3>2. /\ wire' \in Seq(Nat) /\ Len(wire') = start + Len(out')
          /\ \A i \in 1 .. start + Len(out') : wire'[i] = IF i <= start THEN wire[i] ELSE out'[i - start]
      BY <1>4, <1>5, <3>1, ConcatProperties
    <3>3. \A i \in 1 .. start + Len(out') : wire'[i] = i
      <4>. TAKE i \in 1 .. start + Len(out')
      <4>1. CASE i <= start
        BY <1>4, <1>5, <3>2, <4>1
      <4>2. CASE ~(i <= start)
        <5>1. i - start \in 1 .. Len(out') /\ start + (i - start) = i
          BY <1>4, <4>2
        <5>. QED  BY <3>1, <3>2, <4>2, <5>1
      <4>. QED  BY <4>1, <4>2
    <3>. QED  BY <1>1, <2>1, <3>1, <3>2, <3>3 DEF OnWire
  <2>2. CASE pc' = "process"
    BY <1>1, <1>3, <1>5, <2>2 DEF OnWire
  <2>. QED  BY <1>4, <2>1, <2>2
<1>7. Planned'
  BY <1>1, <1>2, <1>4 DEF Planned, Plaintext
<1>. QED  BY <1>6, <1>7

LEMMA WirePInv ==
    ASSUME PInv, [PipeNext]_pipe
    PROVE  OnWire' /\ Planned'
<1>. USE DEF PInv
<1>1. IInv'
  BY EncoderSteps, NextIInv
<1>2. CASE UNCHANGED <<plan, wire, vars>>
  BY <1>2 DEF OnWire, Planned, Plaintext, vars, object, caller
<1>3. ASSUME NEW n \in 0 .. MaxChunk, Feed(n) PROVE OnWire' /\ Planned'
  <2>1. Call(LZMA_RUN, n) /\ UNCHANGED <<plan, wire>> /\ (fed + n <= Plaintext \/ status = LZMA_STREAM_END)
    BY <1>3 DEF Feed, Add
  <2>. QED  BY <2>1, CallOnWire
<1>4. CASE FinishEncoding
  <2>1. Call(LZMA_FINISH, 0) /\ UNCHANGED <<plan, wire>> /\ 0 \in 0 .. MaxChunk
    BY <1>4, BoundsAssumption DEF FinishEncoding, Finish
  <2>2. fed + 0 <= Plaintext
    BY Types DEF Planned
  <2>. QED  BY <2>1, <2>2, CallOnWire
<1>5. CASE Encode
  BY <1>1, <1>5, EncodeOnWire
<1>6. ASSUME NEW n \in 0 .. MaxChunk, HandOn(n) PROVE UNCHANGED <<plan, wire, vars>>
  BY <1>6 DEF HandOn, encoder
<1>7. CASE FinishDecoding
  BY <1>2, <1>7 DEF FinishDecoding, encoder
<1>8. CASE Decode
  BY <1>2, <1>8 DEF Decode, encoder
<1>9. CASE UNCHANGED pipe
  BY <1>2, <1>9 DEF pipe, encoder
<1>. QED  BY <1>2, <1>3, <1>4, <1>5, <1>6, <1>7, <1>8, <1>9 DEF PipeNext

LEMMA DecoderSteps ==
    ASSUME OnWire, OnWire', [PipeNext]_pipe
    PROVE  [DP!Next]_DP!vars
<1>1. UNCHANGED decoder => UNCHANGED DP!vars
  <2>1. Arriving' = Arriving
    BY EncoderSteps, StaysAsSent
  <2>. QED  BY <2>1 DEF decoder, DP!vars, DP!caller, DP!object, DP!string
<1>2. CASE UNCHANGED pipe
  BY <1>1, <1>2 DEF pipe
<1>3. ASSUME NEW n \in 0 .. MaxChunk, Feed(n) PROVE UNCHANGED decoder
  BY <1>3 DEF Feed
<1>4. CASE FinishEncoding
  BY <1>1, <1>4 DEF FinishEncoding
<1>5. CASE Encode
  BY <1>1, <1>5 DEF Encode
<1>6. ASSUME NEW n \in 0 .. MaxChunk, HandOn(n) PROVE DP!Next
  <2>1. DP!Add(n)
    BY <1>6, SameAdd DEF HandOn
  <2>. QED  BY <2>1 DEF DP!Next
<1>7. CASE FinishDecoding
  BY <1>7, SameFinish DEF FinishDecoding, DP!Next
<1>8. CASE Decode
  BY <1>8, SameCode DEF Decode, DP!Next
<1>. QED  BY <1>1, <1>2, <1>3, <1>4, <1>5, <1>6, <1>7, <1>8 DEF PipeNext

-----------------------------------------------------------------------------
(* The decoder's side of the invariant. *)

LEMMA WireFacts ==
    ASSUME PInv
    PROVE  /\ plan \in Plans /\ Arriving = plan
           /\ Len(wire) \in Nat /\ plan.len \in Nat
           /\ dFed \in Nat /\ dDec.c \in Nat /\ dDec.p \in Nat /\ dStart \in Nat
           /\ dOut \in Seq(Nat) /\ Len(dOut) \in Nat
           /\ enc.p \in Nat /\ enc.c \in Nat /\ fed \in Nat /\ start \in Nat
<1>1. Len(wire) \in Nat /\ Len(dOut) \in Nat
  BY LenProperties DEF PInv, OnWire, DP!IInv, DP!TypeOK
<1>2. plan \in Plans /\ Arriving = plan
  BY ArrivesAsSent DEF PInv, OnWire
<1>3. plan.len \in Nat
  BY <1>2, PlanFacts
<1>4. dFed \in Nat /\ dDec.c \in Nat /\ dDec.p \in Nat /\ dStart \in Nat /\ dOut \in Seq(Nat)
  BY DEF PInv, DP!IInv, DP!TypeOK, DP!DecoderState
<1>5. enc.p \in Nat /\ enc.c \in Nat /\ fed \in Nat /\ start \in Nat
  BY Types DEF PInv
<1>. QED  BY <1>1, <1>2, <1>3, <1>4, <1>5

\* The decoder meets no damage: it runs, or has reached the end of the plan.
LEMMA RunsOrEnds ==
    ASSUME PInv
    PROVE  /\ dDec.seq \in {"RUN", "END"}
           /\ dDec.seq = "END" => dDec.c = plan.len
           /\ dPc = "process" => dDec.seq = "RUN"
<1>1. plan \in Plans /\ Arriving = plan
  BY WireFacts
<1>2. ~DP!Damaged(Arriving)
  BY <1>1, PlanFacts DEF DP!Damaged
<1>3. dDec.seq \in {"RUN", "FINISH", "END", "ERROR"}
  BY DEF PInv, DP!IInv, DP!TypeOK, DP!DecoderState
<1>4. plan.ends = {plan.len}
  BY <1>1, PlanFacts
<1>5. /\ dDec.seq # "ERROR"
      /\ dDec.seq = "END" => dPc = "idle" /\ dDec.c \in Arriving.ends
      /\ dDec.seq # "FINISH"
  BY <1>2 DEF PInv, DP!IInv, DP!AtEnd, Received
<1>. QED  BY <1>1, <1>3, <1>4, <1>5

LEMMA WireGrows ==
    ASSUME PInv, [PipeNext]_pipe
    PROVE  Len(wire) <= Len(wire')
<1>1. Len(wire) \in Nat
  BY WireFacts
<1>2. wire' = wire \/ Encode
  BY DEF PipeNext, Feed, FinishEncoding, HandOn, FinishDecoding, Decode, pipe
<1>3. CASE Encode
  <2>1. wire' = wire \/ wire' = wire \o out'
    BY <1>3 DEF Encode
  <2>2. out' \in Seq(Nat) /\ wire \in Seq(Nat)
    BY EncoderSteps, NextIInv DEF PInv, IInv, TypeOK, OnWire
  <2>. QED  BY <1>1, <2>1, <2>2, ConcatProperties, LenProperties
<1>. QED  BY <1>1, <1>2, <1>3

LEMMA ReceivedPInv ==
    ASSUME PInv, OnWire', DP!IInv', [PipeNext]_pipe
    PROVE  Received'
<1>. USE DEF PInv
<1>1. plan' = plan
  BY EncoderSteps
<1>2. Len(wire) \in Nat /\ Len(wire') \in Nat /\ Len(wire) <= Len(wire') /\ dFed \in Nat
  BY WireFacts, WireGrows, LenProperties DEF OnWire
<1>3. CASE UNCHANGED decoder
  <2>1. dFed' <= Len(wire')
    BY <1>2, <1>3 DEF decoder, Received
  <2>. QED  BY <1>1, <1>3, <2>1 DEF decoder, Received
<1>4. ASSUME NEW n \in 0 .. MaxChunk, HandOn(n) PROVE Received'
  <2>1. /\ dPc = "idle" /\ dFed' = dFed + n /\ dDec' = dDec
        /\ (dPc' = "process" /\ dAction' = LZMA_RUN) \/ UNCHANGED <<dPc, dAction>>
    BY <1>4, SameCodes DEF HandOn, D!Add, D!Process, D!Refuse, D!object
  <2>2. dFed + n <= Len(wire) /\ UNCHANGED wire
    BY <1>4 DEF HandOn
  <2>. QED  BY <2>1, <2>2, SameCodes DEF Received
<1>5. CASE FinishDecoding
  <2>1. dFed' = dFed /\ dDec' = dDec /\ dFed = Len(wire) /\ UNCHANGED wire /\ status = LZMA_STREAM_END
    BY <1>5 DEF FinishDecoding, D!Finish, D!object, D!caller
  <2>2. enc.p = plan.len /\ pc = "idle"
    BY <2>1 DEF Planned, IInv, TypeOK, InStep, AtEnd
  <2>3. dFed = plan.len
    BY <2>1, <2>2 DEF OnWire
  <2>. QED  BY <1>1, <1>2, <2>1, <2>3 DEF Received
<1>6. CASE Decode
  <2>1. dPc = "process" /\ UNCHANGED <<wire, dFed, dAction>> /\ DP!Code
    BY <1>6, SameCode DEF Decode, D!Code, D!caller
  <2>2. ASSUME dDec'.seq = "FINISH" PROVE FALSE
    <3>1. dDec.seq = "FINISH" \/ (dAction = DP!LZMA_FINISH /\ dDec.c \notin Arriving.ends)
      BY <2>1, <2>2, DecoderAssumptions, DP!FinishTurns
    <3>2. dDec.seq = "RUN"
      BY <2>1, RunsOrEnds
    <3>3. dAction = LZMA_FINISH /\ dAction = DP!LZMA_FINISH /\ dDec.c \notin Arriving.ends
      BY <3>1, <3>2, SameCodes
    <3>4. dFed = plan.len
      BY <2>1, <3>3 DEF Received
    <3>5. dDec.c + dAvailIn = dFed /\ dAvailIn = 0
      BY <2>1, <3>2, <3>3 DEF DP!IInv, DP!InStep
    <3>6. dDec.c = plan.len
      BY <3>4, <3>5, WireFacts
    <3>. QED  BY <3>3, <3>6, WireFacts, PlanFacts
  <2>. QED  BY <1>1, <1>2, <2>1, <2>2 DEF Received
<1>7. UNCHANGED decoder \/ Decode \/ FinishDecoding \/ \E n \in 0 .. MaxChunk : HandOn(n)
  BY DEF PipeNext, pipe, Feed, FinishEncoding, Encode
<1>. QED  BY <1>3, <1>4, <1>5, <1>6, <1>7

LEMMA InitPInv == PipeInit => PInv
<1>. SUFFICES ASSUME PipeInit PROVE PInv
  OBVIOUS
<1>1. IInv
  BY InitIInv DEF PipeInit
<1>2. plan \in Plans /\ wire = <<>> /\ Len(wire) = 0 /\ wire \in Seq(Nat) /\ pc = "idle"
  BY EmptySeq DEF PipeInit, Init
<1>3. enc.p = 0 /\ enc.c = 0 /\ fed = 0 /\ status # LZMA_STREAM_END
  BY DEF PipeInit, Init, NewEncoder, LZMA_OK, LZMA_STREAM_END
<1>4. OnWire
  BY <1>2, <1>3 DEF OnWire
<1>5. Planned
  BY <1>2, <1>3, PlanFacts DEF Planned, Plaintext
<1>6. DP!IInv
  BY SameInit, DecoderAssumptions, DP!InitIInv DEF PipeInit
<1>7. Received
  BY <1>2 DEF PipeInit, D!Init, D!NewDecoder, Received
<1>. QED  BY <1>1, <1>4, <1>5, <1>6, <1>7 DEF PInv

LEMMA NextPInv == PInv /\ [PipeNext]_pipe => PInv'
<1>. SUFFICES ASSUME PInv, [PipeNext]_pipe PROVE PInv'
  OBVIOUS
<1>1. IInv'
  BY EncoderSteps, NextIInv DEF PInv
<1>2. OnWire' /\ Planned'
  BY WirePInv
<1>3. DP!IInv'
  BY <1>2, DecoderSteps, DecoderAssumptions, DP!NextIInv DEF PInv
<1>4. Received'
  BY <1>2, <1>3, ReceivedPInv
<1>. QED  BY <1>1, <1>2, <1>3, <1>4 DEF PInv

LEMMA PipeSpecPInv == PipeSpec => []PInv
  BY InitPInv, NextPInv, PTL DEF PipeSpec

-----------------------------------------------------------------------------
(* The encoder does in the pipe what it does alone (XzPipe!Feed, FinishEncoding, Encode). *)
THEOREM PipeEncodes == PipeSpec => Spec
<1>1. PipeInit => Init
  BY DEF PipeInit
<1>2. [PipeNext]_pipe => [Next]_vars
  BY EncoderSteps
<1>. QED  BY <1>1, <1>2, PTL DEF PipeSpec, Spec

(* There, too, it keeps its promises: what it does with its pieces does not depend on who
   waits for its strings (php_xz_encode_context_process, xz_encode_add, xz_encode_finish). *)
COROLLARY EncoderInPipe ==
    PipeSpec => [](TypeOK /\ OutInOrder /\ InputTaken /\ FinishCompletes /\ RefusalsExplained)
  BY PipeEncodes, EncodeTyped, EncodedInOrder, PiecesTaken, FinishEnds, RefusedWithReason, PTL

(* So does the decoder, for the file that arrives is the one the encoder writes: nothing on
   the way through the two output strings changes a byte of it, or its place. *)
THEOREM PipeDecodes == PipeSpec => D!Spec
<1>1. PipeInit => D!Init
  BY DEF PipeInit
<1>2. PInv /\ PInv' /\ [PipeNext]_pipe => [D!Next]_D!vars
  <2>. SUFFICES ASSUME PInv, PInv', [PipeNext]_pipe PROVE [D!Next]_D!vars
    OBVIOUS
  <2>1. [DP!Next]_DP!vars
    BY DecoderSteps DEF PInv
  <2>2. DP!Next => D!Next
    BY SameAdd, SameCode, SameFinish DEF D!Next, DP!Next
  <2>3. DP!vars = D!vars
    BY DEF DP!vars, D!vars, DP!caller, D!caller, DP!object, D!object, DP!string, D!string
  <2>4. DP!vars' = D!vars'
    BY DEF DP!vars, D!vars, DP!caller, D!caller, DP!object, D!object, DP!string, D!string
  <2>. QED  BY <2>1, <2>2, <2>3, <2>4
<1>. QED  BY <1>1, <1>2, PipeSpecPInv, PTL DEF PipeSpec, D!Spec

(* What comes out is what went in: whatever the encoder keeps to itself and however
   its strings are cut up anew, the decoder refuses none of them, returns no byte that
   was not fed, and ends with all of the plaintext, at the last byte the encoder
   returned (docs/USAGE.md, Encode lifecycle and Decode lifecycle). *)
THEOREM WhatWentInComesOut == PipeSpec => []RoundTrip
<1>1. PInv => RoundTrip
  <2>. SUFFICES ASSUME PInv PROVE RoundTrip
    OBVIOUS
  <2>. USE DEF PInv
  <2>1. plan \in Plans /\ Arriving = plan
    BY WireFacts
  <2>2. dDec.seq \in {"RUN", "END"} /\ (dDec.seq = "END" => dDec.c = plan.len)
    BY RunsOrEnds
  <2>3. dRet = "false" => dWas = LZMA_STREAM_END
    BY <2>2, SameCodes DEF DP!IInv, DP!Strings
  <2>4. /\ dStart + (Len(dOut) - dAvailOut) = dDec.p
        /\ \A i \in 1 .. Len(dOut) - dAvailOut : dOut[i] = dStart + i
    BY <2>2 DEF DP!IInv, DP!Strings, DP!Ordered
  <2>5. dPc = "process" => Len(dOut) - dAvailOut = dNextOut /\ dNextOut \in Nat /\ dRet = "none"
    <3>1. dNextOut \in Nat
      BY WireFacts DEF DP!IInv, DP!TypeOK
    <3>2. XZ_BUFFER_SIZE \in Nat
      BY BufferAssumption
    <3>3. dPc = "process" => dAvailOut = XZ_BUFFER_SIZE /\ Len(dOut) = dNextOut + XZ_BUFFER_SIZE /\ dRet = "none"
      BY DEF DP!IInv, DP!Strings
    <3>. QED  BY <3>1, <3>2, <3>3
  <2>6. D!OutInOrder
    BY <2>4, <2>5 DEF D!OutInOrder, D!Built
  <2>7. /\ dPc = "idle" => D!Returned = dDec.p
        /\ D!Returned <= dDec.p
    <3>1. CASE dPc = "idle"
      <4>1. DP!Returned = dDec.p
        BY <2>2, <3>1, DecoderAssumptions, DP!ReturnedIdle
      <4>2. D!Returned = dDec.p
        BY <4>1 DEF D!Returned, DP!Returned
      <4>. QED  BY <4>2, WireFacts
    <3>2. CASE dPc = "process"
      <4>1. D!Returned = dStart
        BY <2>5, <3>2, WireFacts DEF D!Returned
      <4>. QED  BY <2>4, <2>5, <3>2, <4>1, WireFacts
    <3>. QED  BY <3>1, <3>2 DEF DP!IInv, DP!TypeOK
  \* from the decoder back to the encoder
  <2>8. dDec.c <= dFed /\ dFed <= Len(wire) /\ Len(wire) <= enc.p /\ enc.p <= plan.len
    <3>1. CASE pc = "idle"
      BY <3>1, WireFacts DEF OnWire, Planned, Received, DP!IInv, DP!InStep
    <3>2. CASE pc = "process"
      <4>1. nextOut \in Nat /\ Len(out) - availOut = nextOut
        BY <3>2, Types DEF IInv, Strings
      <4>2. start <= enc.p
        BY <4>1, WireFacts DEF IInv, Strings
      <4>. QED  BY <3>2, <4>2 DEF OnWire, Planned, Received, DP!IInv, DP!InStep
    <3>. QED  BY <3>1, <3>2 DEF IInv, TypeOK
  <2>9. /\ plan.yield[dDec.c] \in Nat /\ plan.yield[enc.p] \in Nat
        /\ plan.yield[dDec.c] <= plan.yield[enc.p]
    <3>1. dDec.c \in 0 .. plan.len /\ enc.p \in 0 .. plan.len /\ dDec.c <= enc.p
      BY <2>8, WireFacts
    <3>. QED  BY <2>1, <3>1, PlanFacts, YieldMonotone
  <2>10. dDec.p <= plan.yield[dDec.c]
    BY <2>1 DEF DP!IInv, DP!InStep
  <2>11. enc.c <= fed
    BY Types DEF IInv, InStep
  <2>12. D!Returned <= fed
    <3>1. D!Returned \in Nat
      BY WireFacts DEF D!Returned
    <3>2. plan.yield[enc.p] <= enc.c
      BY DEF Planned
    <3>. QED  BY <2>7, <2>9, <2>10, <2>11, <3>1, <3>2, WireFacts
  <2>13. ASSUME dPc = "idle", D!GetStatus = LZMA_STREAM_END
         PROVE  D!Returned = fed /\ status = LZMA_STREAM_END /\ D!GetReadLen = Len(wire)
    <3>1. dDec.seq = "END" /\ dDec.p = plan.yield[dDec.c]
      BY <2>1, <2>13, SameCodes DEF D!GetStatus, DP!IInv, DP!AtEnd
    <3>2. dDec.c = plan.len /\ Len(wire) = plan.len /\ enc.p = plan.len
      BY <2>2, <2>8, <3>1, WireFacts
    <3>3. status = LZMA_STREAM_END
      <4>1. pc = "idle"
        BY <3>2 DEF IInv, TypeOK, OnWire, Planned
      <4>2. action = LZMA_FINISH
        BY <3>2 DEF Planned
      <4>. QED  BY <4>1, <4>2 DEF IInv, AtEnd
    <3>4. D!Returned = Plaintext /\ Plaintext \in Nat
      BY <2>1, <2>7, <2>13, <3>1, <3>2, PlanFacts DEF Plaintext
    <3>5. fed <= Plaintext
      BY DEF Planned
    <3>6. D!Returned = fed
      BY <2>12, <3>4, <3>5, WireFacts
    <3>. QED  BY <3>2, <3>3, <3>6 DEF D!GetReadLen
  <2>. QED  BY <2>3, <2>6, <2>12, <2>13 DEF RoundTrip
<1>. QED  BY <1>1, PipeSpecPInv, PTL
=============================================================================
