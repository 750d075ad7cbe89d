----------------------- MODULE XzWriteStream_proofs -----------------------
(***************************************************************************)
(* Proofs about XzWriteStream, for every buffer size, every sequence of    *)
(* writes, flushes and the close, and every short write of the inner       *)
(* stream.                                                                 *)
(***************************************************************************)
EXTENDS XzWriteStream, Common_proofs

USE BufferAssumption, BoundAssumption, FailAssumption

LEMMA InitIInv == Init => IInv
<1>. SUFFICES ASSUME Init PROVE IInv
  OBVIOUS
<1>1. TypeOK
  <2>1. enc \in EncoderState
    BY DEF Init, NewEncoder, EncoderState
  <2>2. /\ stored \in Nat /\ inBuf \in [Slots -> Nat] /\ nextIn \in 0 .. XZ_BUFFER_SIZE
        /\ availIn \in 0 .. XZ_BUFFER_SIZE + MaxCount /\ outBuf \in [Slots -> Nat]
        /\ nextOut \in 0 .. XZ_BUFFER_SIZE /\ availOut \in 0 .. XZ_BUFFER_SIZE
        /\ count \in 0 .. MaxCount /\ wrote \in 0 .. count /\ offered \in Nat
    BY DEF Init
  <2>3. intact \in BOOLEAN /\ failed \in BOOLEAN /\ told \in BOOLEAN
    BY Zenon DEF Init
  <2>4. /\ pc \in {"idle", "fill", "compress", "emit", "tail", "finish", "drain", "closed"}
        /\ op \in {"none", "write", "flush", "close"} /\ lzret \in LzmaRet
    BY DEF Init, LzmaRet
  <2>. QED  BY <2>1, <2>2, <2>3, <2>4 DEF TypeOK
<1>2. PlaintextInOrder /\ CompressedInOrder
  BY DEF Init, PlaintextInOrder, CompressedInOrder, NewEncoder, Accepted
<1>3. ControlInv /\ EncoderInv /\ UnsentKept
  BY DEF Init, ControlInv, EncoderInv, UnsentKept, NewEncoder
<1>. QED  BY <1>1, <1>2, <1>3 DEF IInv

-----------------------------------------------------------------------------
(* One lemma per action. *)

LEMMA StutterIInv == IInv /\ UNCHANGED vars => IInv'
  BY DEF IInv, vars, file, input, output, call, TypeOK, PlaintextInOrder, CompressedInOrder,
         UnsentKept, ControlInv, EncoderInv, Accepted, Slots

LEMMA CallIInv ==
    ASSUME IInv, FlushCall \/ CloseCall \/ \E n \in 1 .. MaxCount : WriteCall(n)
    PROVE  IInv'
<1>. USE DEF file, input, output
<1>1. CASE FlushCall
  BY <1>1 DEF FlushCall, Defined, IInv, TypeOK, PlaintextInOrder, CompressedInOrder, UnsentKept, ControlInv,
             EncoderInv, Accepted, Slots
<1>2. CASE CloseCall
  BY <1>2 DEF CloseCall, Defined, IInv, TypeOK, PlaintextInOrder, CompressedInOrder, UnsentKept, ControlInv,
             EncoderInv, Accepted, Slots
<1>3. ASSUME NEW n \in 1 .. MaxCount, WriteCall(n) PROVE IInv'
  <2>. USE <1>3 DEF WriteCall
  <2>1. TypeOK' /\ ControlInv'
    BY DEF IInv, TypeOK, Slots, ControlInv, Defined
  <2>2. PlaintextInOrder' /\ CompressedInOrder' /\ EncoderInv' /\ UnsentKept'
    BY DEF IInv, TypeOK, ControlInv, PlaintextInOrder, CompressedInOrder, EncoderInv, UnsentKept, Accepted
  <2>. QED  BY <2>1, <2>2 DEF IInv
<1>. QED  BY <1>1, <1>2, <1>3

LEMMA GatherInBuf ==
    ASSUME TypeOK, ControlInv, NEW n \in Nat, Gather(n)
    PROVE  /\ inBuf' \in [Slots -> Nat]
           /\ availIn' = availIn + n
           /\ \A i \in 0 .. availIn - 1 : i \in Slots => inBuf'[i] = inBuf[i]
           /\ \A i \in availIn .. availIn + n - 1 : i \in Slots => inBuf'[i] = offered + wrote + (i - availIn) + 1
  BY DEF TypeOK, Gather, Slots

LEMMA FillIInv == ASSUME IInv, Fill PROVE IInv'
<1>. USE DEF Fill, Overfull, file, output, Left, Room
<1>1. Room \in Nat /\ wrote \in Nat /\ availIn \in Nat /\ availIn + Room = XZ_BUFFER_SIZE /\ offered \in Nat
  BY DEF IInv, TypeOK, ControlInv
<1>2. /\ inBuf' \in [Slots -> Nat]
      /\ availIn' = XZ_BUFFER_SIZE
      /\ \A i \in 0 .. availIn - 1 : i \in Slots => inBuf'[i] = inBuf[i]
      /\ \A i \in availIn .. XZ_BUFFER_SIZE - 1 : i \in Slots => inBuf'[i] = offered + wrote + (i - availIn) + 1
  BY <1>1, GatherInBuf DEF IInv
<1>3. TypeOK'
  BY <1>1, <1>2 DEF IInv, TypeOK, Slots
<1>4. ControlInv'
  BY <1>1, <1>2 DEF IInv, ControlInv
<1>5. CompressedInOrder' /\ EncoderInv' /\ UnsentKept'
  BY DEF IInv, CompressedInOrder, EncoderInv, UnsentKept, ControlInv
<1>6. PlaintextInOrder'
  <2>1. SUFFICES ASSUME ~failed
                 PROVE  /\ enc.faithful /\ enc.c + XZ_BUFFER_SIZE = offered + wrote + Room
                        /\ \A j \in 1 .. XZ_BUFFER_SIZE : inBuf'[j - 1] = enc.c + j
    BY <1>1, <1>2 DEF IInv, PlaintextInOrder, ControlInv, Accepted
  <2>2. /\ enc.faithful /\ enc.c + availIn = offered + wrote /\ enc.c \in Nat
        /\ \A j \in 1 .. availIn : inBuf[j - 1] = enc.c + j
    <3>1. nextIn = 0
      BY DEF IInv, ControlInv
    <3>2. enc.c \in Nat
      BY DEF IInv, TypeOK, EncoderState
    <3>. QED  BY <2>1, <1>1, <3>1, <3>2 DEF IInv, PlaintextInOrder, Accepted
  <2>3. ASSUME NEW j \in 1 .. XZ_BUFFER_SIZE PROVE inBuf'[j - 1] = enc.c + j
    <3>1. j - 1 \in Slots
      BY DEF Slots
    <3>2. CASE j <= availIn
      BY <1>1, <1>2, <2>2, <3>1, <3>2
    <3>3. CASE j > availIn
      BY <1>1, <1>2, <2>2, <3>1, <3>3
    <3>. QED  BY <1>1, <3>2, <3>3
  <2>. QED  BY <1>1, <2>2, <2>3
<1>. QED  BY <1>3, <1>4, <1>5, <1>6 DEF IInv

LEMMA WriteTailIInv == ASSUME IInv, WriteTail PROVE IInv'
<1>. USE DEF WriteTail, Overfull, file, output, Left, Room
<1>1. /\ Left \in 0 .. MaxCount /\ wrote \in Nat /\ availIn \in 0 .. XZ_BUFFER_SIZE
      /\ offered \in Nat /\ count \in 0 .. MaxCount /\ nextIn = 0
  BY DEF IInv, TypeOK, ControlInv
<1>2. /\ inBuf' \in [Slots -> Nat]
      /\ availIn' = availIn + Left
      /\ \A i \in 0 .. availIn - 1 : i \in Slots => inBuf'[i] = inBuf[i]
      /\ \A i \in availIn .. availIn + Left - 1 : i \in Slots => inBuf'[i] = offered + wrote + (i - availIn) + 1
  BY <1>1, GatherInBuf DEF IInv
<1>3. TypeOK'
  <2>1. told' \in BOOLEAN
    BY Zenon DEF IInv, TypeOK
  <2>2. pc' = "idle" /\ op' = "none" /\ count' = 0 /\ wrote' = 0 /\ offered' \in Nat
    BY <1>1
  <2>3. availIn' \in 0 .. XZ_BUFFER_SIZE + MaxCount
    BY <1>1, <1>2
  <2>. QED  BY <1>2, <2>1, <2>2, <2>3 DEF IInv, TypeOK, Slots
<1>4. ControlInv'
  BY <1>1 DEF IInv, ControlInv
<1>5. CompressedInOrder' /\ EncoderInv' /\ UnsentKept'
  BY DEF IInv, CompressedInOrder, EncoderInv, UnsentKept, ControlInv
<1>6. PlaintextInOrder'
  <2>1. SUFFICES ASSUME ~failed
                 PROVE  /\ enc.faithful /\ enc.c + availIn + Left = offered + count
                        /\ availIn + Left <= XZ_BUFFER_SIZE
                        /\ \A j \in 1 .. availIn + Left : inBuf'[j - 1] = enc.c + j
    BY <1>1, <1>2 DEF IInv, TypeOK, EncoderState, PlaintextInOrder, Accepted
  <2>2. /\ enc.faithful /\ enc.c + availIn = offered + wrote /\ enc.c \in Nat
        /\ \A j \in 1 .. availIn : inBuf[j - 1] = enc.c + j
    <3>1. enc.c \in Nat
      BY DEF IInv, TypeOK, EncoderState
    <3>. QED  BY <2>1, <1>1, <3>1 DEF IInv, PlaintextInOrder, Accepted
  <2>3. availIn + Left <= XZ_BUFFER_SIZE
    BY <2>1, <1>1 DEF IInv, EncoderInv
  <2>4. ASSUME NEW j \in 1 .. availIn + Left PROVE inBuf'[j - 1] = enc.c + j
    <3>1. j - 1 \in Slots
      BY <1>1, <2>3 DEF Slots
    <3>2. CASE j <= availIn
      BY <1>1, <1>2, <2>2, <3>1, <3>2
    <3>3. CASE j > availIn
      BY <1>1, <1>2, <2>2, <3>1, <3>3
    <3>. QED  BY <1>1, <3>2, <3>3
  <2>. QED  BY <1>1, <2>2, <2>3, <2>4
<1>. QED  BY <1>3, <1>4, <1>5, <1>6 DEF IInv

LEMMA CompressDoneIInv == ASSUME IInv, CompressDone PROVE IInv'
<1>. USE DEF CompressDone, CompressReturns, file, output
<1>1. TypeOK' /\ ControlInv'
  BY DEF IInv, TypeOK, ControlInv, Slots
<1>2. CompressedInOrder' /\ EncoderInv' /\ UnsentKept'
  BY DEF IInv, CompressedInOrder, EncoderInv, UnsentKept, ControlInv
<1>3. PlaintextInOrder'
  BY DEF IInv, TypeOK, PlaintextInOrder, Accepted
<1>. QED  BY <1>1, <1>2, <1>3 DEF IInv

-----------------------------------------------------------------------------
(* The two actions that call lzma_code(). *)

LEMMA CodedBounds ==
    ASSUME TypeOK, NEW room \in 0 .. XZ_BUFFER_SIZE, NEW from \in 0 .. XZ_BUFFER_SIZE,
           from + room = XZ_BUFFER_SIZE,
           NEW o, EncoderFits(enc, availIn, room, o), Coded(o, from, room)
    PROVE  /\ o.used \in 0 .. availIn /\ o.made \in 0 .. room /\ o.ret \in LzmaRet
           /\ enc' = o.next /\ enc' \in EncoderState
           /\ availIn' = availIn - o.used
           /\ nextOut' = from + o.made
           /\ availOut' = room - o.made
           /\ outBuf' \in [Slots -> Nat]
           /\ \A i \in from .. from + o.made - 1 : outBuf'[i] = enc.p + (i - from) + 1
           /\ \A i \in 0 .. from - 1 : outBuf'[i] = outBuf[i]
<1>. DEFINE m == o.made
<1>1. /\ o.used \in 0 .. availIn /\ m \in 0 .. room /\ o.ret \in LzmaRet
      /\ enc' = o.next /\ enc' \in EncoderState
      /\ availIn' = availIn - o.used /\ nextOut' = from + m /\ availOut' = room - m
  BY DEF Coded, EncoderFits
<1>2. outBuf' = [i \in Slots |-> IF i \in from .. from + m - 1 THEN enc.p + (i - from) + 1 ELSE outBuf[i]]
  BY DEF Coded
<1>3. enc.p \in Nat /\ outBuf \in [Slots -> Nat]
  BY DEF TypeOK, EncoderState
<1>. HIDE DEF m
<1>4. outBuf' \in [Slots -> Nat]
  BY <1>1, <1>2, <1>3 DEF Slots
<1>5. \A i \in from .. from + m - 1 : outBuf'[i] = enc.p + (i - from) + 1
  BY <1>1, <1>2 DEF Slots
<1>6. \A i \in 0 .. from - 1 : outBuf'[i] = outBuf[i]
  BY <1>1, <1>2 DEF Slots
<1>. QED  BY <1>1, <1>4, <1>5, <1>6 DEF m

(* Both call it with room in out_buf, on the bytes that follow the encoder's. *)
LEMMA CodedInOrder ==
    ASSUME IInv, ~failed, NEW action \in {LZMA_RUN, LZMA_FINISH},
           NEW room \in Nat \ {0},
           enc.seq = "RUN" \/ (enc.seq = "FINISH" /\ action = LZMA_FINISH),
           action = LZMA_RUN => availIn > 0,
           NEW o \in LzmaCode(action, room)
    PROVE  Encoded(enc, action, availIn, o)
<1>. DEFINE in == [j \in 1 .. availIn |-> inBuf[nextIn + j - 1]]
<1>1. enc \in EncoderState /\ availIn \in Nat
  BY DEF IInv, TypeOK
<1>2. ~enc.stuck /\ enc.faithful /\ \A j \in 1 .. availIn : in[j] = enc.c + j
  BY DEF IInv, PlaintextInOrder, EncoderInv
<1>3. o \in LzmaEncode(action, enc, in, availIn, room, MaxStream)
  BY DEF LzmaCode
<1>. HIDE DEF in
<1>. QED  BY <1>1, <1>2, <1>3, EncodeOnce

LEMMA CompressCodeStep ==
    ASSUME IInv, CompressCode
    PROVE  \E used \in 0 .. availIn, made \in 0 .. availOut :
              /\ enc' \in EncoderState
              /\ availIn' = availIn - used
              /\ nextOut' = nextOut + made
              /\ availOut' = availOut - made
              /\ outBuf' \in [Slots -> Nat]
              /\ \/ pc' = "emit" /\ nextIn' = nextIn + used /\ op' = op
                 \/ failed /\ CompressReturns("tail")
              /\ enc'.p = enc.p + made
              /\ \A i \in nextOut .. nextOut + made - 1 : outBuf'[i] = enc.p + (i - nextOut) + 1
              /\ \A i \in 0 .. nextOut - 1 : outBuf'[i] = outBuf[i]
              /\ ~failed =>
                    /\ enc'.c = enc.c + used
                    /\ enc'.faithful /\ ~enc'.stuck /\ enc'.seq = "RUN"
<1>1. PICK o \in LzmaCode(LZMA_RUN, availOut) :
         /\ Coded(o, nextOut, availOut)
         /\ IF o.ret = LZMA_OK
            THEN pc' = "emit" /\ nextIn' = nextIn + o.used /\ UNCHANGED op
            ELSE CompressReturns("tail")
  BY DEF CompressCode
<1>2. /\ enc \in EncoderState /\ availIn \in Nat /\ nextOut \in 0 .. XZ_BUFFER_SIZE
      /\ availOut \in 0 .. XZ_BUFFER_SIZE /\ nextOut + availOut = XZ_BUFFER_SIZE /\ TypeOK
  BY DEF IInv, TypeOK, UnsentKept, CompressCode
<1>3. EncoderFits(enc, availIn, availOut, o)
  BY <1>1, <1>2, EncodeFits DEF LzmaCode
<1>4. ASSUME ~failed PROVE Encoded(enc, LZMA_RUN, availIn, o)
  <2>1. availOut \in Nat \ {0} /\ availIn > 0 /\ enc.seq = "RUN"
    BY <1>2, <1>4 DEF IInv, EncoderInv, CompressCode
  <2>. QED  BY <1>1, <1>4, <2>1, CodedInOrder
<1>5. /\ o.used \in 0 .. availIn /\ o.made \in 0 .. availOut
      /\ enc' = o.next /\ enc' \in EncoderState
      /\ availIn' = availIn - o.used /\ nextOut' = nextOut + o.made /\ availOut' = availOut - o.made
      /\ outBuf' \in [Slots -> Nat]
      /\ \A i \in nextOut .. nextOut + o.made - 1 : outBuf'[i] = enc.p + (i - nextOut) + 1
      /\ \A i \in 0 .. nextOut - 1 : outBuf'[i] = outBuf[i]
  BY <1>1, <1>2, <1>3, CodedBounds
<1>6. ~failed => /\ o.ret = LZMA_OK
                 /\ enc'.c = enc.c + o.used
                 /\ enc'.faithful /\ ~enc'.stuck /\ enc'.seq = "RUN"
  BY <1>4, <1>5 DEF Encoded
<1>7. \/ pc' = "emit" /\ nextIn' = nextIn + o.used /\ op' = op
      \/ failed /\ CompressReturns("tail")
  BY <1>1, <1>6
<1>8. enc'.p = enc.p + o.made
  BY <1>1, <1>2, <1>5, EncodeMoves DEF LzmaCode, Moved
<1>. QED  BY <1>5, <1>6, <1>7, <1>8

LEMMA FinishCodeStep ==
    ASSUME IInv, FinishCode
    PROVE  \E used \in 0 .. availIn, made \in 0 .. XZ_BUFFER_SIZE :
              /\ enc' \in EncoderState /\ lzret' \in LzmaRet
              /\ availIn' = availIn - used
              /\ nextIn' = nextIn + used
              /\ nextOut' = made
              /\ availOut' = XZ_BUFFER_SIZE - made
              /\ outBuf' \in [Slots -> Nat]
              /\ enc'.p = enc.p + made
              /\ \A i \in 0 .. made - 1 : outBuf'[i] = enc.p + i + 1
              /\ ~failed =>
                    /\ enc'.c = enc.c + used
                    /\ enc'.faithful /\ ~enc'.stuck
                    /\ \/ lzret' = LZMA_OK /\ enc'.seq = "FINISH"
                       \/ lzret' = LZMA_STREAM_END /\ enc'.seq = "END" /\ used = availIn
<1>1. PICK o \in LzmaCode(LZMA_FINISH, XZ_BUFFER_SIZE) :
         Coded(o, 0, XZ_BUFFER_SIZE) /\ nextIn' = nextIn + o.used /\ lzret' = o.ret
  BY DEF FinishCode
<1>2. enc \in EncoderState /\ availIn \in Nat /\ TypeOK
  BY DEF IInv, TypeOK
<1>3. EncoderFits(enc, availIn, XZ_BUFFER_SIZE, o)
  BY <1>1, <1>2, EncodeFits DEF LzmaCode
<1>4. ASSUME ~failed PROVE Encoded(enc, LZMA_FINISH, availIn, o)
  <2>1. enc.seq \in {"RUN", "FINISH"} /\ LZMA_FINISH # LZMA_RUN
    BY <1>4 DEF IInv, EncoderInv, FinishCode, LZMA_RUN, LZMA_FINISH
  <2>. QED  BY <1>1, <1>4, <2>1, CodedInOrder
<1>5. /\ o.used \in 0 .. availIn /\ o.made \in 0 .. XZ_BUFFER_SIZE /\ o.ret \in LzmaRet
      /\ enc' = o.next /\ enc' \in EncoderState
      /\ availIn' = availIn - o.used /\ nextOut' = 0 + o.made /\ availOut' = XZ_BUFFER_SIZE - o.made
      /\ outBuf' \in [Slots -> Nat]
      /\ \A i \in 0 .. 0 + o.made - 1 : outBuf'[i] = enc.p + (i - 0) + 1
  BY <1>1, <1>2, <1>3, CodedBounds
<1>6. ~failed => /\ enc'.c = enc.c + o.used
                 /\ enc'.faithful /\ ~enc'.stuck
                 /\ \/ lzret' = LZMA_OK /\ enc'.seq = "FINISH"
                    \/ lzret' = LZMA_STREAM_END /\ enc'.seq = "END" /\ o.used = availIn
  BY <1>1, <1>4, <1>5 DEF Encoded, LZMA_RUN, LZMA_FINISH
<1>7. nextOut' = o.made /\ \A i \in 0 .. o.made - 1 : outBuf'[i] = enc.p + i + 1
  <2>1. enc.p \in Nat
    BY <1>2 DEF EncoderState
  <2>. QED  BY <1>5, <2>1
<1>8. enc'.p = enc.p + o.made
  BY <1>1, <1>2, <1>5, EncodeMoves DEF LzmaCode, Moved
<1>. QED  BY <1>1, <1>5, <1>6, <1>7, <1>8

LEMMA CompressCodeIInv == ASSUME IInv, CompressCode PROVE IInv'
<1>. USE DEF CompressReturns, file
<1>1. PICK used \in 0 .. availIn, made \in 0 .. availOut :
              /\ enc' \in EncoderState
              /\ availIn' = availIn - used
              /\ nextOut' = nextOut + made
              /\ availOut' = availOut - made
              /\ outBuf' \in [Slots -> Nat]
              /\ \/ pc' = "emit" /\ nextIn' = nextIn + used /\ op' = op
                 \/ failed /\ CompressReturns("tail")
              /\ enc'.p = enc.p + made
              /\ \A i \in nextOut .. nextOut + made - 1 : outBuf'[i] = enc.p + (i - nextOut) + 1
              /\ \A i \in 0 .. nextOut - 1 : outBuf'[i] = outBuf[i]
              /\ ~failed =>
                    /\ enc'.c = enc.c + used
                    /\ enc'.faithful /\ ~enc'.stuck /\ enc'.seq = "RUN"
  BY CompressCodeStep
<1>2. /\ UNCHANGED <<stored, intact, inBuf, count, wrote, lzret, offered, failed, told>>
      /\ pc = "compress" /\ availIn > 0
  BY DEF CompressCode
<1>3. /\ availIn \in 0 .. XZ_BUFFER_SIZE /\ nextIn \in 0 .. XZ_BUFFER_SIZE
      /\ nextIn + availIn <= XZ_BUFFER_SIZE
      /\ nextOut \in 0 .. XZ_BUFFER_SIZE /\ availOut \in 0 .. XZ_BUFFER_SIZE
      /\ nextOut + availOut = XZ_BUFFER_SIZE
      /\ op \in {"write", "flush"}
      /\ op = "write" \/ (count = 0 /\ wrote = 0)
  BY <1>2 DEF IInv, TypeOK, UnsentKept, ControlInv
<1>4. /\ availIn' \in 0 .. XZ_BUFFER_SIZE /\ nextIn' \in 0 .. XZ_BUFFER_SIZE
      /\ nextIn' + availIn' <= XZ_BUFFER_SIZE
      /\ nextOut' \in 0 .. XZ_BUFFER_SIZE /\ availOut' \in 0 .. XZ_BUFFER_SIZE
      /\ nextOut' + availOut' = XZ_BUFFER_SIZE
  BY <1>1, <1>3
<1>5. \/ pc' = "emit" /\ op' = op
      \/ pc' = "tail" /\ op' = op /\ op = "write" /\ nextIn' = 0
      \/ pc' = "idle" /\ op' = "none" /\ op = "flush" /\ nextIn' = 0
  BY <1>1, <1>3
<1>6. TypeOK'
  BY <1>1, <1>2, <1>4, <1>5 DEF IInv, TypeOK, Slots
<1>7. ControlInv'
  BY <1>2, <1>3, <1>4, <1>5 DEF ControlInv
<1>8. PlaintextInOrder' /\ CompressedInOrder' /\ EncoderInv'
  <2>1. SUFFICES ASSUME ~failed PROVE PlaintextInOrder' /\ CompressedInOrder' /\ EncoderInv'
    BY <1>2 DEF PlaintextInOrder, CompressedInOrder, EncoderInv
  <2>2. /\ enc'.c = enc.c + used /\ enc'.p = enc.p + made
        /\ enc'.faithful /\ ~enc'.stuck /\ enc'.seq = "RUN"
        /\ pc' = "emit" /\ nextIn' = nextIn + used
        /\ \A i \in nextOut .. nextOut + made - 1 : outBuf'[i] = enc.p + (i - nextOut) + 1
    BY <1>1, <2>1
  <2>3. enc.c \in Nat /\ enc.p \in Nat /\ stored \in Nat /\ Accepted \in Nat
    BY DEF IInv, TypeOK, EncoderState, Accepted
  <2>4. PlaintextInOrder'
    <3>1. /\ enc.c + availIn = Accepted
          /\ \A j \in 1 .. availIn : inBuf[nextIn + j - 1] = enc.c + j
      BY <2>1 DEF IInv, PlaintextInOrder
    <3>2. enc'.c + availIn' = Accepted'
      BY <1>1, <1>2, <1>3, <2>2, <2>3, <3>1 DEF Accepted
    <3>3. \A j \in 1 .. availIn' : inBuf'[nextIn' + j - 1] = enc'.c + j
      <4>1. TAKE j \in 1 .. availIn'
      <4>2. used + j \in 1 .. availIn /\ nextIn' + j - 1 = nextIn + (used + j) - 1
        BY <1>1, <1>3, <2>2
      <4>3. inBuf[nextIn + (used + j) - 1] = enc.c + (used + j)
        BY <3>1, <4>2
      <4>4. enc'.c + j = enc.c + (used + j)
        BY <1>1, <1>3, <2>2, <2>3, <4>2
      <4>. QED  BY <1>2, <4>2, <4>3, <4>4
    <3>. QED  BY <1>4, <2>2, <3>2, <3>3 DEF PlaintextInOrder
  <2>5. CompressedInOrder'
    <3>1. intact /\ stored = enc.p /\ nextOut = 0
      BY <1>2, <2>1, <2>3 DEF IInv, CompressedInOrder, EncoderInv
    <3>. QED  BY <1>1, <1>2, <2>2, <2>3, <3>1 DEF CompressedInOrder
  <2>6. EncoderInv'
    BY <1>2, <2>1, <2>2 DEF IInv, EncoderInv
  <2>. QED  BY <2>4, <2>5, <2>6
<1>9. UnsentKept'
  <2>1. /\ \A i \in 0 .. nextOut - 1 : outBuf[i] = enc.p - nextOut + i + 1
        /\ enc.p - nextOut <= stored /\ op # "close"
        /\ enc.p \in Nat /\ stored \in Nat
    BY <1>3 DEF IInv, TypeOK, EncoderState, UnsentKept
  <2>2. enc'.p - nextOut' = enc.p - nextOut
    BY <1>1, <1>3, <2>1
  <2>3. ASSUME NEW i \in 0 .. nextOut' - 1 PROVE outBuf'[i] = enc.p - nextOut + i + 1
    <3>1. i \in 0 .. nextOut - 1 \/ i \in nextOut .. nextOut + made - 1
      BY <1>1, <1>3
    <3>2. CASE i \in 0 .. nextOut - 1
      BY <1>1, <2>1, <3>2
    <3>3. CASE i \in nextOut .. nextOut + made - 1
      BY <1>1, <1>3, <2>1, <3>3
    <3>. QED  BY <3>1, <3>2, <3>3
  <2>. QED  BY <1>2, <1>4, <2>1, <2>2, <2>3 DEF UnsentKept
<1>. QED  BY <1>6, <1>7, <1>8, <1>9 DEF IInv

(* What a write of out_buf leaves in the file. *)
LEMMA Stores ==
    ASSUME IInv, NEW k \in Taken, Store(k)
    PROVE  /\ k \in 0 .. nextOut
           /\ stored' \in Nat
           /\ intact' \in BOOLEAN
           /\ failed' \in BOOLEAN
           /\ ~failed' => ~failed /\ k = nextOut /\ stored' = enc.p /\ intact'
<1>1. k \in 0 .. nextOut /\ nextOut \in Nat /\ stored \in Nat
  BY DEF Taken, IInv, TypeOK
<1>2. intact' \in BOOLEAN /\ failed' \in BOOLEAN
  BY Zenon DEF Store, IInv, TypeOK
<1>3. ~failed' => ~failed /\ k = nextOut
  <2>1. ~failed' => ~failed /\ ~(k < nextOut)
    BY Zenon DEF Store
  <2>. QED  BY <1>1, <2>1
<1>4. ~failed' => stored' = enc.p /\ intact'
  BY <1>1, <1>3 DEF Store, IInv, CompressedInOrder
<1>. QED  BY <1>1, <1>2, <1>3, <1>4 DEF Store

LEMMA CompressEmitIInv == ASSUME IInv, CompressEmit PROVE IInv'
<1>. USE DEF CompressReturns
<1>1. PICK k \in Taken :
          /\ Store(k)
          /\ \/ /\ k = nextOut
                /\ nextOut' = 0
                /\ availOut' = XZ_BUFFER_SIZE
                /\ pc' = "compress"
                /\ UNCHANGED <<nextIn, op>>
             \/ /\ k < nextOut
                /\ CompressReturns("tail")
                /\ UNCHANGED <<nextOut, availOut>>
  BY DEF CompressEmit, Rewind, KeepUnsent
<1>2. pc = "emit" /\ UNCHANGED <<enc, inBuf, availIn, outBuf, count, wrote, lzret, offered, told>>
  BY DEF CompressEmit
<1>3. /\ stored' \in Nat /\ intact' \in BOOLEAN /\ failed' \in BOOLEAN
      /\ ~failed' => ~failed /\ k = nextOut /\ stored' = enc.p /\ intact'
      /\ k \in 0 .. nextOut
  BY <1>1, Stores
<1>4. /\ op \in {"write", "flush"} /\ nextOut \in Nat
      /\ op = "write" \/ (count = 0 /\ wrote = 0)
  BY <1>2 DEF IInv, TypeOK, ControlInv
<1>5. TypeOK'
  BY <1>1, <1>2, <1>3, <1>4 DEF IInv, TypeOK, Slots
<1>6. ControlInv'
  BY <1>1, <1>2, <1>4 DEF IInv, TypeOK, ControlInv
<1>7. PlaintextInOrder' /\ CompressedInOrder' /\ EncoderInv'
  <2>1. SUFFICES ASSUME ~failed' PROVE PlaintextInOrder' /\ CompressedInOrder' /\ EncoderInv'
    BY DEF PlaintextInOrder, CompressedInOrder, EncoderInv
  <2>2. /\ ~failed /\ k = nextOut /\ stored' = enc.p /\ intact'
        /\ nextOut' = 0 /\ pc' = "compress" /\ nextIn' = nextIn /\ op' = op
    BY <1>1, <1>3, <1>4, <2>1
  <2>3. PlaintextInOrder'
    BY <1>2, <2>2 DEF IInv, PlaintextInOrder, Accepted
  <2>4. CompressedInOrder'
    <3>1. enc.p \in Nat
      BY DEF IInv, TypeOK, EncoderState
    <3>. QED  BY <1>2, <2>2, <3>1 DEF CompressedInOrder
  <2>5. EncoderInv'
    BY <1>2, <2>2 DEF IInv, EncoderInv
  <2>. QED  BY <2>3, <2>4, <2>5
<1>8. UnsentKept'
  <2>1. /\ nextOut + availOut = XZ_BUFFER_SIZE
        /\ \A i \in 0 .. nextOut - 1 : outBuf[i] = enc.p - nextOut + i + 1
        /\ enc.p - nextOut <= stored
        /\ enc.p \in Nat /\ stored \in Nat /\ nextOut \in Nat
    BY <1>4 DEF IInv, TypeOK, EncoderState, UnsentKept
  <2>2. stored' = stored + k
    BY <1>1 DEF Store
  <2>3. CASE k = nextOut /\ nextOut' = 0 /\ availOut' = XZ_BUFFER_SIZE
    <3>1. enc.p <= stored + k
      BY <2>1, <2>3
    <3>. QED  BY <1>2, <2>1, <2>2, <2>3, <3>1 DEF UnsentKept
  <2>4. CASE UNCHANGED <<nextOut, availOut>>
    <3>1. enc.p - nextOut <= stored + k
      BY <1>3, <2>1
    <3>. QED  BY <1>2, <2>1, <2>2, <2>4, <3>1 DEF UnsentKept
  <2>. QED  BY <1>1, <2>3, <2>4
<1>. QED  BY <1>5, <1>6, <1>7, <1>8 DEF IInv

LEMMA FinishCodeIInv == ASSUME IInv, FinishCode PROVE IInv'
<1>. USE DEF file, call
<1>1. PICK used \in 0 .. availIn, made \in 0 .. XZ_BUFFER_SIZE :
              /\ enc' \in EncoderState /\ lzret' \in LzmaRet
              /\ availIn' = availIn - used
              /\ nextIn' = nextIn + used
              /\ nextOut' = made
              /\ availOut' = XZ_BUFFER_SIZE - made
              /\ outBuf' \in [Slots -> Nat]
              /\ enc'.p = enc.p + made
              /\ \A i \in 0 .. made - 1 : outBuf'[i] = enc.p + i + 1
              /\ ~failed =>
                    /\ enc'.c = enc.c + used
                    /\ enc'.faithful /\ ~enc'.stuck
                    /\ \/ lzret' = LZMA_OK /\ enc'.seq = "FINISH"
                       \/ lzret' = LZMA_STREAM_END /\ enc'.seq = "END" /\ used = availIn
  BY FinishCodeStep
<1>2. /\ UNCHANGED <<stored, intact, inBuf, op, count, wrote, offered, failed, told>>
      /\ pc = "finish" /\ pc' = "drain"
  BY DEF FinishCode
<1>3. /\ availIn \in 0 .. XZ_BUFFER_SIZE /\ nextIn \in 0 .. XZ_BUFFER_SIZE
      /\ nextIn + availIn <= XZ_BUFFER_SIZE
      /\ op = "close" /\ count = 0 /\ wrote = 0
  BY <1>2 DEF IInv, TypeOK, ControlInv
<1>4. /\ availIn' \in 0 .. XZ_BUFFER_SIZE /\ nextIn' \in 0 .. XZ_BUFFER_SIZE
      /\ nextIn' + availIn' <= XZ_BUFFER_SIZE
      /\ nextOut' \in 0 .. XZ_BUFFER_SIZE /\ availOut' \in 0 .. XZ_BUFFER_SIZE
      /\ nextOut' + availOut' = XZ_BUFFER_SIZE
  BY <1>1, <1>3
<1>5. TypeOK'
  BY <1>1, <1>2, <1>4 DEF IInv, TypeOK, Slots
<1>6. ControlInv'
  BY <1>2, <1>3, <1>4 DEF ControlInv
<1>7. PlaintextInOrder' /\ CompressedInOrder' /\ EncoderInv'
  <2>1. SUFFICES ASSUME ~failed PROVE PlaintextInOrder' /\ CompressedInOrder' /\ EncoderInv'
    BY <1>2 DEF PlaintextInOrder, CompressedInOrder, EncoderInv
  <2>2. /\ enc'.c = enc.c + used /\ enc'.p = enc.p + made
        /\ enc'.faithful /\ ~enc'.stuck
        /\ \/ lzret' = LZMA_OK /\ enc'.seq = "FINISH"
           \/ lzret' = LZMA_STREAM_END /\ enc'.seq = "END" /\ used = availIn
        /\ \A i \in 0 .. made - 1 : outBuf'[i] = enc.p + i + 1
    BY <1>1, <2>1
  <2>3. enc.c \in Nat /\ enc.p \in Nat /\ stored \in Nat /\ Accepted \in Nat
    BY DEF IInv, TypeOK, EncoderState, Accepted
  <2>4. PlaintextInOrder'
    <3>1. /\ enc.c + availIn = Accepted
          /\ \A j \in 1 .. availIn : inBuf[nextIn + j - 1] = enc.c + j
      BY <2>1 DEF IInv, PlaintextInOrder
    <3>2. enc'.c + availIn' = Accepted'
      BY <1>1, <1>2, <1>3, <2>2, <2>3, <3>1 DEF Accepted
    <3>3. \A j \in 1 .. availIn' : inBuf'[nextIn' + j - 1] = enc'.c + j
      <4>1. TAKE j \in 1 .. availIn'
      <4>2. used + j \in 1 .. availIn /\ nextIn' + j - 1 = nextIn + (used + j) - 1
        BY <1>1, <1>3
      <4>3. inBuf[nextIn + (used + j) - 1] = enc.c + (used + j)
        BY <3>1, <4>2
      <4>4. enc'.c + j = enc.c + (used + j)
        BY <1>1, <1>3, <2>2, <2>3, <4>2
      <4>. QED  BY <1>2, <4>2, <4>3, <4>4
    <3>. QED  BY <1>4, <2>2, <3>2, <3>3 DEF PlaintextInOrder
  <2>5. CompressedInOrder'
    <3>1. intact /\ stored = enc.p
      BY <1>2, <2>1, <2>3 DEF IInv, CompressedInOrder, EncoderInv
    <3>. QED  BY <1>1, <1>2, <2>2, <2>3, <3>1 DEF CompressedInOrder
  <2>6. EncoderInv'
    <3>1. used = availIn => availIn' = 0
      BY <1>1, <1>3
    <3>2. ~told
      BY <2>1 DEF IInv, EncoderInv
    <3>. QED  BY <1>2, <2>2, <3>1, <3>2 DEF EncoderInv
  <2>. QED  BY <2>4, <2>5, <2>6
<1>8. UnsentKept'
  <2>1. enc.p \in Nat
    BY DEF IInv, TypeOK, EncoderState
  <2>2. enc'.p - nextOut' = enc.p
    BY <1>1, <2>1
  <2>. QED  BY <1>1, <1>2, <1>3, <1>4, <2>1, <2>2 DEF UnsentKept
<1>. QED  BY <1>5, <1>6, <1>7, <1>8 DEF IInv

LEMMA FinishDrainIInv == ASSUME IInv, FinishDrain PROVE IInv'
<1>. USE DEF input, call
<1>1. PICK k \in Taken : Store(k)
  BY DEF FinishDrain
<1>2. /\ pc = "drain" /\ UNCHANGED <<enc, inBuf, nextIn, availIn, outBuf, op, count, wrote, lzret, offered, told>>
      /\ pc' = IF lzret = LZMA_OK THEN "finish" ELSE "closed"
      /\ IF nextOut > 0 THEN nextOut' = 0 /\ availOut' = XZ_BUFFER_SIZE ELSE UNCHANGED <<nextOut, availOut>>
  BY DEF FinishDrain, Finished, Rewind
<1>3. /\ stored' \in Nat /\ intact' \in BOOLEAN /\ failed' \in BOOLEAN
      /\ ~failed' => ~failed /\ stored' = enc.p /\ intact'
  BY <1>1, Stores
<1>4. nextOut' = 0 /\ availOut' = XZ_BUFFER_SIZE
  BY <1>2 DEF IInv, TypeOK, UnsentKept
<1>5. TypeOK'
  BY <1>2, <1>3, <1>4 DEF IInv, TypeOK, Slots
<1>6. ControlInv'
  BY <1>2, <1>4 DEF IInv, TypeOK, ControlInv
<1>7. PlaintextInOrder' /\ CompressedInOrder' /\ EncoderInv'
  <2>1. SUFFICES ASSUME ~failed' PROVE PlaintextInOrder' /\ CompressedInOrder' /\ EncoderInv'
    BY DEF PlaintextInOrder, CompressedInOrder, EncoderInv
  <2>2. ~failed /\ stored' = enc.p /\ intact'
    BY <1>3, <2>1
  <2>3. PlaintextInOrder'
    BY <1>2, <2>2 DEF IInv, PlaintextInOrder, Accepted
  <2>4. CompressedInOrder'
    <3>1. enc.p \in Nat
      BY DEF IInv, TypeOK, EncoderState
    <3>. QED  BY <1>2, <1>4, <2>2, <3>1 DEF CompressedInOrder
  <2>5. EncoderInv'
    BY <1>2, <1>4, <2>2 DEF IInv, EncoderInv, LZMA_OK, LZMA_STREAM_END
  <2>. QED  BY <2>3, <2>4, <2>5
<1>8. UnsentKept'
  <2>1. op = "close" /\ op' = op
    BY <1>2 DEF IInv, ControlInv
  <2>. QED  BY <1>4, <2>1 DEF UnsentKept
<1>. QED  BY <1>5, <1>6, <1>7, <1>8 DEF IInv

LEMMA NextIInv == IInv /\ [Next]_vars => IInv'
  BY StutterIInv, CallIInv, FillIInv, WriteTailIInv, CompressCodeIInv, CompressEmitIInv,
     CompressDoneIInv, FinishCodeIInv, FinishDrainIInv DEF Next, Step

-----------------------------------------------------------------------------
(* The inductive invariant holds in every reachable state. *)
THEOREM SpecIInv == Spec => []IInv
  BY InitIInv, NextIInv, PTL DEF Spec

(* Every variable keeps its type, also after a short write. *)
THEOREM SpecTypeOK == Spec => []TypeOK
<1>1. IInv => TypeOK
  BY DEF IInv
<1>. QED  BY <1>1, SpecIInv, PTL

(* Until a write of the inner stream comes up short, php_xziop_write() and
   php_xz_compress() feed the encoder every byte of the caller once and in order. *)
THEOREM SpecPlaintextInOrder == Spec => []PlaintextInOrder
<1>1. IInv => PlaintextInOrder
  BY DEF IInv
<1>. QED  BY <1>1, SpecIInv, PTL

(* Until then every compressed byte reaches the file once and in order. *)
THEOREM SpecCompressedInOrder == Spec => []CompressedInOrder
<1>1. IInv => CompressedInOrder
  BY DEF IInv
<1>. QED  BY <1>1, SpecIInv, PTL

(* A stream closed without a short write is complete and holds all that was written. *)
THEOREM SpecClosedMeansStored == Spec => []ClosedMeansStored
<1>1. IInv => ClosedMeansStored
  <2>1. SUFFICES ASSUME IInv, pc = "closed", ~failed
                 PROVE  /\ enc.seq = "END" /\ enc.faithful /\ enc.c = offered
                        /\ intact /\ stored = enc.p
                        /\ ~told
    BY DEF ClosedMeansStored
  <2>2. enc.seq = "END" /\ availIn = 0 /\ ~told /\ nextOut = 0 /\ count = 0 /\ wrote = 0
    BY <2>1 DEF IInv, ControlInv, EncoderInv
  <2>3. enc.c \in Nat /\ enc.p \in Nat /\ stored \in Nat /\ offered \in Nat
    BY <2>1 DEF IInv, TypeOK, EncoderState
  <2>. QED  BY <2>1, <2>2, <2>3 DEF IInv, PlaintextInOrder, CompressedInOrder, Accepted
<1>. QED  BY <1>1, SpecIInv, PTL

(* Also after short writes out_buf holds the latest compressed bytes and the room behind
   them, and until the close every compressed byte the inner stream has not taken. *)
THEOREM SpecUnsentKept == Spec => []UnsentKept
<1>1. IInv => UnsentKept
  BY DEF IInv
<1>. QED  BY <1>1, SpecIInv, PTL

-----------------------------------------------------------------------------
(* Why a handler ends, also after a short write.  A turn of a loop takes or emits
   a byte, unless out_buf has no room, which a short write can leave behind and
   which the turn makes good, or the handler gives up.  A full in_buf left behind by
   a short write costs php_xziop_write() a turn that gathers nothing. *)
Phase ==
    CASE pc \in {"idle", "closed"} -> 0
      [] pc = "tail"     -> 1
      [] pc = "fill"     -> IF availIn = 0 THEN 1 ELSE 5
      [] pc = "compress" -> IF availOut > 0 THEN 2 ELSE 4
      [] pc = "emit"     -> 3
      [] pc = "finish"   -> 2
      [] pc = "drain"    -> IF Finished THEN 1 ELSE 3

\* What is left to gather, to encode and to emit, weighed by the steps it may take.
StepsLeft == 6 * Left + 2 * (availIn + (MaxStream - enc.p)) + Phase

\* The encoder never emits more than a stream has bytes.
StreamBounded == enc.p <= MaxStream

LEMMA StepsAreCounted ==
    ASSUME IInv, StreamBounded
    PROVE  /\ StepsLeft \in Nat /\ Phase \in Nat /\ Left \in Nat
           /\ availIn \in Nat /\ enc.p \in Nat /\ MaxStream \in Nat
<1>1. Phase \in Nat
  BY DEF IInv, TypeOK, Phase
<1>2. Left \in Nat /\ availIn \in Nat /\ enc.p \in Nat /\ MaxStream - enc.p \in Nat
  BY DEF IInv, TypeOK, EncoderState, StreamBounded, Left
<1>. QED  BY <1>1, <1>2 DEF StepsLeft

(* What both calls of lzma_code() do to what is left. *)
LEMMA CodeMoves ==
    ASSUME IInv, NEW action \in {LZMA_RUN, LZMA_FINISH}, NEW room \in Nat, NEW from,
           NEW o \in LzmaCode(action, room), Coded(o, from, room)
    PROVE  /\ Moved(enc, action, availIn, room, MaxStream, o)
           /\ o.used \in Nat /\ o.made \in Nat
           /\ availIn' = availIn - o.used
           /\ enc'.p = enc.p + o.made
<1>1. enc \in EncoderState /\ availIn \in Nat
  BY DEF IInv, TypeOK
<1>2. Moved(enc, action, availIn, room, MaxStream, o)
  BY <1>1, EncodeMoves DEF LzmaCode
<1>3. availIn' = availIn - o.used /\ enc' = o.next
  BY DEF Coded
<1>. QED  BY <1>1, <1>2, <1>3 DEF Moved

LEMMA CompressCodeProgress ==
    ASSUME IInv, StreamBounded, CompressCode
    PROVE  StepsLeft' < StepsLeft /\ StreamBounded'
<1>1. PICK o \in LzmaCode(LZMA_RUN, availOut) :
         /\ Coded(o, nextOut, availOut)
         /\ IF o.ret = LZMA_OK
            THEN pc' = "emit" /\ nextIn' = nextIn + o.used /\ UNCHANGED op
            ELSE CompressReturns("tail")
  BY DEF CompressCode
<1>2. availOut \in Nat /\ availIn > 0 /\ pc = "compress" /\ Left' = Left
  BY DEF CompressCode, IInv, TypeOK, Left
<1>3. /\ Moved(enc, LZMA_RUN, availIn, availOut, MaxStream, o)
      /\ o.used \in Nat /\ o.made \in Nat
      /\ availIn' = availIn - o.used
      /\ enc'.p = enc.p + o.made
  BY <1>1, <1>2, CodeMoves
<1>4. StreamBounded'
  BY <1>3 DEF Moved, StreamBounded
<1>. DEFINE rest == 6 * Left + 2 * ((availIn - o.used) + (MaxStream - (enc.p + o.made)))
<1>5. Phase = IF availOut > 0 THEN 2 ELSE 4
  BY <1>2 DEF Phase
<1>6. CASE pc' = "emit" /\ o.ret = LZMA_OK
  <2>1. StepsLeft' = rest + 3
    BY <1>2, <1>3, <1>6 DEF StepsLeft, Phase
  <2>2. availOut > 0 => o.used > 0 \/ o.made > 0
    BY <1>2, <1>3, <1>6 DEF Moved
  <2>3. rest + 3 < StepsLeft
    BY <1>2, <1>3, <1>5, <2>2, StepsAreCounted DEF StepsLeft
  <2>. QED  BY <1>4, <2>1, <2>3
<1>7. CASE CompressReturns("tail")
  <2>1. StepsLeft' = rest + 1 \/ StepsLeft' = rest + 0
    BY <1>2, <1>3, <1>7 DEF StepsLeft, Phase, CompressReturns
  <2>2. rest + 1 < StepsLeft /\ rest + 0 < StepsLeft
    BY <1>2, <1>3, <1>5, StepsAreCounted DEF StepsLeft
  <2>. QED  BY <1>4, <2>1, <2>2
<1>. QED  BY <1>1, <1>6, <1>7

LEMMA FinishCodeProgress ==
    ASSUME IInv, StreamBounded, FinishCode
    PROVE  StepsLeft' < StepsLeft /\ StreamBounded'
<1>1. PICK o \in LzmaCode(LZMA_FINISH, XZ_BUFFER_SIZE) :
         Coded(o, 0, XZ_BUFFER_SIZE) /\ nextIn' = nextIn + o.used /\ lzret' = o.ret
  BY DEF FinishCode
<1>2. pc = "finish" /\ pc' = "drain" /\ Left' = Left
  BY DEF FinishCode, call, Left
<1>3. /\ Moved(enc, LZMA_FINISH, availIn, XZ_BUFFER_SIZE, MaxStream, o)
      /\ o.used \in Nat /\ o.made \in Nat
      /\ availIn' = availIn - o.used
      /\ enc'.p = enc.p + o.made
  BY <1>1, CodeMoves
<1>4. StreamBounded'
  BY <1>3 DEF Moved, StreamBounded
<1>. DEFINE rest == 6 * Left + 2 * ((availIn - o.used) + (MaxStream - (enc.p + o.made)))
<1>5. Phase = 2
  BY <1>2 DEF Phase
<1>6. CASE o.ret = LZMA_OK
  <2>1. StepsLeft' = rest + 3
    BY <1>1, <1>2, <1>3, <1>6 DEF StepsLeft, Phase, Finished
  <2>2. o.used > 0 \/ o.made > 0
    BY <1>3, <1>6 DEF Moved
  <2>3. rest + 3 < StepsLeft
    BY <1>3, <1>5, <2>2, StepsAreCounted DEF StepsLeft
  <2>. QED  BY <1>4, <2>1, <2>3
<1>7. CASE o.ret # LZMA_OK
  <2>1. StepsLeft' = rest + 1
    BY <1>1, <1>2, <1>3, <1>7 DEF StepsLeft, Phase, Finished
  <2>2. rest + 1 < StepsLeft
    BY <1>3, <1>5, StepsAreCounted DEF StepsLeft
  <2>. QED  BY <1>4, <2>1, <2>2
<1>. QED  BY <1>6, <1>7

LEMMA GatherProgress ==
    ASSUME IInv, StreamBounded, Fill \/ WriteTail
    PROVE  StepsLeft' < StepsLeft /\ StreamBounded'
<1>1. enc' = enc /\ StreamBounded'
  BY DEF Fill, WriteTail, StreamBounded
<1>2. CASE Fill
  <2>1. /\ pc = "fill" /\ pc' = "compress" /\ Room \in Nat
        /\ availIn + Room = XZ_BUFFER_SIZE /\ Room <= Left
    BY <1>2 DEF Fill, Overfull, IInv, TypeOK, ControlInv, Left, Room
  <2>2. availIn' = availIn + Room /\ Left' = Left - Room
    BY <1>2, <2>1 DEF Fill, Gather, Left, IInv, TypeOK
  <2>. DEFINE rest == 6 * (Left - Room) + 2 * ((availIn + Room) + (MaxStream - enc.p))
  <2>3. StepsLeft' = rest + 2 \/ StepsLeft' = rest + 4
    BY <1>1, <2>1, <2>2 DEF StepsLeft, Phase
  <2>4. Phase = IF availIn = 0 THEN 1 ELSE 5
    BY <2>1 DEF Phase
  <2>5. rest + 4 < StepsLeft /\ rest + 2 < StepsLeft
    BY <2>1, <2>4, StepsAreCounted DEF StepsLeft
  <2>. QED  BY <1>1, <2>3, <2>5
<1>3. CASE WriteTail
  <2>1. pc \in {"fill", "tail"} /\ pc' = "idle" /\ availIn' = availIn + Left /\ Left' = 0
    BY <1>3 DEF WriteTail, Gather, Left
  <2>. DEFINE rest == 6 * 0 + 2 * ((availIn + Left) + (MaxStream - enc.p))
  <2>2. StepsLeft' = rest + 0
    BY <1>1, <2>1 DEF StepsLeft, Phase
  <2>3. Phase >= 1
    BY <2>1 DEF Phase
  <2>4. rest + 0 < StepsLeft
    BY <2>3, StepsAreCounted DEF StepsLeft
  <2>. QED  BY <1>1, <2>2, <2>4
<1>. QED  BY <1>2, <1>3

LEMMA ControlProgress ==
    ASSUME IInv, StreamBounded, CompressEmit \/ CompressDone \/ FinishDrain
    PROVE  StepsLeft' < StepsLeft /\ StreamBounded'
<1>1. /\ enc' = enc /\ availIn' = availIn /\ count' = count /\ wrote' = wrote /\ lzret' = lzret
      /\ Left' = Left /\ StreamBounded'
  BY DEF CompressEmit, CompressDone, FinishDrain, input, call, Left, StreamBounded
<1>2. \E phase \in Nat : Phase' = phase /\ phase < Phase
  <2>1. CASE CompressEmit
    <3>1. pc = "emit" /\ ((pc' = "compress" /\ availOut' = XZ_BUFFER_SIZE) \/ pc' \in {"tail", "idle"})
      BY <2>1 DEF CompressEmit, Rewind, CompressReturns
    <3>. QED  BY <3>1 DEF Phase
  <2>2. CASE CompressDone
    <3>1. pc = "compress" /\ pc' \in {"fill", "idle"} /\ availIn = 0
      BY <2>2 DEF CompressDone, CompressReturns
    <3>. QED  BY <1>1, <3>1 DEF Phase
  <2>3. CASE FinishDrain
    <3>1. pc = "drain" /\ pc' = IF Finished THEN "closed" ELSE "finish"
      BY <2>3 DEF FinishDrain
    <3>. QED  BY <3>1 DEF Phase
  <2>. QED  BY <2>1, <2>2, <2>3
<1>3. PICK phase \in Nat : Phase' = phase /\ phase < Phase
  BY <1>2
<1>. DEFINE rest == 6 * Left + 2 * (availIn + (MaxStream - enc.p))
<1>4. StepsLeft' = rest + phase
  BY <1>1, <1>3 DEF StepsLeft
<1>5. rest + phase < StepsLeft
  BY <1>3, StepsAreCounted DEF StepsLeft
<1>. QED  BY <1>1, <1>4, <1>5

LEMMA StepProgress == IInv /\ StreamBounded /\ Step => StepsLeft' < StepsLeft /\ StreamBounded'
  BY CompressCodeProgress, FinishCodeProgress, GatherProgress, ControlProgress DEF Step

LEMMA NextBounded == IInv /\ StreamBounded /\ [Next]_vars => StreamBounded'
<1>1. UNCHANGED enc /\ StreamBounded => StreamBounded'
  BY DEF StreamBounded
<1>2. FlushCall \/ CloseCall \/ (\E n \in 1 .. MaxCount : WriteCall(n)) \/ UNCHANGED vars => UNCHANGED enc
  BY DEF FlushCall, CloseCall, WriteCall, vars
<1>. QED  BY <1>1, <1>2, StepProgress DEF Next

(* The loops of php_xziop_write(), php_xz_compress() and php_xziop_close() have a
   variant: every step of a handler lowers StepsLeft, a natural number, whatever
   the inner stream takes. *)
THEOREM HandlersRunOut == Spec => [](StepsLeft \in Nat) /\ [][Step => StepsLeft' < StepsLeft]_vars
<1>1. Init => StreamBounded
  BY DEF Init, StreamBounded, NewEncoder
<1>2. IInv /\ StreamBounded => StepsLeft \in Nat
  BY StepsAreCounted
<1>3. IInv /\ StreamBounded /\ [Next]_vars => [Step => StepsLeft' < StepsLeft]_vars
  BY StepProgress
<1>. QED  BY <1>1, <1>2, <1>3, NextBounded, SpecIInv, PTL DEF Spec
=============================================================================
