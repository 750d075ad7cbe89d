------------------------ MODULE XzReadStream_proofs ------------------------
(***************************************************************************)
(* Proofs about XzReadStream, for every buffer size, every set of files    *)
(* and every sequence of reads.                                            *)
(***************************************************************************)
EXTENDS XzReadStream, Common_proofs

USE BufferAssumption, CountAssumption, FilesAssumption DEF InnerMayFail

LEMMA Shape == ASSUME TypeOK PROVE WellFormedFile(file)
  BY DEF TypeOK

(* Whatever the state of the call, what the caller has is what calls before
   it returned and what it has copied so far. *)
LEMMA DeliveredIs ==
    ASSUME TypeOK, CallInv
    PROVE  Delivered = start + haveRead /\ Returned \in Nat
  BY DEF TypeOK, CallInv, Delivered, Returned

(* A caller never has more than the decoder has produced, nor the decoder
   more than the file decodes to. *)
Bound ==
    /\ Delivered \in Nat /\ dec.p \in Nat /\ file.yield[file.len] \in Nat
    /\ Delivered + Window = dec.p
    /\ Window \in Nat
    /\ dec.p <= file.yield[file.len]

LEMMA BoundHolds == IInv => Bound
<1>. SUFFICES ASSUME IInv PROVE Bound
  OBVIOUS
<1>1. Delivered = start + haveRead /\ Delivered \in Nat
  BY DeliveredIs DEF IInv, TypeOK
<1>2. dec.c \in 0 .. file.len /\ file.len \in 0 .. file.len
  BY Shape DEF IInv, TypeOK, InputInOrder, DecoderState, WellFormedFile
<1>3. file.yield[dec.c] \in Nat /\ file.yield[file.len] \in Nat /\ file.yield[dec.c] <= file.yield[file.len]
  BY <1>2, Shape, YieldMonotone DEF IInv, WellFormedFile
<1>4. dec.p <= file.yield[dec.c] /\ dec.p \in Nat
  BY DEF IInv, TypeOK, DecoderInv, DecoderState
<1>5. Window \in Nat /\ Delivered + Window = dec.p
  BY DEF IInv, TypeOK, WindowInv, PlaintextInOrder, Window
<1>. QED  BY <1>1, <1>3, <1>4, <1>5 DEF Bound

LEMMA DeliveredBound ==
    ASSUME IInv
    PROVE  /\ Delivered \in Nat /\ dec.p \in Nat /\ file.yield[file.len] \in Nat
           /\ Delivered + Window = dec.p
           /\ Window \in Nat
           /\ dec.p <= file.yield[file.len]
  BY BoundHolds DEF Bound

LEMMA InitIInv == Init => IInv
<1>. SUFFICES ASSUME Init PROVE IInv
  OBVIOUS
<1>1. TypeOK
  <2>1. file.len \in Nat
    BY DEF Init, WellFormedFile
  <2>2. dec \in DecoderState
    BY DEF Init, NewDecoder, DecoderState
  <2>3. WellFormedFile(file) /\ fpos \in 0 .. file.len
    BY <2>1 DEF Init
  <2>4. /\ inBuf \in [Slots -> Nat] /\ nextIn \in 0 .. XZ_BUFFER_SIZE /\ availIn \in 0 .. XZ_BUFFER_SIZE
        /\ outBuf \in [Slots -> Nat] /\ outIdx \in 0 .. XZ_BUFFER_SIZE
        /\ nextOut \in 0 .. XZ_BUFFER_SIZE /\ availOut \in 0 .. XZ_BUFFER_SIZE
    BY DEF Init
  <2>5. innerEof \in BOOLEAN /\ eof \in BOOLEAN /\ told \in BOOLEAN
    BY Zenon DEF Init
  <2>6. /\ pc \in {"idle", "loop", "check", "decode"} /\ buf \in [1 .. MaxCount -> Nat]
        /\ toRead \in 0 .. MaxCount /\ haveRead \in 0 .. MaxCount /\ ret \in -1 .. MaxCount
        /\ start \in Nat
    BY DEF Init
  <2>. QED  BY <2>2, <2>3, <2>4, <2>5, <2>6 DEF TypeOK
<1>2. WellFormedFile(file)
  BY <1>1, Shape
<1>3. WindowInv /\ PlaintextInOrder /\ CallerSeesPlaintext /\ InputInOrder /\ CallInv
  BY DEF Init, WindowInv, PlaintextInOrder, CallerSeesPlaintext, InputInOrder, CallInv,
         Window, Delivered, Returned, NewDecoder
<1>4. DecoderInv
  BY <1>2 DEF Init, DecoderInv, NewDecoder, WellFormedFile
<1>5. SoundFileNeverFails /\ EofMeansAll
  BY DEF Init, SoundFileNeverFails, EofMeansAll, NewDecoder
<1>. QED  BY <1>1, <1>3, <1>4, <1>5 DEF IInv

-----------------------------------------------------------------------------
(* One lemma per action. *)

LEMMA StutterIInv == IInv /\ UNCHANGED vars => IInv'
  BY DEF IInv, vars, inner, input, output, TypeOK, WindowInv, PlaintextInOrder, CallerSeesPlaintext,
         InputInOrder, CallInv, DecoderInv, SoundFileNeverFails, EofMeansAll, Window, Delivered, Returned,
         AtEnd, Sound, Whole, Damaged, Slots, Expected

LEMMA ReadCallIInv == ASSUME IInv, NEW count \in 1 .. MaxCount, ReadCall(count) PROVE IInv'
<1>. USE DEF ReadCall, inner, input, output
<1>1. TypeOK'
  BY DeliveredIs DEF IInv, TypeOK, Slots
<1>2. Delivered' = Delivered
  BY DEF IInv, TypeOK, Delivered, Returned
<1>3. WindowInv' /\ PlaintextInOrder'
  BY <1>2 DEF IInv, WindowInv, PlaintextInOrder, Window
<1>4. CallerSeesPlaintext'
  <2>1. Delivered' = start'
    BY DeliveredIs DEF IInv, TypeOK, Delivered
  <2>2. start' \in Nat
    BY DeliveredIs DEF IInv
  <2>. QED  BY <2>1, <2>2 DEF CallerSeesPlaintext
<1>5. InputInOrder' /\ CallInv' /\ DecoderInv'
  BY DEF IInv, TypeOK, InputInOrder, CallInv, DecoderInv, AtEnd, Window
<1>6. SoundFileNeverFails' /\ EofMeansAll'
  BY <1>2 DEF IInv, SoundFileNeverFails, EofMeansAll, Sound, Whole, Damaged
<1>. QED  BY <1>1, <1>3, <1>4, <1>5, <1>6 DEF IInv

LEMMA ReadDoneIInv == ASSUME IInv, ReadDone PROVE IInv'
<1>. USE DEF ReadDone, Return, inner, input, output
<1>1. TypeOK'
  BY DEF IInv, TypeOK, Slots
<1>2. Delivered' = Delivered /\ Delivered = start + haveRead
  BY DeliveredIs DEF IInv, TypeOK, Delivered, Returned
<1>3. WindowInv' /\ PlaintextInOrder' /\ CallerSeesPlaintext'
  BY <1>2 DEF IInv, WindowInv, PlaintextInOrder, Window, CallerSeesPlaintext
<1>5. InputInOrder' /\ CallInv' /\ DecoderInv'
  BY DEF IInv, TypeOK, InputInOrder, CallInv, DecoderInv, AtEnd, Window
<1>6. SoundFileNeverFails' /\ EofMeansAll'
  BY <1>2 DEF IInv, TypeOK, SoundFileNeverFails, EofMeansAll, Sound, Whole, Damaged
<1>. QED  BY <1>1, <1>3, <1>5, <1>6 DEF IInv

LEMMA HitEofIInv == ASSUME IInv, HitEof PROVE IInv'
<1>. USE DEF HitEof, Return, PastCopy, inner, input, output
<1>1. TypeOK'
  BY DEF IInv, TypeOK, Slots
<1>2. Delivered' = Delivered /\ Delivered = start + haveRead
  BY DeliveredIs DEF IInv, TypeOK, Delivered, Returned
<1>3. WindowInv' /\ PlaintextInOrder' /\ CallerSeesPlaintext'
  BY <1>2 DEF IInv, WindowInv, PlaintextInOrder, Window, CallerSeesPlaintext
<1>5. InputInOrder' /\ CallInv' /\ DecoderInv'
  BY DEF IInv, TypeOK, InputInOrder, CallInv, DecoderInv, AtEnd, Window
<1>6. SoundFileNeverFails'
  BY <1>2 DEF IInv, TypeOK, SoundFileNeverFails, Damaged
<1>7. EofMeansAll'
  <2>1. SUFFICES ASSUME Sound(file), ~InnerMayFail PROVE Delivered = file.yield[file.len]
    BY <1>2 DEF EofMeansAll, Sound, Whole, Damaged
  <2>2. Delivered = dec.p /\ dec.p \in Nat
    BY DeliveredBound DEF IInv, TypeOK, AtEnd, Window
  <2>3. dec.c = file.len /\ file.len \in Nat
    <3>1. fpos = file.len
      BY <2>1 DEF IInv, DecoderInv, AtEnd
    <3>. QED  BY <3>1, Shape DEF IInv, TypeOK, InputInOrder, AtEnd, WellFormedFile, DecoderState
  <2>4. dec.p = file.yield[file.len]
    <3>1. CASE file.len = 0
      BY <2>2, <2>3, <3>1, Shape DEF IInv, DecoderInv, WellFormedFile
    <3>2. CASE file.len > 0
      <4>1. file.yield[file.len - 1] = file.yield[file.len]
        BY <2>1, <3>2 DEF Sound, Whole
      <4>. QED  BY <2>2, <2>3, <3>2, <4>1, DeliveredBound DEF IInv, DecoderInv
    <3>. QED  BY <2>3, <3>1, <3>2
  <2>. QED  BY <2>2, <2>4
<1>. QED  BY <1>1, <1>3, <1>5, <1>6, <1>7 DEF IInv

LEMMA ServePartIInv == ASSUME IInv, ServePart PROVE IInv'
<1>. USE DEF ServePart, Return, CopyOut, inner, input, output, Window
<1>1. TypeOK'
  <2>1. buf' \in [1 .. MaxCount -> Nat]
    BY DEF IInv, TypeOK, Slots, WindowInv, CallInv
  <2>. QED  BY <2>1 DEF IInv, TypeOK, Slots, WindowInv, CallInv
<1>2. /\ Delivered' = start + haveRead + toRead
      /\ Delivered = start + haveRead
  BY DeliveredIs DEF IInv, TypeOK, Delivered, Returned
<1>3. WindowInv'
  BY DEF IInv, TypeOK, WindowInv
<1>4. PlaintextInOrder'
  BY <1>2 DEF IInv, TypeOK, PlaintextInOrder, WindowInv
<1>5. CallerSeesPlaintext'
  BY <1>2 DEF IInv, TypeOK, CallerSeesPlaintext, PlaintextInOrder, CallInv, WindowInv
<1>6. InputInOrder' /\ CallInv'
  BY DEF IInv, TypeOK, InputInOrder, CallInv
<1>7. DecoderInv'
  BY DEF IInv, TypeOK, DecoderInv, AtEnd
<1>8. SoundFileNeverFails'
  BY DEF IInv, TypeOK, SoundFileNeverFails, Damaged
<1>9. EofMeansAll'
  <2>1. SUFFICES ASSUME eof, Sound(file), ~InnerMayFail PROVE FALSE
    BY DEF EofMeansAll, Sound, Whole, Damaged
  <2>2. Delivered = file.yield[file.len]
    BY <2>1 DEF IInv, EofMeansAll
  <2>3. Window > 0
    BY DEF IInv, TypeOK
  <2>. QED  BY <2>2, <2>3, DeliveredBound
<1>. QED  BY <1>1, <1>3, <1>4, <1>5, <1>6, <1>7, <1>8, <1>9 DEF IInv

LEMMA ServeAllIInv == ASSUME IInv, ServeAll PROVE IInv'
<1>. USE DEF ServeAll, Advance, CopyOut, inner, input, output, Window
<1>1. TypeOK'
  <2>1. buf' \in [1 .. MaxCount -> Nat]
    BY DEF IInv, TypeOK, Slots, WindowInv, CallInv
  <2>2. haveRead' \in 0 .. MaxCount /\ toRead' \in 0 .. MaxCount
    BY DEF IInv, TypeOK, CallInv
  <2>3. outIdx' \in 0 .. XZ_BUFFER_SIZE /\ nextOut' \in 0 .. XZ_BUFFER_SIZE /\ availOut' \in 0 .. XZ_BUFFER_SIZE
    BY DEF IInv, TypeOK
  <2>4. outBuf' = outBuf
    OBVIOUS
  <2>. QED  BY <2>1, <2>2, <2>3, <2>4 DEF IInv, TypeOK, Slots
<1>2. /\ Delivered' = start + haveRead + Window
      /\ Delivered = start + haveRead
  BY DeliveredIs DEF IInv, TypeOK, Delivered, Returned
<1>3. WindowInv'
  <2>1. CASE availOut > 0
    <3>1. pc' = "check" /\ outIdx' = nextOut /\ nextOut' = nextOut /\ availOut' = availOut
      BY <2>1
    <3>. QED  BY <2>1, <3>1 DEF IInv, TypeOK, WindowInv
  <2>2. CASE availOut = 0
    BY <2>2 DEF IInv, TypeOK, WindowInv
  <2>. QED  BY <2>1, <2>2
<1>4. PlaintextInOrder'
  BY <1>2 DEF IInv, TypeOK, PlaintextInOrder, WindowInv
<1>5. CallerSeesPlaintext'
  BY <1>2 DEF IInv, TypeOK, CallerSeesPlaintext, PlaintextInOrder, CallInv, WindowInv
<1>6. InputInOrder' /\ CallInv'
  BY DEF IInv, TypeOK, InputInOrder, CallInv
<1>7. DecoderInv'
  BY DEF IInv, TypeOK, DecoderInv, AtEnd
<1>8. SoundFileNeverFails'
  BY DEF IInv, TypeOK, SoundFileNeverFails, Damaged
<1>9. EofMeansAll'
  <2>1. SUFFICES ASSUME eof, Sound(file), ~InnerMayFail PROVE FALSE
    BY DEF EofMeansAll, Sound, Whole, Damaged
  <2>2. Delivered = file.yield[file.len]
    BY <2>1 DEF IInv, EofMeansAll
  <2>3. Window > 0
    BY DEF IInv, TypeOK
  <2>. QED  BY <2>2, <2>3, DeliveredBound
<1>. QED  BY <1>1, <1>3, <1>4, <1>5, <1>6, <1>7, <1>8, <1>9 DEF IInv

LEMMA RefillIInv == ASSUME IInv, Refill PROVE IInv'
<1>. USE DEF Refill, PastCopy, NeedsInput, ReadInner, inner, input, output
<1>1. TypeOK'
  <2>1. CASE ~NeedsInput
    BY <2>1 DEF IInv, TypeOK, Slots
  <2>2. CASE NeedsInput
    <3>1. PICK k \in 0 .. XZ_BUFFER_SIZE : fpos + k <= file.len /\ ReadInner(k)
      BY <2>2
    <3>2. fpos \in Nat /\ file.len \in Nat /\ file.bytes \in [1 .. file.len -> Nat]
      BY Shape DEF IInv, TypeOK, WellFormedFile
    <3>3. inBuf' \in [Slots -> Nat]
      <4>1. \A i \in Slots : i < k => file.bytes[fpos + i + 1] \in Nat
        <5>1. TAKE i \in Slots
        <5>2. i < k => fpos + i + 1 \in 1 .. file.len
          BY <3>1, <3>2 DEF Slots
        <5>. QED  BY <3>2, <5>2
      <4>. QED  BY <3>1, <4>1 DEF IInv, TypeOK
    <3>4. fpos' \in 0 .. file.len
      BY <3>1, <3>2
    <3>5. innerEof' \in BOOLEAN
      BY <3>1
    <3>6. nextIn' = 0 /\ availIn' = k
      BY <3>1
    <3>. QED  BY <3>3, <3>4, <3>5, <3>6 DEF IInv, TypeOK, Slots
  <2>. QED  BY <2>1, <2>2
<1>2. Delivered' = Delivered
  BY DeliveredIs DEF IInv, TypeOK, Delivered, Returned
<1>3. Window = 0
  BY DEF IInv, WindowInv
<1>4. WindowInv' /\ PlaintextInOrder' /\ CallerSeesPlaintext'
  <2>1. UNCHANGED <<outBuf, nextOut, availOut, outIdx, dec, start, buf>> /\ pc' = "decode"
    OBVIOUS
  <2>2. availOut > 0
    BY <1>3 DEF IInv, TypeOK, WindowInv, Window
  <2>3. WindowInv'
    BY <2>1, <2>2 DEF IInv, WindowInv, Window
  <2>4. PlaintextInOrder' /\ CallerSeesPlaintext'
    BY <1>2, <2>1 DEF IInv, PlaintextInOrder, Window, CallerSeesPlaintext
  <2>. QED  BY <2>3, <2>4
<1>5. InputInOrder' /\ CallInv'
  <2>1. CASE ~NeedsInput
    BY <2>1 DEF IInv, TypeOK, InputInOrder, CallInv
  <2>2. CASE NeedsInput
    <3>1. PICK k \in 0 .. XZ_BUFFER_SIZE : fpos + k <= file.len /\ ReadInner(k)
      BY <2>2
    <3>2. dec.c = fpos /\ fpos \in Nat
      BY <2>2 DEF IInv, TypeOK, InputInOrder, DecoderState
    <3>3. \A j \in 1 .. k : inBuf'[j - 1] = file.bytes[fpos + j]
      BY <3>1, <3>2 DEF Slots
    <3>. QED  BY <3>1, <3>2, <3>3 DEF IInv, TypeOK, InputInOrder, CallInv
  <2>. QED  BY <2>1, <2>2
<1>6. DecoderInv'
  <2>1. ~dec.stuck
    BY DEF IInv, DecoderInv
  <2>2. /\ innerEof' /\ ~InnerMayFail => fpos' = file.len
        /\ availIn' = 0 => innerEof'
    <3>1. CASE ~NeedsInput
      <4>1. UNCHANGED <<fpos, file, availIn, innerEof>> /\ (availIn = 0 => innerEof)
        BY <3>1
      <4>. QED  BY <4>1 DEF IInv, DecoderInv
    <3>2. CASE NeedsInput
      <4>1. PICK k \in 0 .. XZ_BUFFER_SIZE : fpos + k <= file.len /\ ReadInner(k)
        BY <3>2
      <4>2. CASE k = 0
        BY <4>1, <4>2 DEF IInv, TypeOK
      <4>3. CASE k > 0
        BY <4>1, <4>3
      <4>. QED  BY <4>2, <4>3
    <3>. QED  BY <3>1, <3>2
  <2>. QED  BY <1>3, <2>1, <2>2 DEF IInv, TypeOK, DecoderInv, AtEnd, Window
<1>7. SoundFileNeverFails' /\ EofMeansAll'
  BY <1>2 DEF IInv, SoundFileNeverFails, EofMeansAll, Sound, Whole, Damaged
<1>. QED  BY <1>1, <1>4, <1>5, <1>6, <1>7 DEF IInv

LEMMA RefillFailsIInv == ASSUME IInv, RefillFails PROVE IInv'
<1>. USE DEF RefillFails, PastCopy, NeedsInput, GiveUp, Return, inner, input, output
<1>1. TypeOK'
  BY DEF IInv, TypeOK, Slots
<1>2. Delivered' = Delivered /\ Delivered = start + haveRead
  BY DeliveredIs DEF IInv, TypeOK, Delivered, Returned
<1>3. WindowInv' /\ PlaintextInOrder' /\ CallerSeesPlaintext'
  BY <1>2 DEF IInv, TypeOK, WindowInv, PlaintextInOrder, Window, CallerSeesPlaintext
<1>4. InputInOrder' /\ CallInv'
  BY DEF IInv, TypeOK, InputInOrder, CallInv
<1>5. DecoderInv'
  BY DEF IInv, TypeOK, DecoderInv, AtEnd, Window
<1>6. SoundFileNeverFails' /\ EofMeansAll'
  BY <1>2 DEF IInv, SoundFileNeverFails, EofMeansAll, Sound, Whole, Damaged
<1>. QED  BY <1>1, <1>3, <1>4, <1>5, <1>6 DEF IInv

(* What the decoding half of php_xz_decompress() does to the state, with
   RunOnce applied to the call of lzma_code(). *)
LEMMA DecodeStep ==
    ASSUME IInv, Decode
    PROVE  \E used \in 0 .. availIn, made \in 0 .. availOut :
              /\ nextIn' = nextIn + used
              /\ availIn' = availIn - used
              /\ nextOut' = nextOut + made
              /\ availOut' = availOut - made
              /\ outBuf' = [i \in Slots |-> IF i \in nextOut .. nextOut + made - 1
                                            THEN dec.p + i - nextOut + 1 ELSE outBuf[i]]
              /\ dec' \in DecoderState
              /\ dec'.c = dec.c + used
              /\ dec'.p = dec.p + made
              /\ dec'.seq \in {"RUN", "ERROR"}
              /\ dec'.p <= file.yield[dec'.c]
              /\ dec'.c > 0 => file.yield[dec'.c - 1] <= dec'.p
              /\ dec'.stuck => availIn = 0 /\ used = 0 /\ made = 0
              /\ pc' = "loop" => dec'.stuck \/ used > 0 \/ made > 0
              /\ dec.seq = "RUN" /\ ~Damaged(file) => dec'.seq = "RUN" /\ pc' = "loop"
              /\ (pc' = "loop" /\ UNCHANGED <<ret, told>>) \/ GiveUp
<1>. DEFINE in == [j \in 1 .. availIn |-> inBuf[nextIn + j - 1]]
<1>1. PICK o \in LzmaDecode(file, TRUE, LZMA_RUN, dec, in, availIn, availOut) :
          /\ dec' = o.next
          /\ nextIn' = nextIn + o.used
          /\ availIn' = availIn - o.used
          /\ outBuf' = [i \in Slots |-> IF i \in nextOut .. nextOut + o.made - 1
                                        THEN dec.p + i - nextOut + 1 ELSE outBuf[i]]
          /\ nextOut' = nextOut + o.made
          /\ availOut' = availOut - o.made
          /\ IF o.ret \in {LZMA_OK, LZMA_STREAM_END}
             THEN pc' = "loop" /\ UNCHANGED <<ret, told>>
             ELSE GiveUp
  BY DEF Decode, Concatenated
<1>2. /\ dec.p <= file.yield[dec.c]
      /\ dec.c > 0 => file.yield[dec.c - 1] <= dec.p
      /\ dec.seq \in {"RUN", "ERROR"} /\ dec \in DecoderState
      /\ availIn \in Nat /\ availOut \in Nat /\ availOut > 0
      /\ ~dec.stuck
  BY DEF Decode, IInv, TypeOK, DecoderInv, WindowInv
<1>3. \A j \in 1 .. availIn : in[j] = file.bytes[dec.c + j]
  BY DEF IInv, InputInOrder
<1>4. dec.c + availIn <= file.len /\ WellFormedFile(file)
  BY Shape DEF IInv, TypeOK, InputInOrder, WellFormedFile
<1>. HIDE DEF in
<1>5. Ran(file, dec, availIn, availOut, o)
  <2>1. Offered(file, dec, in, availIn)
    BY <1>2, <1>3, <1>4 DEF Offered
  <2>. QED  BY <1>2, <2>1, RunOnce
<1>6. dec'.stuck => availIn = 0 /\ o.used = 0 /\ o.made = 0
  BY <1>1, <1>2, <1>5 DEF Ran
<1>7. dec.seq = "RUN" /\ ~Damaged(file) => dec'.seq = "RUN" /\ pc' = "loop"
  BY <1>1, <1>2, <1>5 DEF Ran
<1>8. (pc' = "loop" /\ UNCHANGED <<ret, told>>) \/ GiveUp
  BY <1>1
<1>10. pc' = "loop" => dec'.stuck \/ o.used > 0 \/ o.made > 0
  <2>1. SUFFICES ASSUME pc' = "loop" PROVE dec'.stuck \/ o.used > 0 \/ o.made > 0
    OBVIOUS
  <2>2. o.ret \in {LZMA_OK, LZMA_STREAM_END}
    BY <1>1, <2>1 DEF GiveUp, Return
  <2>. QED  BY <1>1, <1>5, <2>2 DEF Ran
<1>9. /\ o.used \in 0 .. availIn
      /\ o.made \in 0 .. availOut
      /\ dec' \in DecoderState
      /\ dec'.c = dec.c + o.used
      /\ dec'.p = dec.p + o.made
      /\ dec'.seq \in {"RUN", "ERROR"}
      /\ dec'.p <= file.yield[dec'.c]
      /\ dec'.c > 0 => file.yield[dec'.c - 1] <= dec'.p
  BY <1>1, <1>5 DEF Ran
<1>. QED  BY <1>1, <1>6, <1>7, <1>8, <1>9, <1>10, Zenon

LEMMA DecodeIInv == ASSUME IInv, Decode PROVE IInv'
<1>1. PICK used \in 0 .. availIn, made \in 0 .. availOut :
              /\ nextIn' = nextIn + used
              /\ availIn' = availIn - used
              /\ nextOut' = nextOut + made
              /\ availOut' = availOut - made
              /\ outBuf' = [i \in Slots |-> IF i \in nextOut .. nextOut + made - 1
                                            THEN dec.p + i - nextOut + 1 ELSE outBuf[i]]
              /\ dec' \in DecoderState
              /\ dec'.c = dec.c + used
              /\ dec'.p = dec.p + made
              /\ dec'.seq \in {"RUN", "ERROR"}
              /\ dec'.p <= file.yield[dec'.c]
              /\ dec'.c > 0 => file.yield[dec'.c - 1] <= dec'.p
              /\ dec'.stuck => availIn = 0 /\ used = 0 /\ made = 0
              /\ pc' = "loop" => dec'.stuck \/ used > 0 \/ made > 0
              /\ dec.seq = "RUN" /\ ~Damaged(file) => dec'.seq = "RUN" /\ pc' = "loop"
              /\ (pc' = "loop" /\ UNCHANGED <<ret, told>>) \/ GiveUp
  BY DecodeStep
<1>2. /\ pc = "decode" /\ ret = 0
      /\ UNCHANGED <<file, fpos, innerEof, inBuf, outIdx, eof, buf, toRead, haveRead, start>>
  BY DEF Decode, inner, IInv, CallInv
<1>3. /\ dec.c \in Nat /\ dec.p \in Nat /\ nextIn \in Nat /\ availIn \in Nat
      /\ nextIn + availIn <= XZ_BUFFER_SIZE
      /\ nextOut \in Nat /\ availOut \in Nat /\ availOut > 0
      /\ nextOut + availOut = XZ_BUFFER_SIZE
      /\ outIdx = nextOut
  BY <1>2 DEF IInv, TypeOK, DecoderState, CallInv, WindowInv, DecoderInv, Window
<1>5. pc' \in {"loop", "idle"} /\ ret' \in {-1, haveRead, 0} /\ told' \in BOOLEAN
  BY <1>1, <1>2 DEF GiveUp, Return, IInv, TypeOK
<1>6. TypeOK'
  <2>1. outBuf' \in [Slots -> Nat]
    <3>1. dec.p \in Nat /\ nextOut \in Nat
      BY <1>3
    <3>2. \A i \in Slots : i \in nextOut .. nextOut + made - 1 => dec.p + i - nextOut + 1 \in Nat
      BY <3>1 DEF Slots
    <3>. QED  BY <1>1, <3>2 DEF IInv, TypeOK
  <2>2. nextIn' \in 0 .. XZ_BUFFER_SIZE /\ availIn' \in 0 .. XZ_BUFFER_SIZE
    BY <1>1, <1>3
  <2>3. nextOut' \in 0 .. XZ_BUFFER_SIZE /\ availOut' \in 0 .. XZ_BUFFER_SIZE
    BY <1>1, <1>3
  <2>4. ret' \in -1 .. MaxCount
    BY <1>5 DEF IInv, TypeOK
  <2>. QED  BY <1>1, <1>2, <1>5, <2>1, <2>2, <2>3, <2>4 DEF IInv, TypeOK, Slots
<1>7. CallInv'
  <2>1. nextIn' + availIn' <= XZ_BUFFER_SIZE
    BY <1>1, <1>3
  <2>. QED  BY <1>1, <1>2, <2>1 DEF IInv, TypeOK, CallInv, GiveUp, Return
<1>8. Delivered' = Delivered /\ Delivered = start + haveRead
  <2>1. Delivered = start + haveRead
    BY DeliveredIs DEF IInv
  <2>2. CASE pc' = "loop"
    BY <1>2, <2>1, <2>2 DEF Delivered
  <2>3. CASE GiveUp
    BY <1>2, <2>1, <2>3 DEF IInv, TypeOK, GiveUp, Return, Delivered, Returned
  <2>. QED  BY <1>1, <2>1, <2>2, <2>3
<1>9. WindowInv' /\ CallerSeesPlaintext'
  <2>1. WindowInv'
    BY <1>1, <1>2, <1>3, <1>5 DEF WindowInv, Window
  <2>2. CallerSeesPlaintext'
    BY <1>2, <1>8 DEF IInv, CallerSeesPlaintext
  <2>. QED  BY <2>1, <2>2
<1>10. PlaintextInOrder'
  <2>1. dec.p = Delivered
    BY <1>3, DeliveredBound DEF Window
  <2>2. outIdx' = nextOut /\ nextOut' = nextOut + made /\ Delivered' = dec.p /\ dec'.p = dec.p + made
    BY <1>1, <1>2, <1>3, <1>8, <2>1
  <2>3. \A i \in nextOut .. nextOut + made - 1 : outBuf'[i] = dec.p + (i - nextOut) + 1
    <3>1. TAKE i \in nextOut .. nextOut + made - 1
    <3>2. i \in Slots
      BY <1>1, <1>3 DEF Slots
    <3>. QED  BY <1>1, <1>3, <3>2
  <2>. QED  BY <1>3, <2>2, <2>3 DEF PlaintextInOrder, Window
<1>11. InputInOrder'
  <2>1. dec.c + availIn = fpos /\ \A j \in 1 .. availIn : inBuf[nextIn + j - 1] = file.bytes[dec.c + j]
    BY DEF IInv, InputInOrder
  <2>2. \A j \in 1 .. availIn - used : inBuf[nextIn + used + j - 1] = file.bytes[dec.c + used + j]
    <3>1. TAKE j \in 1 .. availIn - used
    <3>2. used + j \in 1 .. availIn
      BY <1>3
    <3>3. inBuf[nextIn + (used + j) - 1] = file.bytes[dec.c + (used + j)]
      BY <2>1, <3>2
    <3>. QED  BY <1>3, <3>3
  <2>. QED  BY <1>1, <1>2, <1>3, <2>1, <2>2 DEF InputInOrder
<1>12. DecoderInv'
  <2>1. dec'.stuck => AtEnd'
    BY <1>1, <1>2, <1>3 DEF IInv, DecoderInv, AtEnd
  <2>2. innerEof' /\ ~InnerMayFail => fpos' = file'.len
    BY <1>2 DEF IInv, DecoderInv
  <2>. QED  BY <1>1, <1>2, <1>5, <2>1, <2>2 DEF DecoderInv
<1>13. SoundFileNeverFails'
  <2>1. SUFFICES ASSUME ~Damaged(file), ~InnerMayFail PROVE ~told' /\ dec'.seq = "RUN"
    BY <1>2 DEF SoundFileNeverFails, Damaged
  <2>2. ~told /\ dec.seq = "RUN"
    BY <2>1 DEF IInv, SoundFileNeverFails
  <2>3. dec'.seq = "RUN" /\ pc' = "loop"
    BY <1>1, <2>1, <2>2
  <2>. QED  BY <1>1, <2>2, <2>3 DEF GiveUp, Return
<1>14. EofMeansAll'
  BY <1>2, <1>8 DEF IInv, EofMeansAll, Sound, Whole, Damaged
<1>. QED  BY <1>6, <1>7, <1>9, <1>10, <1>11, <1>12, <1>13, <1>14 DEF IInv

-----------------------------------------------------------------------------
LEMMA NextIInv == IInv /\ [Next]_vars => IInv'
<1>. SUFFICES ASSUME IInv, [Next]_vars PROVE IInv'
  OBVIOUS
<1>1. ASSUME NEW count \in 1 .. MaxCount, ReadCall(count) PROVE IInv'
  BY <1>1, ReadCallIInv
<1>2. CASE ReadDone     BY <1>2, ReadDoneIInv
<1>3. CASE ServePart    BY <1>3, ServePartIInv
<1>4. CASE ServeAll     BY <1>4, ServeAllIInv
<1>5. CASE HitEof       BY <1>5, HitEofIInv
<1>6. CASE Refill       BY <1>6, RefillIInv
<1>7. CASE RefillFails  BY <1>7, RefillFailsIInv
<1>8. CASE Decode       BY <1>8, DecodeIInv
<1>9. CASE UNCHANGED vars  BY <1>9, StutterIInv
<1>. QED  BY <1>1, <1>2, <1>3, <1>4, <1>5, <1>6, <1>7, <1>8, <1>9 DEF Next, Step

(* The inductive invariant holds: every other invariant is one of its parts. *)
THEOREM SpecIInv == Spec => []IInv
  BY InitIInv, NextIInv, PTL DEF Spec

(* Every variable keeps its type, for any buffer size and any files. *)
THEOREM SpecTypeOK == Spec => []TypeOK
  BY SpecIInv, PTL DEF IInv

(* The window stays inside out_buf and lzma_code() always has room
   (php_xziop_read). *)
THEOREM SpecWindowInv == Spec => []WindowInv
  BY SpecIInv, PTL DEF IInv

(* No decoded byte is lost, repeated or reordered between lzma_code() and the
   caller (php_xziop_read). *)
THEOREM SpecPlaintextInOrder == Spec => []PlaintextInOrder
  BY SpecIInv, PTL DEF IInv

(* The caller's buffer holds the next bytes of the plaintext (php_xziop_read). *)
THEOREM SpecCallerSeesPlaintext == Spec => []CallerSeesPlaintext
  BY SpecIInv, PTL DEF IInv

(* The decoder is fed the file in order, each byte once (php_xz_decompress). *)
THEOREM SpecInputInOrder == Spec => []InputInOrder
  BY SpecIInv, PTL DEF IInv

(* Reading an undamaged file from a working inner stream never fails: in
   particular LZMA_BUF_ERROR is unreachable (php_xz_decompress). *)
THEOREM SpecSoundFileNeverFails == Spec => []SoundFileNeverFails
  BY SpecIInv, PTL DEF IInv

(* On a sound file feof() implies that the caller has all the plaintext. *)
THEOREM SpecEofMeansAll == Spec => []EofMeansAll
  BY SpecIInv, PTL DEF IInv

-----------------------------------------------------------------------------
(* The reader implements PlainReader. *)

LEMMA GiveUpVisible ==
    ASSUME IInv, GiveUp, pc # "idle", UNCHANGED <<haveRead, start>>
    PROVE  Delivered' = Delivered /\ (told' = told \/ told' = TRUE)
<1>. USE DeliveredIs DEF IInv, TypeOK, CallInv, GiveUp, Return, Delivered, Returned
<1>1. CASE haveRead = 0
  <2>1. ret' = -1 /\ Delivered' = Delivered
    BY <1>1
  <2>2. told' = (told \/ -1 = -1)
    BY <1>1
  <2>. QED  BY <2>1, <2>2
<1>2. CASE haveRead # 0
  <2>1. ret' = haveRead /\ haveRead # -1
    BY <1>2
  <2>2. told' = (told \/ FALSE)
    BY <1>2, <2>1
  <2>. QED  BY <2>1, <2>2
<1>. QED  BY <1>1, <1>2

(* What a step shows the caller: more plaintext, or the end, or a failure. *)
Seen ==
    /\ file' = file
    /\ Delivered <= Delivered'
    /\ \/ eof' = eof /\ told' = told
       \/ Delivered' = Delivered /\ eof' = TRUE /\ told' = told
       \/ Delivered' = Delivered /\ eof' = eof /\ told' = TRUE

LEMMA Visible == ASSUME IInv, [Next]_vars PROVE Seen
<1>1. /\ Delivered = start + haveRead /\ Delivered \in Nat /\ Returned \in Nat
      /\ start \in Nat /\ haveRead \in Nat /\ told \in BOOLEAN
      /\ pc = "idle" => Delivered = Returned
  BY DeliveredIs DEF IInv, TypeOK, Delivered
<1>2. ASSUME NEW count \in 1 .. MaxCount, ReadCall(count) PROVE Seen
  <2>1. Delivered' = Delivered
    BY <1>1, <1>2 DEF ReadCall, Delivered
  <2>. QED  BY <1>1, <1>2, <2>1 DEF Seen, ReadCall, inner
<1>3. CASE ReadDone
  <2>1. Delivered' = Delivered /\ told' = told
    BY <1>1, <1>3 DEF ReadDone, Return, Delivered, Returned
  <2>. QED  BY <1>1, <1>3, <2>1 DEF Seen, ReadDone, inner
<1>4. CASE ServePart
  <2>1. Delivered <= Delivered' /\ told' = told
    BY <1>1, <1>4 DEF ServePart, Return, Delivered, Returned, IInv, TypeOK
  <2>. QED  BY <1>4, <2>1 DEF Seen, ServePart, inner
<1>5. CASE ServeAll
  <2>1. Delivered <= Delivered' /\ told' = told
    BY <1>1, <1>5 DEF ServeAll, Delivered, Window, IInv, TypeOK
  <2>. QED  BY <1>5, <2>1 DEF Seen, ServeAll, inner
<1>6. CASE HitEof
  <2>1. Delivered' = Delivered /\ told' = told
    BY <1>1, <1>6 DEF HitEof, PastCopy, Return, Delivered, Returned
  <2>. QED  BY <1>1, <1>6, <2>1 DEF Seen, HitEof, inner
<1>7. CASE Refill
  <2>1. Delivered' = Delivered
    BY <1>1, <1>7 DEF Refill, PastCopy, Delivered
  <2>. QED  BY <1>1, <1>7, <2>1 DEF Seen, Refill
<1>8. CASE RefillFails
  <2>1. Delivered' = Delivered /\ (told' = told \/ told' = TRUE)
    BY <1>8, GiveUpVisible DEF RefillFails, PastCopy
  <2>. QED  BY <1>1, <1>8, <2>1 DEF Seen, RefillFails
<1>9. CASE Decode
  <2>1. (pc' = "loop" /\ UNCHANGED <<ret, told>>) \/ GiveUp
    BY <1>9, DecodeStep
  <2>2. Delivered' = Delivered /\ (told' = told \/ told' = TRUE)
    <3>1. CASE pc' = "loop" /\ UNCHANGED <<ret, told>>
      BY <1>1, <1>9, <3>1 DEF Decode, Delivered
    <3>2. CASE GiveUp
      BY <1>9, <3>2, GiveUpVisible DEF Decode
    <3>. QED  BY <2>1, <3>1, <3>2
  <2>. QED  BY <1>1, <1>9, <2>2 DEF Seen, Decode, inner
<1>10. CASE UNCHANGED vars
  <2>1. Delivered' = Delivered
    BY <1>10 DEF vars, Delivered, Returned
  <2>. QED  BY <1>1, <1>10, <2>1 DEF Seen, vars, inner
<1>. QED  BY <1>2, <1>3, <1>4, <1>5, <1>6, <1>7, <1>8, <1>9, <1>10 DEF Next, Step

LEMMA InitAbstract == Init => Abstract!Init
<1>. SUFFICES ASSUME Init PROVE Abstract!Init
  OBVIOUS
<1>1. IInv
  BY InitIInv
<1>2. Delivered = 0 /\ eof = FALSE /\ told = FALSE
  BY DEF Init, Delivered, Returned
<1>3. (Sound(file) /\ ~InnerMayFail) \in BOOLEAN
  BY Zenon
<1>. QED  BY <1>1, <1>2, <1>3, DeliveredBound DEF Abstract!Init

LEMMA NextAbstract == IInv /\ IInv' /\ [Next]_vars => [Abstract!Next]_(Abstract!vars)
<1>. SUFFICES ASSUME IInv, IInv', [Next]_vars PROVE [Abstract!Next]_(Abstract!vars)
  OBVIOUS
<1>. USE DEF Seen
<1>1. file' = file /\ file'.yield[file'.len] = file.yield[file.len]
  BY Visible
<1>2. (Sound(file) /\ ~InnerMayFail)' = (Sound(file) /\ ~InnerMayFail)
  BY <1>1 DEF Sound, Whole, Damaged
<1>3. Delivered \in Nat /\ Delivered' \in Nat /\ Delivered' <= file.yield[file.len] /\ file.yield[file.len] \in Nat
  <2>1. IInv' => Bound'
    BY BoundHolds, PTL
  <2>2. Delivered' \in Nat /\ Delivered' <= file'.yield[file'.len]
    BY <2>1 DEF Bound
  <2>. QED  BY <1>1, <2>2, DeliveredBound
<1>4. CASE eof' = eof /\ told' = told
  <2>1. CASE Delivered' = Delivered
    BY <1>1, <1>2, <1>4, <2>1 DEF Abstract!vars
  <2>2. CASE Delivered' # Delivered
    BY <1>1, <1>2, <1>3, <1>4, <2>2, Visible DEF Abstract!Next, Abstract!Hand
  <2>. QED  BY <2>1, <2>2
<1>5. CASE Delivered' = Delivered /\ eof' = TRUE /\ told' = told
  <2>1. Sound(file) /\ ~InnerMayFail => Delivered = file.yield[file.len]
    BY <1>1, <1>5 DEF IInv, EofMeansAll, Sound, Whole, Damaged
  <2>. QED  BY <1>1, <1>2, <1>5, <2>1 DEF Abstract!Next, Abstract!End
<1>6. CASE Delivered' = Delivered /\ eof' = eof /\ told' = TRUE
  <2>1. ~(Sound(file) /\ ~InnerMayFail)
    BY <1>1, <1>6 DEF IInv, SoundFileNeverFails, Sound, Damaged
  <2>. QED  BY <1>1, <1>2, <1>6, <2>1 DEF Abstract!Next, Abstract!Fail
<1>. QED  BY <1>4, <1>5, <1>6, Visible

(* Whatever the buffers, the decoder and the inner stream do, the caller sees
   a PlainReader. *)
THEOREM SpecImplementsPlainReader == Spec => ImplementsPlainReader
<1>1. Init => Abstract!Init
  BY InitAbstract
<1>2. IInv /\ IInv' /\ [Next]_vars => [Abstract!Next]_(Abstract!vars)
  BY NextAbstract
<1>. QED  BY <1>1, <1>2, SpecIInv, PTL DEF Spec, Abstract!Spec, ImplementsPlainReader

-----------------------------------------------------------------------------
(* Why a call ends.  Each pass of the loop in php_xziop_read() decodes
   something, consumes something, or makes lzma_code() idle at the end of the file,
   which happens once; within a pass the call moves from the copies to the
   refill to lzma_code(). *)
Phase == CASE pc = "idle" -> 0 [] pc = "decode" -> 1 [] pc = "check" -> 2 [] pc = "loop" -> 3

Undecoded ==
    (file.len - dec.c) + (file.yield[file.len] - dec.p) + (IF dec.stuck THEN 0 ELSE 1)

StepsLeft == 3 * Undecoded + Phase

LEMMA StepsAreCounted == ASSUME IInv PROVE StepsLeft \in Nat /\ Undecoded \in Nat /\ Phase \in 0 .. 3
<1>1. Phase \in 0 .. 3
  BY DEF IInv, TypeOK, Phase
<1>2. file.len - dec.c \in Nat
  BY Shape DEF IInv, TypeOK, InputInOrder, DecoderState, WellFormedFile
<1>3. file.yield[file.len] - dec.p \in Nat
  BY DeliveredBound
<1>4. Undecoded \in Nat
  BY <1>2, <1>3 DEF Undecoded
<1>. QED  BY <1>1, <1>4 DEF StepsLeft

LEMMA DecodeProgress ==
    ASSUME IInv, IInv', Decode
    PROVE  StepsLeft' < StepsLeft
<1>1. /\ StepsLeft \in Nat /\ Undecoded \in Nat
      /\ file' = file /\ pc = "decode" /\ Phase = 1 /\ ~dec.stuck
      /\ file.len \in Nat /\ file.yield[file.len] \in Nat /\ dec.c \in Nat /\ dec.p \in Nat
  BY StepsAreCounted, DeliveredBound, Shape
     DEF Decode, inner, Phase, IInv, TypeOK, DecoderInv, DecoderState, WellFormedFile
<1>2. PICK used \in 0 .. availIn, made \in 0 .. availOut :
              /\ dec'.c = dec.c + used
              /\ dec'.p = dec.p + made
              /\ pc' = "loop" => dec'.stuck \/ used > 0 \/ made > 0
              /\ pc' = "loop" \/ GiveUp
  BY DecodeStep
<1>3. used \in Nat /\ made \in Nat
  BY DEF IInv, TypeOK
<1>4. dec'.stuck \in BOOLEAN
  BY DEF IInv, TypeOK, DecoderState
<1>5. Undecoded = (file.len - dec.c) + (file.yield[file.len] - dec.p) + 1
  BY <1>1 DEF Undecoded
<1>6. Undecoded' = (file.len - dec.c - used) + (file.yield[file.len] - dec.p - made) + (IF dec'.stuck THEN 0 ELSE 1)
  BY <1>1, <1>2, <1>3 DEF Undecoded
<1>7. CASE pc' = "loop"
  <2>1. Phase' = 3
    BY <1>7 DEF Phase
  <2>2. Undecoded' + 1 <= Undecoded /\ Undecoded' \in Int
    BY <1>1, <1>2, <1>3, <1>5, <1>6, <1>7
  <2>3. PICK later \in Int : later = Undecoded'
    BY <2>2
  <2>4. StepsLeft = 3 * Undecoded + 1 /\ StepsLeft' = 3 * later + 3
    BY <1>1, <2>1, <2>3 DEF StepsLeft
  <2>5. later + 1 <= Undecoded
    BY <2>2, <2>3
  <2>6. 3 * later + 3 < 3 * Undecoded + 1
    BY <1>1, <2>5
  <2>. QED  BY <2>4, <2>6
<1>8. CASE GiveUp
  <2>1. Phase' = 0
    BY <1>8 DEF GiveUp, Return, Phase
  <2>2. Undecoded' <= Undecoded /\ Undecoded' \in Int
    BY <1>1, <1>3, <1>4, <1>5, <1>6
  <2>3. PICK later \in Int : later = Undecoded'
    BY <2>2
  <2>4. StepsLeft = 3 * Undecoded + 1 /\ StepsLeft' = 3 * later
    BY <1>1, <2>1, <2>3 DEF StepsLeft
  <2>5. later <= Undecoded
    BY <2>2, <2>3
  <2>6. 3 * later < 3 * Undecoded + 1
    BY <1>1, <2>5
  <2>. QED  BY <2>4, <2>6
<1>. QED  BY <1>2, <1>7, <1>8

LEMMA StepProgress ==
    ASSUME IInv, IInv', Step
    PROVE  StepsLeft' < StepsLeft
<1>1. Undecoded \in Nat
  BY StepsAreCounted
<1>2. ASSUME UNCHANGED <<file, dec>>, Phase' < Phase, Phase \in Nat, Phase' \in Nat
      PROVE  StepsLeft' < StepsLeft
  BY <1>1, <1>2 DEF StepsLeft, Undecoded
<1>. USE DEF Phase, Return, PastCopy, inner
<1>3. CASE ReadDone
  BY <1>2, <1>3 DEF ReadDone
<1>4. CASE ServePart
  BY <1>2, <1>4 DEF ServePart
<1>5. CASE ServeAll
  BY <1>2, <1>5 DEF ServeAll
<1>6. CASE HitEof
  BY <1>2, <1>6 DEF HitEof
<1>7. CASE Refill
  BY <1>2, <1>7 DEF Refill
<1>8. CASE RefillFails
  BY <1>2, <1>8 DEF RefillFails, GiveUp
<1>9. CASE Decode
  BY <1>9, DecodeProgress
<1>. QED  BY <1>3, <1>4, <1>5, <1>6, <1>7, <1>8, <1>9 DEF Step

(* The loop of php_xziop_read() has a variant: every step a call takes lowers
   StepsLeft, a natural number, so that a call takes at most as many steps as
   that, on a damaged, truncated or failing file too. *)
THEOREM CallsRunOut == Spec => [](StepsLeft \in Nat) /\ [][Step => StepsLeft' < StepsLeft]_vars
<1>1. IInv => StepsLeft \in Nat
  BY StepsAreCounted
<1>2. IInv /\ IInv' /\ [Next]_vars => [Step => StepsLeft' < StepsLeft]_vars
  BY StepProgress
<1>. QED  BY <1>1, <1>2, SpecIInv, PTL DEF Spec

-----------------------------------------------------------------------------
(* A call in progress was asked for something. *)
Asked == pc # "idle" => toRead + haveRead >= 1

LEMMA AskedHolds == IInv /\ Asked /\ [Next]_vars => Asked'
<1>. SUFFICES ASSUME IInv, Asked, [Next]_vars, pc' # "idle" PROVE toRead' + haveRead' >= 1
  BY DEF Asked
<1>1. toRead \in Nat /\ haveRead \in Nat
  BY DEF IInv, TypeOK
<1>2. ASSUME NEW count \in 1 .. MaxCount, ReadCall(count) PROVE toRead' + haveRead' >= 1
  BY <1>2 DEF ReadCall
<1>3. CASE ServeAll
  <2>1. Window \in Nat /\ Window <= toRead
    BY <1>3, DeliveredBound DEF ServeAll
  <2>. QED  BY <1>1, <1>3, <2>1 DEF ServeAll, Asked
<1>4. CASE Refill \/ Decode \/ UNCHANGED vars
  BY <1>4 DEF Refill, PastCopy, Decode, vars, Asked
<1>5. CASE ReadDone \/ ServePart \/ HitEof \/ RefillFails
  BY <1>5 DEF ReadDone, ServePart, HitEof, RefillFails, GiveUp, Return
<1>. QED  BY <1>2, <1>3, <1>4, <1>5 DEF Next, Step

(* No call returns empty-handed without a word: it hands something out, says
   that the end is reached, or has failed (php_xziop_read).  So a caller's loop, while
   (!feof($fp)), goes round at most once for every byte of plaintext and then
   ends. *)
EmptyReadSaysWhy == pc # "idle" /\ pc' = "idle" => Delivered' > start' \/ eof' \/ told'

LEMMA ReturnSaysWhy == IInv /\ Asked /\ [Next]_vars => EmptyReadSaysWhy
<1>. SUFFICES ASSUME IInv, Asked, [Next]_vars, pc # "idle", pc' = "idle"
              PROVE  Delivered' > start' \/ eof' \/ told'
  BY DEF EmptyReadSaysWhy
<1>1. /\ toRead \in Nat /\ haveRead \in Nat /\ start \in Nat
      /\ toRead + haveRead >= 1
      /\ haveRead # -1
  BY DEF IInv, TypeOK, Asked
<1>2. ASSUME start' = start, ret' \in Nat, ret' > 0 PROVE Delivered' > start'
  <2>1. Delivered' = Returned'
    BY DEF Delivered
  <2>2. Returned' = start' + ret'
    BY <1>2 DEF Returned
  <2>3. PICK r \in Nat : r = ret'
    BY <1>2
  <2>4. r > 0
    BY <1>2, <2>3
  <2>5. start + r > start
    BY <1>1, <2>4
  <2>. QED  BY <1>2, <2>1, <2>2, <2>3, <2>5
<1>3. CASE ReadDone
  BY <1>1, <1>2, <1>3 DEF ReadDone, Return
<1>4. CASE ServePart
  BY <1>1, <1>2, <1>4 DEF ServePart, Return
<1>5. CASE HitEof
  BY <1>5 DEF HitEof
<1>6. ASSUME GiveUp, start' = start PROVE Delivered' > start' \/ told'
  <2>1. CASE haveRead = 0
    <3>1. ret' = -1 /\ told' = (told \/ -1 = -1)
      BY <1>6, <2>1 DEF GiveUp, Return
    <3>. QED  BY <3>1
  <2>2. CASE haveRead # 0
    <3>1. ret' = haveRead
      BY <1>6, <2>2 DEF GiveUp, Return
    <3>. QED  BY <1>1, <1>2, <1>6, <2>2, <3>1
  <2>. QED  BY <2>1, <2>2
<1>7. CASE RefillFails
  BY <1>6, <1>7 DEF RefillFails
<1>8. CASE Decode
  <2>1. GiveUp
    BY <1>8, DecodeStep
  <2>. QED  BY <1>6, <1>8, <2>1 DEF Decode
<1>9. CASE ServeAll \/ Refill \/ UNCHANGED vars
  BY <1>9 DEF ServeAll, Refill, vars
<1>10. ~\E count \in 1 .. MaxCount : ReadCall(count)
  BY DEF ReadCall
<1>. QED  BY <1>3, <1>4, <1>5, <1>7, <1>8, <1>9, <1>10 DEF Next, Step

THEOREM EmptyReadExplained == Spec => [][EmptyReadSaysWhy]_vars
<1>1. Init => Asked
  BY DEF Init, Asked
<1>2. IInv /\ Asked /\ [Next]_vars => [EmptyReadSaysWhy]_vars
  BY ReturnSaysWhy
<1>. QED  BY <1>1, <1>2, AskedHolds, SpecIInv, PTL DEF Spec
=============================================================================
