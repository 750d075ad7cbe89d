----------------------- MODULE XzDecodeContext_proofs -----------------------
(***************************************************************************)
(* Proofs about XzDecodeContext: for every set of files, sound or damaged, *)
(* of one or several streams, and every way to cut them into pieces.       *)
(***************************************************************************)
EXTENDS XzDecodeContext, Common_proofs

-----------------------------------------------------------------------------
(* The invariant.  The decoder is where the pieces fed so far put it. *)

Live == dec.seq \in {"RUN", "FINISH"}

InStep ==
    /\ dec.c <= fed
    /\ dec.p <= file.yield[dec.c]
    /\ dec.seq = "RUN" => dec.c + availIn = fed
    /\ dec.seq = "RUN" /\ pc = "idle" => availIn = 0 /\ dec.p = file.yield[dec.c]
    /\ Live /\ ~concat => \A e \in file.ends : dec.c < e
    /\ pc = "process" /\ action = LZMA_FINISH => availIn = 0

AtEnd ==
    /\ dec.seq = "END" <=> status = LZMA_STREAM_END
    /\ dec.seq = "END" =>
          /\ pc = "idle"
          /\ dec.c \in file.ends /\ dec.p = file.yield[dec.c]
          /\ concat \/ \A e \in file.ends : dec.c <= e
    /\ ~Damaged(file) => dec.seq # "ERROR"

(* The string of the call, and those returned before it. *)
Ordered ==
    /\ start + (Len(out) - availOut) = dec.p
    /\ \A i \in 1 .. Len(out) - availOut : out[i] = start + i

Strings ==
    /\ pc = "process" =>
          /\ availOut = XZ_BUFFER_SIZE /\ Len(out) = nextOut + XZ_BUFFER_SIZE
          /\ ret = "none"
          /\ dec.seq = "ERROR" \/ (dec.seq = "FINISH" /\ action = LZMA_RUN) => nextOut = 0
    /\ pc = "idle" =>
          /\ availOut = 0 /\ nextOut = 0
          /\ ret # "string" \/ dec.seq = "ERROR" => out = <<>>
    /\ dec.seq # "ERROR" => Ordered
    /\ ret = "false" => was = LZMA_STREAM_END \/ dec.seq \in {"ERROR", "FINISH"}

IInv == TypeOK /\ InStep /\ AtEnd /\ Strings

LEMMA BlankFacts == Blank \in Seq(Nat) /\ Len(Blank) = XZ_BUFFER_SIZE
  BY BlankSeq, BufferAssumption DEF Blank

LEMMA InitIInv == Init => IInv
<1>. SUFFICES ASSUME Init PROVE IInv
  OBVIOUS
<1>. USE DEF Init
<1>1. WellFormedFile(file)
  BY FilesAssumption
<1>2. file.len \in Nat /\ file.yield[0] = 0 /\ file.ends \subseteq 1 .. file.len
  BY <1>1 DEF WellFormedFile
<1>3. dec \in DecoderState /\ dec.seq = "RUN" /\ dec.c = 0 /\ dec.p = 0
  BY DEF NewDecoder, DecoderState
<1>4. out \in Seq(Nat) /\ Len(out) = 0
  BY EmptySeq
<1>5. 0 \in 0 .. MaxChunk /\ 0 \in 0 .. XZ_BUFFER_SIZE
  BY ChunkAssumption, BufferAssumption
<1>6. TypeOK
  BY <1>1, <1>2, <1>3, <1>4, <1>5 DEF TypeOK, LzmaRet
<1>7. InStep
  BY <1>2, <1>3 DEF InStep
<1>8. AtEnd
  BY <1>3 DEF AtEnd, LZMA_OK, LZMA_STREAM_END
<1>9. Strings
  BY <1>3, <1>4 DEF Strings, Ordered
<1>. QED  BY <1>6, <1>7, <1>8, <1>9 DEF IInv

\* The plaintext returned so far, between calls.
LEMMA ReturnedIdle ==
    ASSUME IInv, pc = "idle"
    PROVE  /\ Returned = start + Len(out)
           /\ Returned \in Nat
           /\ dec.seq # "ERROR" => Returned = dec.p
<1>1. Len(out) \in Nat /\ availOut = 0 /\ start \in Nat
  BY LenProperties DEF IInv, TypeOK, Strings
<1>2. ret # "string" => Len(out) = 0
  BY EmptySeq DEF IInv, Strings
<1>3. Returned = start + Len(out)
  BY <1>1, <1>2 DEF Returned
<1>4. dec.seq # "ERROR" => start + Len(out) = dec.p
  BY <1>1 DEF IInv, Strings, Ordered
<1>. QED  BY <1>1, <1>3, <1>4

-----------------------------------------------------------------------------
(* The calls. *)

\* A call that processes n bytes.
LEMMA Processes ==
    ASSUME IInv, pc = "idle", status # LZMA_STREAM_END, Found, UNCHANGED <<file, object>>,
           NEW n \in 0 .. MaxChunk, NEW act \in {LZMA_RUN, LZMA_FINISH}, Process(act, n),
           fed' = fed + n, fed' <= file.len, act = LZMA_FINISH => n = 0
    PROVE  IInv'
<1>. USE DEF Found, Process, object
<1>1. n \in Nat /\ fed \in Nat /\ dec.c \in Nat
  BY ChunkAssumption DEF IInv, TypeOK, DecoderState, WellFormedFile
<1>2. Returned \in Nat /\ (dec.seq # "ERROR" => Returned = dec.p)
  BY ReturnedIdle
<1>3. TypeOK'
  <2>1. fed' \in 0 .. file.len
    BY <1>1 DEF IInv, TypeOK, WellFormedFile
  <2>2. out' \in Seq(Nat) /\ Len(out') = XZ_BUFFER_SIZE /\ nextOut' \in 0 .. Len(out')
    BY BlankFacts, BufferAssumption
  <2>3. availOut' \in 0 .. XZ_BUFFER_SIZE
    BY BufferAssumption
  <2>. QED  BY <1>2, <2>1, <2>2, <2>3 DEF IInv, TypeOK
<1>4. InStep'
  <2>1. dec.c <= fed'
    BY <1>1 DEF IInv, InStep
  <2>2. dec.seq = "RUN" => dec.c + availIn' = fed'
    BY <1>1 DEF IInv, InStep
  <2>. QED  BY <2>1, <2>2 DEF IInv, InStep, Live
<1>5. AtEnd'
  BY DEF IInv, AtEnd
<1>6. Strings'
  <2>1. Len(out') = XZ_BUFFER_SIZE /\ XZ_BUFFER_SIZE \in Nat
    BY BlankFacts, BufferAssumption
  <2>2. dec.seq # "ERROR" => Ordered'
    BY <1>2, <2>1 DEF Ordered
  <2>. QED  BY <2>1, <2>2 DEF Strings
<1>. QED  BY <1>3, <1>4, <1>5, <1>6 DEF IInv

\* A call on a context that has reached the end of its stream.
LEMMA Refuses ==
    ASSUME IInv, pc = "idle", status = LZMA_STREAM_END, Found, UNCHANGED <<file, object>>,
           NEW answer \in {"string", "false"}, Refuse(answer),
           fed' \in Nat, fed <= fed', fed' <= file.len
    PROVE  IInv'
<1>. USE DEF Found, Refuse, object
<1>1. dec.seq = "END" /\ Returned = dec.p /\ Returned \in Nat
  BY ReturnedIdle DEF IInv, AtEnd
<1>2. out' \in Seq(Nat) /\ Len(out') = 0
  BY EmptySeq
<1>3. TypeOK'
  <2>1. fed' \in 0 .. file.len
    BY DEF IInv, TypeOK, WellFormedFile
  <2>2. nextOut' \in 0 .. Len(out') /\ availOut' \in 0 .. XZ_BUFFER_SIZE
    BY <1>2, BufferAssumption
  <2>. QED  BY <1>1, <1>2, <2>1, <2>2 DEF IInv, TypeOK
<1>4. InStep'
  <2>1. dec.c \in Nat /\ fed \in Nat
    BY DEF IInv, TypeOK, DecoderState
  <2>2. dec.c <= fed'
    BY <2>1 DEF IInv, InStep
  <2>. QED  BY <1>1, <2>2 DEF IInv, InStep, Live
<1>5. AtEnd'
  BY DEF IInv, AtEnd
<1>6. Strings'
  <2>1. Ordered'
    BY <1>1, <1>2 DEF Ordered
  <2>2. was' = LZMA_STREAM_END
    OBVIOUS
  <2>. QED  BY <1>1, <2>1, <2>2 DEF Strings
<1>. QED  BY <1>3, <1>4, <1>5, <1>6 DEF IInv

LEMMA AddIInv ==
    ASSUME IInv, NEW n \in 0 .. MaxChunk, Add(n)
    PROVE  IInv'
<1>1. fed \in Nat /\ n \in Nat /\ fed' \in Nat /\ fed <= fed' /\ fed' <= file.len /\ fed' = fed + n
  BY ChunkAssumption DEF Add, IInv, TypeOK
<1>2. pc = "idle" /\ Found /\ UNCHANGED <<file, object>>
  BY DEF Add
<1>3. CASE status # LZMA_STREAM_END
  <2>1. Process(LZMA_RUN, n)
    BY <1>3 DEF Add
  <2>2. LZMA_RUN # LZMA_FINISH
    BY DEF LZMA_RUN, LZMA_FINISH
  <2>. QED  BY <1>1, <1>2, <1>3, <2>1, <2>2, Processes
<1>4. CASE status = LZMA_STREAM_END
  <2>1. Refuse("false")
    BY <1>4 DEF Add
  <2>. QED  BY <1>1, <1>2, <1>4, <2>1, Refuses
<1>. QED  BY <1>3, <1>4

LEMMA FinishIInv ==
    ASSUME IInv, Finish
    PROVE  IInv'
<1>1. fed' = fed /\ fed \in Nat /\ fed <= file.len
  BY DEF Finish, caller, IInv, TypeOK, WellFormedFile
<1>2. pc = "idle" /\ Found /\ UNCHANGED <<file, object>>
  BY DEF Finish, caller
<1>3. CASE status # LZMA_STREAM_END
  <2>1. Process(LZMA_FINISH, 0)
    BY <1>3 DEF Finish
  <2>2. 0 \in 0 .. MaxChunk /\ fed' = fed + 0
    BY <1>1, ChunkAssumption
  <2>. QED  BY <1>1, <1>2, <1>3, <2>1, <2>2, Processes
<1>4. CASE status = LZMA_STREAM_END
  <2>1. Refuse("string")
    BY <1>4 DEF Finish
  <2>. QED  BY <1>1, <1>2, <1>4, <2>1, Refuses
<1>. QED  BY <1>3, <1>4

-----------------------------------------------------------------------------
(* A turn of the loop. *)

Input == [j \in 1 .. availIn |-> file.bytes[fed - availIn + j]]

Filled(o) == WrittenAt(out, nextOut, o.made, dec.p)

\* What a turn does with lzma_code()'s answer.
Turn(o) ==
    /\ dec' = o.next
    /\ status' = o.ret
    /\ availIn' = availIn - o.used
    /\ IF Continues(o.ret, o.made = availOut)
       THEN Extend(Filled(o)) /\ UNCHANGED <<pc, ret>>
       ELSE /\ pc' = "idle"
            /\ nextOut' = 0
            /\ availOut' = 0
            /\ IF o.ret \in Benign
               THEN out' = SubSeq(Filled(o), 1, OutUsed(o.made)) /\ ret' = "string"
               ELSE out' = <<>> /\ ret' = "false"
    /\ UNCHANGED <<caller, concat, action, was, start>>

LEMMA CodeTurns ==
    ASSUME Code
    PROVE  pc = "process" /\ \E o \in LzmaDecode(file, concat, action, dec, Input, availIn, availOut) : Turn(o)
  BY DEF Code, Input, Filled, WrittenAt, Turn

\* The types of what every turn sets.
LEMMA TurnTypes ==
    ASSUME IInv
    PROVE  /\ XZ_BUFFER_SIZE \in Nat \ {0}
           /\ availIn \in Nat /\ nextOut \in Nat /\ start \in Nat /\ fed \in Nat
           /\ out \in Seq(Nat) /\ Len(out) \in Nat
           /\ dec \in DecoderState /\ dec.c \in Nat /\ dec.p \in Nat
           /\ WellFormedFile(file) /\ file.len \in Nat /\ fed <= file.len
  BY BufferAssumption, ChunkAssumption, LenProperties DEF IInv, TypeOK, DecoderState, WellFormedFile

\* One whose answer is a refusal: an earlier error, or an add after a finish.
LEMMA TurnRefused ==
    ASSUME IInv, pc = "process", NEW o, Turn(o), o = Refusal(dec, LZMA_PROG_ERROR),
           dec.seq = "ERROR" \/ (dec.seq = "FINISH" /\ action = LZMA_RUN)
    PROVE  IInv'
<1>. USE DEF caller
<1>1. o.ret = LZMA_PROG_ERROR /\ o.used = 0 /\ o.made = 0 /\ o.next = dec
  BY DEF Refusal
<1>2. /\ o.ret \notin Benign /\ o.ret # LZMA_STREAM_END
      /\ ~Continues(o.ret, o.made = availOut)
  BY <1>1 DEF Benign, Continues, LZMA_PROG_ERROR, LZMA_OK, LZMA_STREAM_END, LZMA_BUF_ERROR
<1>3. /\ pc' = "idle" /\ nextOut' = 0 /\ availOut' = 0 /\ out' = <<>> /\ ret' = "false"
      /\ UNCHANGED <<file, fed, concat, dec, availIn, action, was, start>>
      /\ status' = LZMA_PROG_ERROR
  <2>1. availIn - 0 = availIn
    BY TurnTypes
  <2>. QED  BY <1>1, <1>2, <2>1 DEF Turn
<1>4. out' \in Seq(Nat) /\ Len(out') = 0
  BY <1>3, EmptySeq
<1>5. TypeOK'
  <2>1. nextOut' \in 0 .. Len(out') /\ availOut' \in 0 .. XZ_BUFFER_SIZE
    BY <1>3, <1>4, BufferAssumption
  <2>2. status' \in LzmaRet
    BY <1>3 DEF LzmaRet
  <2>. QED  BY <1>3, <1>4, <2>1, <2>2 DEF IInv, TypeOK
<1>6. InStep'
  BY <1>3 DEF IInv, InStep, Live
<1>7. AtEnd'
  BY <1>1, <1>2, <1>3 DEF IInv, AtEnd
<1>8. Strings'
  <2>1. ASSUME dec.seq # "ERROR" PROVE Ordered'
    <3>1. start = dec.p
      BY <2>1, TurnTypes DEF IInv, Strings, Ordered
    <3>. QED  BY <1>3, <1>4, <3>1, TurnTypes DEF Ordered
  <2>. QED  BY <1>3, <2>1 DEF Strings
<1>. QED  BY <1>5, <1>6, <1>7, <1>8 DEF IInv

\* What the decoder is offered continues what it has consumed.
LEMMA Offers ==
    ASSUME IInv, pc = "process",
           dec.seq = "RUN" \/ (dec.seq = "FINISH" /\ action = LZMA_FINISH)
    PROVE  Fed(file, concat, action, dec, Input, availIn)
<1>1. dec.c + availIn <= fed
  BY TurnTypes DEF IInv, InStep
<1>2. \A j \in 1 .. availIn : Input[j] = file.bytes[dec.c + j]
  <2>1. CASE availIn = 0
    BY <2>1
  <2>2. CASE availIn # 0
    <3>1. dec.c + availIn = fed
      BY <2>2 DEF IInv, InStep
    <3>2. fed - availIn = dec.c
      BY <3>1, TurnTypes
    <3>. QED  BY <3>2 DEF Input
  <2>. QED  BY <2>1, <2>2
<1>. QED  BY <1>1, <1>2, TurnTypes DEF Fed, IInv, InStep, Live

\* One in which the decoder does its work.
LEMMA TurnDecodes ==
    ASSUME IInv, pc = "process",
           dec.seq = "RUN" \/ (dec.seq = "FINISH" /\ action = LZMA_FINISH),
           NEW o \in LzmaDecode(file, concat, action, dec, Input, availIn, availOut), Turn(o)
    PROVE  IInv'
<1>. USE DEF caller
<1>1. availOut = XZ_BUFFER_SIZE /\ Len(out) = nextOut + XZ_BUFFER_SIZE /\ ret = "none"
  BY DEF IInv, Strings
<1>2. Fed(file, concat, action, dec, Input, availIn)
  BY Offers
<1>3. Decoded(file, concat, action, dec, availIn, XZ_BUFFER_SIZE, o)
  BY <1>1, <1>2, TurnTypes, DecodeOnce DEF IInv, TypeOK
<1>4. /\ o.used \in 0 .. availIn /\ o.made \in 0 .. XZ_BUFFER_SIZE
      /\ o.next \in DecoderState /\ o.next.c = dec.c + o.used /\ o.next.p = dec.p + o.made
      /\ o.next.p <= file.yield[o.next.c]
      /\ o.ret \in {LZMA_OK, LZMA_BUF_ERROR, LZMA_STREAM_END, LZMA_DATA_ERROR}
  BY <1>3 DEF Decoded
<1>5. /\ dec' = o.next /\ status' = o.ret /\ availIn' = availIn - o.used
      /\ UNCHANGED <<file, fed, concat, action, was, start>>
  BY DEF Turn
\* the string
<1>. DEFINE next == nextOut + o.made
            built == SubSeq(Filled(o), 1, next)
<1>6. next \in Nat /\ o.made \in Nat
  BY <1>4, TurnTypes
<1>7. /\ Filled(o) \in Seq(Nat) /\ Len(Filled(o)) = nextOut + XZ_BUFFER_SIZE
      /\ built \in Seq(Nat) /\ Len(built) = next
      /\ start + nextOut = dec.p /\ (\A i \in 1 .. nextOut : out[i] = start + i) =>
            /\ \A i \in 1 .. next : Filled(o)[i] = start + i
            /\ \A i \in 1 .. next : built[i] = start + i
  <2>1. /\ out \in Seq(Nat) /\ nextOut \in Nat /\ XZ_BUFFER_SIZE \in Nat
        /\ dec.p \in Nat /\ start \in Nat
        /\ Len(out) = nextOut + XZ_BUFFER_SIZE /\ o.made \in 0 .. XZ_BUFFER_SIZE
    BY <1>1, <1>4, TurnTypes
  <2>2. LET filled == WrittenAt(out, nextOut, o.made, dec.p)
            returned == SubSeq(filled, 1, nextOut + o.made)
        IN  /\ filled \in Seq(Nat) /\ Len(filled) = nextOut + XZ_BUFFER_SIZE
            /\ returned \in Seq(Nat) /\ Len(returned) = nextOut + o.made
            /\ start + nextOut = dec.p /\ InOrder(out, nextOut, start) =>
                  InOrder(filled, nextOut + o.made, start) /\ InOrder(returned, nextOut + o.made, start)
    BY <2>1, FillString
  <2>. QED  BY <2>2, Zenon DEF Filled, InOrder
<1>8. start + nextOut = dec.p /\ \A i \in 1 .. nextOut : out[i] = start + i
  <2>1. Ordered
    BY DEF IInv, Strings
  <2>2. Len(out) - availOut = nextOut
    BY <1>1, TurnTypes
  <2>. QED  BY <2>1, <2>2 DEF Ordered
<1>9. start + next = o.next.p
  BY <1>4, <1>6, <1>8, TurnTypes
<1>10. OutUsed(o.made) = next
  BY <1>1, <1>6, TurnTypes DEF OutUsed
<1>. HIDE DEF next, built
\* the loop goes on, returns the string, or fails
<1>11. CASE Continues(o.ret, o.made = availOut)
  <2>1. /\ o.ret = LZMA_OK \/ (o.ret = LZMA_BUF_ERROR /\ action = LZMA_FINISH)
        /\ o.made = XZ_BUFFER_SIZE
    BY <1>1, <1>11 DEF Continues
  <2>2. next = Len(Filled(o))
    BY <1>7, <2>1 DEF next
  <2>3. /\ out' = Filled(o) \o Blank /\ nextOut' = next /\ availOut' = XZ_BUFFER_SIZE
        /\ UNCHANGED <<pc, ret>>
    BY <1>11, <2>2 DEF Turn, Extend
  <2>4. /\ out' \in Seq(Nat) /\ Len(out') = next + XZ_BUFFER_SIZE
        /\ \A i \in 1 .. next : out'[i] = Filled(o)[i]
    BY <1>7, <2>2, <2>3, GrowString, TurnTypes DEF Blank
  <2>5. Len(out') - availOut' = next
    BY <1>6, <2>3, <2>4, TurnTypes
  <2>6. o.ret = LZMA_OK
    <3>1. o.ret # LZMA_BUF_ERROR
      BY <1>3, <2>1, TurnTypes DEF Decoded, LZMA_OK, LZMA_BUF_ERROR, LZMA_STREAM_END, LZMA_DATA_ERROR
    <3>. QED  BY <2>1, <3>1
  <2>7. /\ GoesOn(file, concat, action, dec, o)
        /\ o.next.seq \in {"RUN", "FINISH"}
        /\ o.next.seq = "RUN" => dec.seq = "RUN" /\ action # LZMA_FINISH
        /\ o.next.seq = "FINISH" => action # LZMA_RUN
    BY <1>3, <2>6 DEF Decoded, GoesOn, LZMA_OK, LZMA_BUF_ERROR, LZMA_STREAM_END, LZMA_DATA_ERROR, LZMA_RUN, LZMA_FINISH
  <2>8. /\ availIn - o.used \in 0 .. MaxChunk
        /\ dec.c + o.used <= fed
        /\ dec.seq = "RUN" => dec.c + o.used + (availIn - o.used) = fed
        /\ availIn = 0 => availIn - o.used = 0
    <3>1. dec.c + availIn <= fed
      BY <1>2, TurnTypes DEF IInv, InStep
    <3>2. o.used \in Nat /\ o.used <= availIn /\ availIn \in 0 .. MaxChunk
      BY <1>4, TurnTypes DEF IInv, TypeOK
    <3>3. availIn - o.used \in 0 .. MaxChunk /\ (availIn = 0 => availIn - o.used = 0)
      BY <3>2, ChunkAssumption
    <3>4. dec.seq = "RUN" => dec.c + availIn = fed
      BY DEF IInv, InStep
    <3>5. dec.c + o.used <= fed /\ dec.c + o.used + (availIn - o.used) = dec.c + availIn
      BY <3>1, <3>2, TurnTypes
    <3>. QED  BY <3>3, <3>4, <3>5
  <2>9. TypeOK'
    <3>1. nextOut' \in 0 .. Len(out') /\ availOut' \in 0 .. XZ_BUFFER_SIZE
      BY <1>6, <2>3, <2>4, TurnTypes
    <3>2. o.ret \in LzmaRet
      BY <2>6 DEF LzmaRet
    <3>. QED  BY <1>4, <1>5, <2>3, <2>4, <2>8, <3>1, <3>2 DEF IInv, TypeOK
  <2>10. InStep'
    <3>1. dec'.c <= fed' /\ dec'.p <= file'.yield[dec'.c]
      BY <1>4, <1>5, <2>8
    <3>2. dec'.seq = "RUN" => dec'.c + availIn' = fed'
      BY <1>4, <1>5, <2>7, <2>8
    <3>3. pc' = "process" /\ action' = LZMA_FINISH => availIn' = 0
      BY <1>5, <2>8 DEF IInv, InStep
    <3>4. ~concat => \A e \in file.ends : o.next.c < e
      BY <2>7 DEF GoesOn
    <3>. QED  BY <1>5, <2>3, <3>1, <3>2, <3>3, <3>4 DEF InStep
  <2>11. AtEnd'
    BY <1>5, <2>6, <2>7 DEF AtEnd, LZMA_OK, LZMA_STREAM_END
  <2>12. Strings'
    <3>1. Ordered'
      BY <1>5, <1>7, <1>8, <1>9, <2>4, <2>5 DEF Ordered
    <3>2. ret' = "none" /\ pc' = "process"
      BY <1>1, <2>3
    <3>3. ~(dec'.seq = "ERROR" \/ (dec'.seq = "FINISH" /\ action' = LZMA_RUN))
      BY <1>5, <2>7
    <3>. QED  BY <2>3, <2>4, <3>1, <3>2, <3>3 DEF Strings
  <2>. QED  BY <2>9, <2>10, <2>11, <2>12 DEF IInv
<1>12. CASE ~Continues(o.ret, o.made = availOut) /\ o.ret \in Benign
  <2>1. /\ pc' = "idle" /\ nextOut' = 0 /\ availOut' = 0 /\ ret' = "string"
        /\ out' = built
    BY <1>10, <1>12 DEF Turn, built
  <2>2. o.ret \in {LZMA_OK, LZMA_BUF_ERROR, LZMA_STREAM_END}
    BY <1>12 DEF Benign
  <2>3. /\ o.next.p = file.yield[o.next.c]
        /\ \/ o.ret # LZMA_STREAM_END /\ GoesOn(file, concat, action, dec, o) /\ o.used = availIn
           \/ /\ o.ret = LZMA_STREAM_END
              /\ o.next.seq = "END" /\ o.next.c \in file.ends
              /\ concat \/ \A e \in file.ends : o.next.c <= e
    <3>1. CASE o.ret = LZMA_OK
      <4>1. o.made # XZ_BUFFER_SIZE
        BY <1>1, <1>12, <3>1 DEF Continues
      <4>. QED  BY <1>3, <3>1, <4>1 DEF Decoded, LZMA_OK, LZMA_BUF_ERROR, LZMA_STREAM_END, LZMA_DATA_ERROR
    <3>2. CASE o.ret = LZMA_BUF_ERROR
      BY <1>3, <3>2 DEF Decoded, LZMA_OK, LZMA_BUF_ERROR, LZMA_STREAM_END, LZMA_DATA_ERROR
    <3>3. CASE o.ret = LZMA_STREAM_END
      BY <1>3, <3>3 DEF Decoded, LZMA_OK, LZMA_BUF_ERROR, LZMA_STREAM_END, LZMA_DATA_ERROR
    <3>. QED  BY <2>2, <3>1, <3>2, <3>3
  <2>4. /\ GoesOn(file, concat, action, dec, o) =>
              /\ o.next.seq \in {"RUN", "FINISH"}
              /\ o.next.seq = "RUN" => dec.seq = "RUN"
        /\ "RUN" # "END" /\ "FINISH" # "END" /\ "ERROR" # "END"
    BY DEF GoesOn
  <2>5. availIn - o.used \in 0 .. MaxChunk /\ dec.c + o.used <= fed
    <3>1. dec.c + availIn <= fed
      BY <1>2, TurnTypes DEF IInv, InStep
    <3>2. o.used \in Nat /\ o.used <= availIn /\ availIn \in 0 .. MaxChunk
      BY <1>4, TurnTypes DEF IInv, TypeOK
    <3>3. availIn - o.used \in 0 .. MaxChunk
      BY <3>2, ChunkAssumption
    <3>. QED  BY <3>1, <3>2, <3>3, TurnTypes
  <2>6. o.next.seq = "RUN" => o.used = availIn /\ dec.c + o.used = fed /\ availIn - o.used = 0
    <3>1. ASSUME o.next.seq = "RUN" PROVE o.used = availIn /\ dec.seq = "RUN"
      BY <2>3, <2>4, <3>1
    <3>2. dec.seq = "RUN" => dec.c + availIn = fed
      BY DEF IInv, InStep
    <3>. QED  BY <3>1, <3>2, TurnTypes
  <2>7. TypeOK'
    <3>1. nextOut' \in 0 .. Len(out') /\ availOut' \in 0 .. XZ_BUFFER_SIZE
      BY <1>6, <1>7, <2>1, TurnTypes
    <3>2. o.ret \in LzmaRet
      BY <2>2 DEF LzmaRet
    <3>. QED  BY <1>4, <1>5, <1>7, <2>1, <2>5, <3>1, <3>2 DEF IInv, TypeOK
  <2>8. InStep'
    <3>1. dec'.c <= fed' /\ dec'.p <= file'.yield[dec'.c]
      BY <1>4, <1>5, <2>5
    <3>2. dec'.seq = "RUN" => dec'.c + availIn' = fed' /\ availIn' = 0 /\ dec'.p = file'.yield[dec'.c]
      BY <1>4, <1>5, <2>3, <2>6, TurnTypes
    <3>3. o.next.seq \in {"RUN", "FINISH"} /\ ~concat => \A e \in file.ends : o.next.c < e
      BY <2>3, <2>4 DEF GoesOn
    <3>. QED  BY <1>5, <2>1, <3>1, <3>2, <3>3 DEF InStep, Live
  <2>9. AtEnd'
    BY <1>5, <2>1, <2>3, <2>4 DEF AtEnd
  <2>10. Strings'
    <3>1. Len(out') - availOut' = next
      BY <1>6, <1>7, <2>1
    <3>2. Ordered'
      BY <1>5, <1>7, <1>8, <1>9, <2>1, <3>1 DEF Ordered
    <3>3. dec'.seq # "ERROR"
      BY <1>5, <2>3, <2>4
    <3>. QED  BY <2>1, <3>2, <3>3 DEF Strings
  <2>. QED  BY <2>7, <2>8, <2>9, <2>10 DEF IInv
<1>13. CASE ~Continues(o.ret, o.made = availOut) /\ o.ret \notin Benign
  <2>1. /\ pc' = "idle" /\ nextOut' = 0 /\ availOut' = 0 /\ ret' = "false"
        /\ out' = <<>>
    BY <1>13 DEF Turn
  <2>2. o.ret = LZMA_DATA_ERROR
    BY <1>4, <1>13 DEF Benign
  <2>3. o.next.seq = "ERROR" /\ Damaged(file)
    BY <1>3, <2>2 DEF Decoded, LZMA_OK, LZMA_BUF_ERROR, LZMA_STREAM_END, LZMA_DATA_ERROR
  <2>4. availIn - o.used \in 0 .. MaxChunk /\ dec.c + o.used <= fed
    <3>1. dec.c + availIn <= fed
      BY <1>2, TurnTypes DEF IInv, InStep
    <3>2. o.used \in Nat /\ o.used <= availIn /\ availIn \in 0 .. MaxChunk
      BY <1>4, TurnTypes DEF IInv, TypeOK
    <3>3. availIn - o.used \in 0 .. MaxChunk
      BY <3>2, ChunkAssumption
    <3>. QED  BY <3>1, <3>2, <3>3, TurnTypes
  <2>5. TypeOK'
    <3>1. out' \in Seq(Nat) /\ nextOut' \in 0 .. Len(out') /\ availOut' \in 0 .. XZ_BUFFER_SIZE
      BY <2>1, EmptySeq, TurnTypes
    <3>2. o.ret \in LzmaRet
      BY <2>2 DEF LzmaRet
    <3>. QED  BY <1>4, <1>5, <2>1, <2>4, <3>1, <3>2 DEF IInv, TypeOK
  <2>6. InStep'
    BY <1>4, <1>5, <2>1, <2>3, <2>4 DEF InStep, Live
  <2>7. AtEnd'
    BY <1>5, <2>2, <2>3 DEF AtEnd, LZMA_DATA_ERROR, LZMA_STREAM_END
  <2>8. Strings'
    BY <1>5, <2>1, <2>3 DEF Strings
  <2>. QED  BY <2>5, <2>6, <2>7, <2>8 DEF IInv
<1>. QED  BY <1>11, <1>12, <1>13

LEMMA CodeIInv ==
    ASSUME IInv, Code
    PROVE  IInv'
<1>1. pc = "process"
  BY CodeTurns
<1>2. PICK o \in LzmaDecode(file, concat, action, dec, Input, availIn, availOut) : Turn(o)
  BY CodeTurns
<1>3. dec.seq \in {"RUN", "FINISH", "ERROR"} /\ action \in {LZMA_RUN, LZMA_FINISH}
  BY <1>1 DEF IInv, TypeOK, DecoderState, AtEnd
<1>4. CASE dec.seq = "RUN" \/ (dec.seq = "FINISH" /\ action = LZMA_FINISH)
  BY <1>1, <1>2, <1>4, TurnDecodes
<1>5. CASE dec.seq = "ERROR" \/ (dec.seq = "FINISH" /\ action = LZMA_RUN)
  <2>1. o = Refusal(dec, LZMA_PROG_ERROR)
    BY <1>2, <1>5 DEF LzmaDecode, LZMA_RUN, LZMA_FINISH
  <2>. QED  BY <1>1, <1>2, <1>5, <2>1, TurnRefused
<1>. QED  BY <1>3, <1>4, <1>5

(* A finish leaves the decoder in the middle of a stream only if the pieces do. *)
LEMMA FinishTurns ==
    ASSUME IInv, Code, dec'.seq = "FINISH"
    PROVE  dec.seq = "FINISH" \/ (action = LZMA_FINISH /\ dec.c \notin file.ends)
<1>1. pc = "process"
  BY CodeTurns
<1>2. PICK o \in LzmaDecode(file, concat, action, dec, Input, availIn, availOut) : Turn(o)
  BY CodeTurns
<1>3. dec' = o.next
  BY <1>2 DEF Turn
<1>4. CASE dec.seq = "ERROR"
  <2>1. o = Refusal(dec, LZMA_PROG_ERROR)
    BY <1>2, <1>4 DEF LzmaDecode
  <2>. QED  BY <1>3, <1>4, <2>1 DEF Refusal
<1>5. CASE dec.seq = "RUN" /\ action = LZMA_RUN
  <2>1. Fed(file, concat, action, dec, Input, availIn)
    BY <1>1, <1>5, Offers
  <2>2. Decoded(file, concat, action, dec, availIn, availOut, o)
    BY <1>1, <1>2, <2>1, DecodeOnce, TurnTypes DEF IInv, TypeOK, Strings
  <2>. QED  BY <1>3, <1>5, <2>2 DEF Decoded, GoesOn, LZMA_RUN, LZMA_FINISH
<1>6. CASE dec.seq = "RUN" /\ action = LZMA_FINISH /\ dec.c \in file.ends
  <2>1. availIn = 0
    BY <1>1, <1>6 DEF IInv, InStep
  <2>2. o.next.seq = "END"
    BY <1>2, <1>6, <2>1, EndsWhenTold, TurnTypes DEF IInv, TypeOK
  <2>. QED  BY <1>3, <2>2
<1>7. dec.seq \in {"RUN", "FINISH", "ERROR"} /\ action \in {LZMA_RUN, LZMA_FINISH}
  BY <1>1 DEF IInv, TypeOK, DecoderState, AtEnd
<1>. QED  BY <1>4, <1>5, <1>6, <1>7

LEMMA NextIInv == IInv /\ [Next]_vars => IInv'
<1>. SUFFICES ASSUME IInv, [Next]_vars PROVE IInv'
  OBVIOUS
<1>1. CASE UNCHANGED vars
  <2>. USE <1>1 DEF vars, caller, object, string
  <2>1. TypeOK' /\ AtEnd'
    BY DEF IInv, TypeOK, AtEnd
  <2>2. InStep'
    BY DEF IInv, InStep, Live
  <2>3. Strings'
    BY DEF IInv, Strings, Ordered
  <2>. QED  BY <2>1, <2>2, <2>3 DEF IInv
<1>. QED  BY <1>1, FinishIInv, CodeIInv, AddIInv DEF Next

LEMMA SpecIInv == Spec => []IInv
  BY InitIInv, NextIInv, PTL DEF Spec

-----------------------------------------------------------------------------
(* Every variable has its type: no pointer into the string leaves it, avail_in and
   avail_out never exceed what they count (php_xz_decode_context_process). *)
THEOREM DecodeTyped == Spec => []TypeOK
<1>1. IInv => TypeOK
  BY DEF IInv
<1>. QED  BY <1>1, SpecIInv, PTL

(* The strings returned are the plaintext from its first byte on; none is lost,
   repeated or moved when a string grows (php_xz_decode_context_process). *)
THEOREM DecodedInOrder == Spec => []OutInOrder
<1>1. IInv => OutInOrder
  <2>. SUFFICES ASSUME IInv, dec.seq # "ERROR" PROVE Ordered /\ (pc = "process" => nextOut = Built)
    BY DEF OutInOrder, Ordered, Built
  <2>1. Ordered
    BY DEF IInv, Strings
  <2>2. pc = "process" => nextOut = Built
    BY TurnTypes DEF IInv, Strings, Built
  <2>. QED  BY <2>1, <2>2
<1>. QED  BY <1>1, SpecIInv, PTL

(* An add returns all that its piece decodes to, wherever the string was full
   (src/xz_decode_context.c:78). *)
THEOREM AddHoldsNothingBack == Spec => []NothingHeldBack
<1>1. IInv => NothingHeldBack
  <2>. SUFFICES ASSUME IInv, pc = "idle", dec.seq = "RUN" PROVE dec.c = fed /\ Returned = file.yield[fed]
    BY DEF NothingHeldBack
  <2>1. dec.c + 0 = fed /\ dec.p = file.yield[dec.c]
    BY DEF IInv, InStep
  <2>2. Returned = dec.p
    BY ReturnedIdle
  <2>. QED  BY <2>1, <2>2, TurnTypes
<1>. QED  BY <1>1, SpecIInv, PTL

(* Status 1 means the end of a stream, and everything before it has been returned
   (xz_decode_get_status, xz_decode_get_read_len). *)
THEOREM EndsExactly == Spec => []EndIsExact
<1>1. IInv => EndIsExact
  <2>. SUFFICES ASSUME IInv, pc = "idle", status = LZMA_STREAM_END
                PROVE  /\ dec.c \in file.ends
                       /\ concat \/ \A e \in file.ends : dec.c <= e
                       /\ Returned = file.yield[dec.c]
    BY DEF EndIsExact, GetStatus, GetReadLen
  <2>1. dec.seq = "END"
    BY DEF IInv, AtEnd
  <2>2. Returned = dec.p
    BY <2>1, ReturnedIdle
  <2>. QED  BY <2>1, <2>2 DEF IInv, AtEnd
<1>. QED  BY <1>1, SpecIInv, PTL

(* Undamaged pieces make no call fail but after the end or an early finish
   (xz_decode_add, xz_decode_finish). *)
THEOREM SoundPiecesAccepted == Spec => []UndamagedNeverFails
<1>1. IInv => UndamagedNeverFails
  BY DEF IInv, AtEnd, Strings, UndamagedNeverFails
<1>. QED  BY <1>1, SpecIInv, PTL

(* A string outgrows the plaintext by at most XZ_BUFFER_SIZE, so that the loop ends
   (src/xz_decode_context.c:70-101). *)
THEOREM StringBounded == Spec => []OutBounded
<1>1. IInv => OutBounded
  <2>. SUFFICES ASSUME IInv PROVE Len(out) <= file.yield[file.len] + XZ_BUFFER_SIZE
    BY DEF OutBounded
  <2>1. /\ dec.c \in 0 .. file.len /\ file.len \in 0 .. file.len /\ dec.c <= file.len
        /\ file.yield[dec.c] \in Nat /\ file.yield[file.len] \in Nat
    BY TurnTypes DEF IInv, InStep, WellFormedFile
  <2>2. dec.p <= file.yield[file.len]
    BY <2>1, YieldMonotone, TurnTypes DEF IInv, InStep
  <2>3. CASE pc = "process"
    <3>1. dec.seq = "ERROR" => nextOut = 0
      BY <2>3 DEF IInv, Strings
    <3>2. Len(out) = nextOut + XZ_BUFFER_SIZE /\ availOut = XZ_BUFFER_SIZE
      BY <2>3 DEF IInv, Strings
    <3>3. dec.seq # "ERROR" => start + (Len(out) - availOut) = dec.p
      BY DEF IInv, Strings, Ordered
    <3>4. nextOut <= dec.p
      BY <3>1, <3>2, <3>3, TurnTypes
    <3>. QED  BY <2>1, <2>2, <3>2, <3>4, TurnTypes
  <2>4. CASE pc = "idle"
    <3>1. dec.seq = "ERROR" => Len(out) = 0
      BY <2>4, EmptySeq DEF IInv, Strings
    <3>2. dec.seq # "ERROR" => start + Len(out) = dec.p
      BY <2>4, TurnTypes DEF IInv, Strings, Ordered
    <3>. QED  BY <2>1, <2>2, <3>1, <3>2, TurnTypes
  <2>. QED  BY <2>3, <2>4 DEF IInv, TypeOK
<1>. QED  BY <1>1, SpecIInv, PTL
-----------------------------------------------------------------------------
(* The loop ends.  Every turn but the last fills the string that was grown for it,
   with plaintext that is still to come. *)

StillToCome == file.yield[file.len] - dec.p

TurnsLeft == IF pc = "process" THEN StillToCome + 1 ELSE 0

LEMMA TurnsAreCounted ==
    ASSUME IInv
    PROVE  StillToCome \in Nat /\ TurnsLeft \in Nat
<1>1. /\ dec.c \in 0 .. file.len /\ file.len \in 0 .. file.len /\ dec.c <= file.len
      /\ file.yield[dec.c] \in Nat /\ file.yield[file.len] \in Nat
  BY TurnTypes DEF IInv, InStep, WellFormedFile
<1>2. dec.p <= file.yield[file.len]
  BY <1>1, YieldMonotone, TurnTypes DEF IInv, InStep
<1>3. StillToCome \in Nat
  BY <1>1, <1>2, TurnTypes DEF StillToCome
<1>. QED  BY <1>3 DEF TurnsLeft

LEMMA CodeProgress ==
    ASSUME IInv, Code
    PROVE  TurnsLeft' < TurnsLeft
<1>1. pc = "process" /\ TurnsLeft = StillToCome + 1 /\ StillToCome \in Nat
  BY CodeTurns, TurnsAreCounted DEF TurnsLeft
<1>2. PICK o \in LzmaDecode(file, concat, action, dec, Input, availIn, availOut) : Turn(o)
  BY CodeTurns
<1>3. dec' = o.next /\ file' = file
  BY <1>2 DEF Turn, caller
<1>4. CASE ~Continues(o.ret, o.made = availOut)
  <2>1. pc' = "idle"
    BY <1>2, <1>4 DEF Turn
  <2>2. TurnsLeft' = 0
    BY <2>1 DEF TurnsLeft
  <2>. QED  BY <1>1, <2>2
<1>5. CASE Continues(o.ret, o.made = availOut)
  <2>1. pc' = "process" /\ o.made = availOut /\ availOut = XZ_BUFFER_SIZE /\ o.ret # LZMA_PROG_ERROR
    BY <1>1, <1>2, <1>5 DEF Turn, Continues, IInv, Strings, LZMA_OK, LZMA_BUF_ERROR, LZMA_PROG_ERROR
  <2>2. dec.seq = "RUN" \/ (dec.seq = "FINISH" /\ action = LZMA_FINISH)
    <3>1. dec.seq \in {"RUN", "FINISH", "ERROR"} /\ action \in {LZMA_RUN, LZMA_FINISH}
      BY <1>1 DEF IInv, TypeOK, DecoderState, AtEnd
    <3>2. dec.seq = "ERROR" \/ (dec.seq = "FINISH" /\ action = LZMA_RUN) => o = Refusal(dec, LZMA_PROG_ERROR)
      BY <1>2 DEF LzmaDecode, LZMA_RUN, LZMA_FINISH
    <3>. QED  BY <2>1, <3>1, <3>2 DEF Refusal
  <2>3. Fed(file, concat, action, dec, Input, availIn)
    BY <1>1, <2>2, Offers
  <2>4. o.next.p = dec.p + XZ_BUFFER_SIZE
    <3>1. Decoded(file, concat, action, dec, availIn, XZ_BUFFER_SIZE, o)
      BY <1>2, <2>1, <2>3, TurnTypes, DecodeOnce DEF IInv, TypeOK
    <3>. QED  BY <2>1, <3>1 DEF Decoded
  <2>. DEFINE rest == StillToCome - XZ_BUFFER_SIZE
  <2>5. file.yield[file.len] - (dec.p + XZ_BUFFER_SIZE) = rest
    <3>1. file.yield[file.len] \in Nat /\ dec.p \in Nat /\ XZ_BUFFER_SIZE \in Nat
      BY TurnTypes DEF WellFormedFile
    <3>. QED  BY <3>1 DEF StillToCome
  <2>6. StillToCome' = rest
    BY <1>3, <2>4, <2>5 DEF StillToCome
  <2>. HIDE DEF rest
  <2>7. TurnsLeft' = rest + 1
    BY <2>1, <2>6 DEF TurnsLeft
  <2>8. rest + 1 < TurnsLeft
    BY <1>1, TurnTypes DEF rest
  <2>. QED  BY <2>7, <2>8
<1>. QED  BY <1>4, <1>5

(* The loop of php_xz_decode_context_process() has a variant: every turn lowers
   TurnsLeft, a natural number, whatever the pieces were and wherever the string was
   full (src/xz_decode_context.c:70-101). *)
THEOREM TurnsRunOut == Spec => [](TurnsLeft \in Nat) /\ [][Code => TurnsLeft' < TurnsLeft]_vars
<1>1. IInv => TurnsLeft \in Nat
  BY TurnsAreCounted
<1>2. IInv /\ [Next]_vars => [Code => TurnsLeft' < TurnsLeft]_vars
  BY CodeProgress
<1>. QED  BY <1>1, <1>2, SpecIInv, PTL DEF Spec
=============================================================================
