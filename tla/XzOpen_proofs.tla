---------------------------- MODULE XzOpen_proofs ----------------------------
(***************************************************************************)
(* Proofs about XzOpen: opening a stream with any modes, levels and        *)
(* limits, whatever fails on the way.  The invariant says what each stage  *)
(* of the chain has acquired, and where the two settings came from.        *)
(***************************************************************************)
EXTENDS XzOpen, Common_proofs

-----------------------------------------------------------------------------
(* The options a caller may give. *)

LEMMA OptionalFacts ==
    ASSUME NEW S, NEW o \in Optional(S)
    PROVE  /\ Given(o) => o[1] \in S
           /\ ~Given(o) => o = <<>>
  BY DEF Optional, Given

(* Which of four sources is asked. *)
LEMMA AskedFour ==
    ASSUME NEW a, NEW b, NEW c, NEW v
    PROVE  Asked(<<a, b, c, <<v>>>>) = IF Given(a) THEN a[1] ELSE IF Given(b) THEN b[1]
                                       ELSE IF Given(c) THEN c[1] ELSE v
<1>. DEFINE s == <<a, b, c, <<v>>>>
            First(i) == Given(s[i]) /\ \A j \in 1 .. i - 1 : ~Given(s[j])
<1>1. Len(s) = 4 /\ s[1] = a /\ s[2] = b /\ s[3] = c /\ s[4] = <<v>> /\ Given(s[4])
  BY DEF Given
<1>2. Asked(s) = s[CHOOSE i \in 1 .. 4 : First(i)][1]
  BY <1>1 DEF Asked
<1>. HIDE DEF s
<1>3. First(1) <=> Given(a)
  BY <1>1
<1>4. First(2) <=> Given(b) /\ ~Given(a)
  BY <1>1
<1>5. First(3) <=> Given(c) /\ ~Given(a) /\ ~Given(b)
  BY <1>1
<1>6. First(4) <=> ~Given(a) /\ ~Given(b) /\ ~Given(c)
  BY <1>1
<1>. HIDE DEF First
<1>7. CASE Given(a)
  <2>1. (CHOOSE i \in 1 .. 4 : First(i)) = 1
    BY <1>3, <1>4, <1>5, <1>6, <1>7
  <2>. QED  BY <1>1, <1>2, <1>7, <2>1 DEF s
<1>8. CASE ~Given(a) /\ Given(b)
  <2>1. (CHOOSE i \in 1 .. 4 : First(i)) = 2
    BY <1>3, <1>4, <1>5, <1>6, <1>8
  <2>. QED  BY <1>1, <1>2, <1>8, <2>1 DEF s
<1>9. CASE ~Given(a) /\ ~Given(b) /\ Given(c)
  <2>1. (CHOOSE i \in 1 .. 4 : First(i)) = 3
    BY <1>3, <1>4, <1>5, <1>6, <1>9
  <2>. QED  BY <1>1, <1>2, <1>9, <2>1 DEF s
<1>10. CASE ~Given(a) /\ ~Given(b) /\ ~Given(c)
  <2>1. (CHOOSE i \in 1 .. 4 : First(i)) = 4
    BY <1>3, <1>4, <1>5, <1>6, <1>10
  <2>2. s[4][1] = v
    BY <1>1
  <2>. QED  BY <1>2, <1>10, <2>1, <2>2 DEF s
<1>. QED  BY <1>7, <1>8, <1>9, <1>10

(* Which of two. *)
LEMMA AskedTwo ==
    ASSUME NEW a, NEW v
    PROVE  Asked(<<a, <<v>>>>) = IF Given(a) THEN a[1] ELSE v
<1>. DEFINE s == <<a, <<v>>>>
            First(i) == Given(s[i]) /\ \A j \in 1 .. i - 1 : ~Given(s[j])
<1>1. Len(s) = 2 /\ s[1] = a /\ s[2] = <<v>> /\ Given(s[2])
  BY DEF Given
<1>2. Asked(s) = s[CHOOSE i \in 1 .. 2 : First(i)][1]
  BY <1>1 DEF Asked
<1>. HIDE DEF s
<1>3. First(1) <=> Given(a)
  BY <1>1
<1>4. First(2) <=> ~Given(a)
  BY <1>1
<1>. HIDE DEF First
<1>5. CASE Given(a)
  <2>1. (CHOOSE i \in 1 .. 2 : First(i)) = 1
    BY <1>3, <1>4, <1>5
  <2>. QED  BY <1>1, <1>2, <1>5, <2>1 DEF s
<1>6. CASE ~Given(a)
  <2>1. (CHOOSE i \in 1 .. 2 : First(i)) = 2
    BY <1>3, <1>4, <1>6
  <2>2. s[2][1] = v
    BY <1>1
  <2>. QED  BY <1>2, <1>6, <2>1, <2>2 DEF s
<1>. QED  BY <1>5, <1>6

-----------------------------------------------------------------------------
(* The invariant. *)

Before == {"start", "check", "inner"}
Trying == {"cast", "alloc"}

\* What each stage holds.
Held ==
    /\ pc \in Before => inner = "none" /\ self = 0
    /\ pc \in Trying => inner = "open" /\ self = 0
    /\ pc \in {"codec", "open"} => inner = "open" /\ self = 1
    /\ pc \in {"null", "closed", "fatal"} => inner # "open" /\ self = 0
    /\ pc = "undefined" => inner = "open" /\ self = 0
    /\ pc \notin {"open", "closed"} => coder = "none"
    /\ pc # "open" => ~buffers
    /\ pc = "open" => coder \in {"encoder", "decoder"}
    /\ pc = "closed" => coder = "ended"

\* The level of the mode before xzopen()'s and that before the INI setting's; the stream
\* context's comes first of all.
Base == IF Given(mode.number) THEN mode.number[1]
        ELSE IF Given(callLevel) THEN callLevel[1] ELSE iniLevel
AskedLevel == IF Given(contextLevel) THEN contextLevel[1] ELSE Base
AskedLimit == IF Given(contextLimit) THEN contextLimit[1] ELSE iniLimit

Sources ==
    /\ pc = "start" => level = iniLevel /\ mem = iniLimit
    /\ pc = "check" => level = Base /\ mem = iniLimit
    /\ pc \in {"inner", "cast", "alloc", "codec", "open"} => level = AskedLevel /\ mem = AskedLimit

Codec ==
    /\ pc \in {"codec", "open"} => isWrite = ForWriting
    /\ pc = "open" => ForWriting = (coder = "encoder")
    /\ pc = "open" /\ coder = "encoder" => setting = U32(level) /\ Preset(setting)
    /\ pc = "open" /\ coder = "decoder" => setting = MemLimit(U64(mem))

IInv == TypeOK /\ Held /\ Sources /\ Codec

\* A value of a setting is a zend_long.
LEMMA Settings ==
    ASSUME NEW x, x \in Levels \/ x \in Limits
    PROVE  /\ x \in Long
           /\ U32(x) \in 0 .. UINT64_MAX
           /\ Preset(x) => U32(x) = x
           /\ MemLimit(U64(x)) \in 0 .. UINT64_MAX
           /\ LimitMeans(x, MemLimit(U64(x)))
<1>1. x \in Long
  BY ValuesAssumption
<1>2. U32(x) \in 0 .. UINT64_MAX
  BY <1>1, U32Facts, WordAssumption, LongWordAssumption DEF UINT64_MAX
<1>3. Preset(x) => U32(x) = x
  <2>1. x \in Int
    BY <1>1, LongRange
  <2>2. Preset(x) => x \in 0 .. Word - 1
    BY <2>1, WordAssumption DEF Preset, LZMA_PRESET_EXTREME
  <2>. QED  BY <1>1, <2>2, U32Facts
<1>. QED  BY <1>1, <1>2, <1>3, MemLimitMeans

\* A level comes back from the text of the mode as it was.
LEMMA ReadBackSame == ASSUME NEW x \in Long PROVE ReadBack(x) = x
<1>1. x \in Int /\ x <= ZEND_LONG_MAX /\ 0 - ZEND_LONG_MAX - 1 <= x
      /\ ZEND_LONG_MAX \in Nat /\ 2 * ZEND_LONG_MAX + 2 <= LongWord /\ LongWord \in Nat
  BY LongRange, WordAssumption, LongWordAssumption DEF ZEND_LONG_MAX
<1>2. /\ x >= 0 => U64(x) = x
      /\ x < 0  => U64(x) = x + LongWord
  BY U64Facts
<1>. DEFINE m == ZEND_LONG_MAX
<1>. HIDE DEF m
<1>3. x < 0 => x + LongWord > m
  <2>1. 0 - m - 1 <= x /\ x \in Int /\ m \in Nat /\ 2 * m + 2 <= LongWord /\ LongWord \in Nat
    BY <1>1 DEF m
  <2>. QED  BY <2>1
<1>. QED  BY <1>1, <1>2, <1>3 DEF m, ReadBack, Signed

LEMMA InitIInv == Init => IInv
<1>. SUFFICES ASSUME Init PROVE IInv
  OBVIOUS
<1>. USE DEF Init
<1>1. UINT64_MAX \in Nat
  BY LongRange, Widths DEF UINT64_MAX
<1>2. level \in Levels
  OBVIOUS
<1>3. TypeOK
  <2>1. self \in 0 .. 1 /\ setting \in 0 .. UINT64_MAX
    BY <1>1
  <2>2. {iniLevel, level} \subseteq Levels /\ {iniLimit, mem} \subseteq Limits
    BY <1>2
  <2>3. {callLevel, contextLevel} \subseteq Optional(Levels)
    OBVIOUS
  <2>4. isWrite \in BOOLEAN /\ buffers \in BOOLEAN
    OBVIOUS
  <2>. QED  BY <2>1, <2>2, <2>3, <2>4, Zenon DEF TypeOK
<1>4. Held
  BY DEF Held, Before, Trying
<1>5. Sources
  BY DEF Sources
<1>6. Codec
  BY DEF Codec
<1>. QED  BY <1>3, <1>4, <1>5, <1>6 DEF IInv

LEMMA NextIInv == IInv /\ [Next]_vars => IInv'
<1>. SUFFICES ASSUME IInv, [Next]_vars PROVE IInv'
  OBVIOUS
<1>. USE DEF IInv, call, local, stream
<1>0. CASE CutMode
  <2>1. mode.number \in Optional(Levels) /\ callLevel \in Optional(Levels)
    BY ModesAssumption DEF TypeOK
  <2>2. level' = Base
    <3>1. Given(Number) => Number[1] \in Long
      BY <2>1, OptionalFacts, ValuesAssumption DEF Number
    <3>2. level' = IF Given(Number) THEN Number[1] ELSE iniLevel
      BY <1>0, <3>1, ReadBackSame DEF CutMode, Sources
    <3>. QED  BY <3>2 DEF Number, Base
  <2>3. Base \in Levels
    BY <2>1, OptionalFacts DEF TypeOK, Base
  <2>4. TypeOK'
    BY <1>0, <2>2, <2>3 DEF CutMode, TypeOK
  <2>5. Held'
    BY <1>0 DEF CutMode, Held, Before, Trying
  <2>6. Sources'
    BY <1>0, <2>2 DEF CutMode, Sources, Base
  <2>7. Codec'
    BY <1>0 DEF CutMode, Codec
  <2>. QED  BY <2>4, <2>5, <2>6, <2>7
<1>1. CASE Refuse
  BY <1>1 DEF Refuse, TypeOK, Held, Sources, Codec, Before, Trying, Base, ForWriting
<1>2. CASE Configure
  <2>1. level' \in Levels /\ mem' \in Limits
    BY <1>2, OptionalFacts DEF Configure, TypeOK, ContextLevel, ContextLimit
  <2>2. TypeOK'
    BY <1>2, <2>1 DEF Configure, TypeOK
  <2>3. Held'
    BY <1>2 DEF Configure, Held, Before, Trying
  <2>4. Sources'
    BY <1>2 DEF Configure, Sources, ContextLevel, ContextLimit, AskedLevel, AskedLimit, Base
  <2>5. Codec'
    BY <1>2 DEF Configure, Codec
  <2>. QED  BY <2>2, <2>3, <2>4, <2>5
<1>3. CASE OpenInner
  <2>1. TypeOK' /\ Codec'
    BY <1>3 DEF OpenInner, TypeOK, Codec, ForWriting
  <2>2. Held'
    BY <1>3 DEF OpenInner, Held, Before, Trying
  <2>3. Sources'
    BY <1>3 DEF OpenInner, Sources, AskedLevel, AskedLimit, Base
  <2>. QED  BY <2>1, <2>2, <2>3
<1>4. CASE Cast
  <2>1. TypeOK' /\ Codec'
    BY <1>4 DEF Cast, GiveUp, TypeOK, Codec, ForWriting
  <2>2. Held'
    BY <1>4 DEF Cast, GiveUp, Held, Before, Trying
  <2>3. Sources'
    BY <1>4 DEF Cast, GiveUp, Sources, AskedLevel, AskedLimit, Base
  <2>. QED  BY <2>1, <2>2, <2>3
<1>5. CASE Alloc
  <2>1. TypeOK' /\ Codec'
    BY <1>5 DEF Alloc, GiveUp, ForWriting, TypeOK, Codec
  <2>2. Held'
    BY <1>5 DEF Alloc, GiveUp, Held, Before, Trying
  <2>3. Sources'
    BY <1>5 DEF Alloc, GiveUp, Sources, AskedLevel, AskedLimit, Base
  <2>. QED  BY <2>1, <2>2, <2>3
<1>6. CASE StartEncoder
  <2>1. U32(level) \in 0 .. UINT64_MAX
    BY Settings DEF TypeOK
  <2>2. TypeOK'
    <3>1. self' \in 0 .. 1 /\ setting' \in 0 .. UINT64_MAX
      BY <1>6, <2>1 DEF StartEncoder, CodecFails, TypeOK
    <3>2. buffers' \in BOOLEAN
      BY <1>6, Zenon DEF StartEncoder, CodecFails, TypeOK
    <3>3. /\ coder' \in {"none", "encoder", "decoder", "ended"}
          /\ pc' \in {"open", "undefined"}
          /\ UNCHANGED <<call, local, inner, isWrite>>
      BY <1>6 DEF StartEncoder, CodecFails, TypeOK
    <3>. QED  BY <3>1, <3>2, <3>3 DEF TypeOK
  <2>3. Held'
    BY <1>6 DEF StartEncoder, CodecFails, Held, Before, Trying
  <2>4. Sources'
    BY <1>6 DEF StartEncoder, CodecFails, Sources, AskedLevel, AskedLimit, Base
  <2>5. ForWriting
    BY <1>6 DEF StartEncoder, ForWriting
  <2>6. Codec'
    BY <1>6, <2>5 DEF StartEncoder, CodecFails, Codec, ForWriting
  <2>. QED  BY <2>2, <2>3, <2>4, <2>6
<1>7. CASE StartDecoder
  <2>1. MemLimit(U64(mem)) \in 0 .. UINT64_MAX
    BY Settings DEF TypeOK
  <2>2. TypeOK'
    <3>1. self' \in 0 .. 1 /\ setting' \in 0 .. UINT64_MAX
      BY <1>7, <2>1 DEF StartDecoder, CodecFails, TypeOK
    <3>2. buffers' \in BOOLEAN
      BY <1>7, Zenon DEF StartDecoder, CodecFails, TypeOK
    <3>3. /\ coder' \in {"none", "encoder", "decoder", "ended"}
          /\ pc' \in {"open", "undefined"}
          /\ UNCHANGED <<call, local, inner, isWrite>>
      BY <1>7 DEF StartDecoder, CodecFails, TypeOK
    <3>. QED  BY <3>1, <3>2, <3>3 DEF TypeOK
  <2>3. Held'
    BY <1>7 DEF StartDecoder, CodecFails, Held, Before, Trying
  <2>4. Sources'
    BY <1>7 DEF StartDecoder, CodecFails, Sources, AskedLevel, AskedLimit, Base
  <2>5. ~ForWriting
    BY <1>7 DEF StartDecoder, ForWriting
  <2>6. Codec'
    BY <1>7, <2>5 DEF StartDecoder, CodecFails, Codec, ForWriting
  <2>. QED  BY <2>2, <2>3, <2>4, <2>6
<1>8. CASE OtherMode
  BY <1>8 DEF OtherMode, CodecFails, TypeOK, Held, Sources, Codec, Before, Trying, Base, ForWriting
<1>9. CASE Close
  <2>1. self = 1 /\ self' = 0
    BY <1>9 DEF Close, Held
  <2>2. TypeOK'
    <3>1. self' \in 0 .. 1
      BY <2>1
    <3>2. buffers' \in BOOLEAN
      BY <1>9, Zenon DEF Close
    <3>3. coder' = "ended" /\ inner' = "closed" /\ pc' = "closed" /\ UNCHANGED <<call, local, isWrite, setting>>
      BY <1>9 DEF Close
    <3>. QED  BY <3>1, <3>2, <3>3 DEF TypeOK
  <2>3. Held'
    BY <1>9, <2>1 DEF Close, Held, Before, Trying
  <2>4. Sources' /\ Codec'
    BY <1>9 DEF Close, Sources, Codec
  <2>. QED  BY <2>2, <2>3, <2>4
<1>10. CASE UNCHANGED vars
  BY <1>10 DEF vars, TypeOK, Held, Sources, Codec, Before, Trying, Base, AskedLevel, AskedLimit, ForWriting
<1>. QED
  BY <1>0, <1>1, <1>2, <1>3, <1>4, <1>5, <1>6, <1>7, <1>8, <1>9, <1>10 DEF Next

LEMMA SpecIInv == Spec => []IInv
  BY InitIInv, NextIInv, PTL DEF Spec

-----------------------------------------------------------------------------
(* Every variable has its type; in particular a codec is never given a setting
   that is not a uint64_t (src/xz_fopen_wrapper.c:298, 305). *)
THEOREM OpenTyped == Spec => []TypeOK
<1>1. IInv => TypeOK
  BY DEF IInv
<1>. QED  BY <1>1, SpecIInv, PTL

(* An open stream is closed as what it was opened for, whatever its mode
   (src/xz_fopen_wrapper.c:191, 292, 297, 304). *)
THEOREM OpenedAsAsked == Spec => []CoderMatchesMode
<1>1. IInv => CoderMatchesMode
  BY DEF IInv, Codec, CoderMatchesMode
<1>. QED  BY <1>1, SpecIInv, PTL

(* An open that fails before the outer stream exists, and a close, release everything;
   where the context is freed before that stream is closed, the inner stream is all
   that is left (src/xz_fopen_wrapper.c:285-325, 209-217). *)
THEOREM OpenLeavesNothing == Spec => []NothingLeft
<1>1. IInv => NothingLeft
  BY DEF IInv, Held, NothingLeft
<1>. QED  BY <1>1, SpecIInv, PTL

(* The level or the limit a coder has is its caller's, through the text of the mode and
   all conversions (src/xz_fopen_wrapper.c:255-259, 266, 298, 305; src/xz_decode.c:66). *)
THEOREM SettingsReachCoder == Spec => []SettingHonoured
<1>1. IInv => SettingHonoured
  <2>. SUFFICES ASSUME IInv, pc = "open"
                PROVE  IF coder = "encoder"
                       THEN Preset(setting) /\ (Preset(AskedLevel) => setting = AskedLevel)
                       ELSE LimitMeans(AskedLimit, setting)
    <3>1. Asked(<<contextLevel, mode.number, callLevel, <<iniLevel>>>>) = AskedLevel
      BY AskedFour DEF AskedLevel, Base
    <3>2. Asked(<<contextLimit, <<iniLimit>>>>) = AskedLimit
      BY AskedTwo DEF AskedLimit
    <3>. QED  BY <3>1, <3>2 DEF SettingHonoured
  <2>1. level = AskedLevel /\ mem = AskedLimit /\ level \in Levels /\ mem \in Limits
    BY DEF IInv, Sources, TypeOK
  <2>2. CASE coder = "encoder"
    BY <2>1, <2>2, Settings DEF IInv, Codec
  <2>3. CASE coder # "encoder"
    BY <2>1, <2>3, Settings DEF IInv, Codec, Held
  <2>. QED  BY <2>2, <2>3
<1>. QED  BY <1>1, SpecIInv, PTL
=============================================================================
