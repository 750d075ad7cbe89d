------------------------- MODULE XzCoderInit_proofs -------------------------
(***************************************************************************)
(* Proofs about XzCoderInit: for every array of options, every INI setting *)
(* and every size of the integers they are converted to.                   *)
(***************************************************************************)
EXTENDS XzCoderInit, Common_proofs

-----------------------------------------------------------------------------
(* Options and coders. *)

\* lc, lp and pb survive the conversion.
LEMMA SmallU32 == \A x \in 0 .. 9 : U32(x) = x
<1>. TAKE x \in 0 .. 9
<1>1. x \in Int /\ 0 <= x /\ x < Word
  BY Widths
<1>. QED  BY <1>1, Widths, ModSmall DEF U32

LEMMA OverrideFacts ==
    ASSUME NEW opt, NEW s, ValidParams(s)
    PROVE  LET o == Override(opt, s)
           IN  /\ o = [dict |-> o.dict, lc |-> o.lc, lp |-> o.lp, pb |-> o.pb]
               /\ o.dict = IF s.dict_size # 0 THEN U32(s.dict_size) ELSE opt.dict
               /\ o.lc = IF s.lc >= 0 THEN s.lc ELSE opt.lc
               /\ o.lp = IF s.lp >= 0 THEN s.lp ELSE opt.lp
               /\ o.pb = IF s.pb >= 0 THEN s.pb ELSE opt.pb
<1>1. ASSUME NEW x \in -1 .. 4, x >= 0 PROVE U32(x) = x
  BY <1>1, SmallU32
<1>2. s.lc \in -1 .. 4 /\ s.lp \in -1 .. 4 /\ s.pb \in -1 .. 4
  BY DEF ValidParams
<1>3. /\ s.lc >= 0 => U32(s.lc) = s.lc
      /\ s.lp >= 0 => U32(s.lp) = s.lp
      /\ s.pb >= 0 => U32(s.pb) = s.pb
  BY <1>1, <1>2
<1>. QED  BY <1>3 DEF Override

\* A raw coder made from options, to encode or to decode.
RawOpt(level, options) == Override(Preset(level), LzmaSettings(options))

RawEncoder(level, options) ==
    [filter |-> LzmaSettings(options).filter, opt |-> RawOpt(level, options), check |-> LZMA_CHECK_NONE]

RawDecoder(options) ==
    [filter |-> LzmaSettings(options).filter, opt |-> RawOpt(RawPreset, options)]

Decodable(coder, level, options) ==
    /\ level \in Levels
    /\ LzmaSettings(options).filter \in Filters
    /\ ValidParams(LzmaSettings(options))
    /\ "memory_limit" \notin DOMAIN options
    /\ coder = RawEncoder(level, options)
    /\ EncoderAccepts(coder.opt)

\* What a raw decoder made with options must be to read what a coder wrote.
Decodes(options, coder) ==
    /\ LzmaSettings(options).filter \in Filters /\ ValidParams(LzmaSettings(options))
    /\ RawDecoderAccepts(RawDecoder(options).filter, RawDecoder(options).opt)
    /\ Reads(RawDecoder(options), coder)

\* lc, lp and pb of a sound coder.
LEMMA DecodableFacts ==
    ASSUME NEW coder, NEW level, NEW options, Decodable(coder, level, options)
    PROVE  /\ coder.filter = LzmaSettings(options).filter
           /\ coder.opt = [dict |-> coder.opt.dict, lc |-> coder.opt.lc, lp |-> coder.opt.lp, pb |-> coder.opt.pb]
           /\ coder.opt.dict \in DictMin .. DictMax /\ coder.opt.dict \in 1 .. Word - 1
           /\ {coder.opt.lc, coder.opt.lp, coder.opt.pb} \subseteq 0 .. 4
           /\ coder.opt.lc + coder.opt.lp <= 4
<1>. DEFINE s == LzmaSettings(options)
<1>1. ValidParams(s) /\ coder.filter = s.filter /\ coder.opt = Override(Preset(level), s) /\ EncoderAccepts(coder.opt)
  BY DEF Decodable, RawEncoder, RawOpt
<1>2. Preset(level).lc = 3 /\ Preset(level).lp = 0 /\ Preset(level).pb = 2
  BY DEF Preset
<1>. HIDE DEF s
<1>3. /\ coder.opt = [dict |-> coder.opt.dict, lc |-> coder.opt.lc, lp |-> coder.opt.lp, pb |-> coder.opt.pb]
      /\ coder.opt.lc = IF s.lc >= 0 THEN s.lc ELSE 3
      /\ coder.opt.lp = IF s.lp >= 0 THEN s.lp ELSE 0
      /\ coder.opt.pb = IF s.pb >= 0 THEN s.pb ELSE 2
  BY <1>1, <1>2, OverrideFacts
<1>4. s.lc \in -1 .. 4 /\ s.lp \in -1 .. 4 /\ s.pb \in -1 .. 4
  BY <1>1 DEF ValidParams
<1>5. coder.opt.lc \in 0 .. 4 /\ coder.opt.lp \in 0 .. 4 /\ coder.opt.pb \in 0 .. 4
  BY <1>3, <1>4
<1>6. coder.opt.dict \in DictMin .. DictMax /\ coder.opt.lc + coder.opt.lp <= 4
  BY <1>1 DEF EncoderAccepts
<1>7. coder.opt.dict \in 1 .. Word - 1
  BY <1>6, DictAssumption, Widths
<1>. QED  BY <1>1, <1>3, <1>5, <1>6, <1>7 DEF s

\* The same options, if the dictionary of preset 6 is large enough.
LEMMA SameDecodes ==
    ASSUME NEW coder, NEW level, NEW options, Decodable(coder, level, options),
           level <= 6 \/ LzmaSettings(options).dict_size # 0
    PROVE  Decodes(options, coder)
<1>. DEFINE s == LzmaSettings(options)
            d == Override(Preset(RawPreset), s)
<1>1. ValidParams(s) /\ s.filter \in Filters /\ coder.filter = s.filter /\ coder.opt = Override(Preset(level), s) /\ level \in Levels
  BY DEF Decodable, RawEncoder, RawOpt
<1>2. /\ coder.opt.dict \in Nat /\ coder.opt.lc + coder.opt.lp <= 4
  <2>1. coder.opt.dict \in 1 .. Word - 1 /\ coder.opt.lc + coder.opt.lp <= 4
    BY DecodableFacts
  <2>. QED  BY <2>1, Widths
<1>3. /\ Preset(level).lc = Preset(RawPreset).lc
      /\ Preset(level).lp = Preset(RawPreset).lp
      /\ Preset(level).pb = Preset(RawPreset).pb
      /\ Preset(level).dict = PresetDict[level]
      /\ Preset(RawPreset).dict = PresetDict[6]
  BY DEF Preset, RawPreset
<1>4. level <= 6 => PresetDict[level] <= PresetDict[6]
  BY <1>1, PresetAssumption DEF Levels
<1>5. level <= 6 \/ s.dict_size # 0
  OBVIOUS
<1>. HIDE DEF s
<1>6. d.lc = coder.opt.lc /\ d.lp = coder.opt.lp /\ d.pb = coder.opt.pb
  BY <1>1, <1>3, OverrideFacts
<1>7. /\ d.dict = IF s.dict_size # 0 THEN U32(s.dict_size) ELSE PresetDict[6]
      /\ coder.opt.dict = IF s.dict_size # 0 THEN U32(s.dict_size) ELSE PresetDict[level]
  BY <1>1, <1>3, OverrideFacts
<1>8. d.dict >= coder.opt.dict
  BY <1>2, <1>4, <1>5, <1>7
<1>. HIDE DEF d
<1>9. RawDecoderAccepts(s.filter, d)
  BY <1>2, <1>6 DEF RawDecoderAccepts
<1>10. Reads([filter |-> s.filter, opt |-> d], coder)
  BY <1>1, <1>6, <1>8 DEF Reads
<1>. QED  BY <1>1, <1>9, <1>10 DEF Decodes, RawDecoder, RawOpt, d, s

\* The options made from the properties.
LEMMA PropertiesDecode ==
    ASSUME NEW coder, NEW level, NEW options, Decodable(coder, level, options)
    PROVE  LET o == AsOptions(coder.filter, Properties(coder.filter, coder.opt))
           IN  Decodes(o, coder) /\ "memory_limit" \notin DOMAIN o
<1>. DEFINE p == Properties(coder.filter, coder.opt)
            o == AsOptions(coder.filter, p)
            s == LzmaSettings(o)
            d == Override(Preset(RawPreset), s)
<1>1. /\ coder.filter \in Filters
      /\ coder.opt.dict \in DictMin .. DictMax /\ coder.opt.dict \in 1 .. Word - 1
      /\ coder.opt.lc \in 0 .. 4 /\ coder.opt.lp \in 0 .. 4 /\ coder.opt.pb \in 0 .. 4
      /\ coder.opt.lc + coder.opt.lp <= 4
  BY DecodableFacts DEF Decodable
<1>2. p.dict \in 1 .. Word - 1 /\ p.dict >= coder.opt.dict
  <2>1. CASE coder.filter = LZMA_FILTER_LZMA1
    BY <1>1, <2>1 DEF Properties
  <2>2. CASE coder.filter # LZMA_FILTER_LZMA1
    <3>1. p.dict = CHOOSE z \in DictSizes : z >= coder.opt.dict /\ \A t \in DictSizes : t >= coder.opt.dict => z <= t
      BY <2>2 DEF Properties
    <3>2. \E z \in DictSizes : z >= coder.opt.dict /\ \A t \in DictSizes : t >= coder.opt.dict => z <= t
      BY <1>1, DictAssumption
    <3>3. p.dict \in DictSizes /\ p.dict >= coder.opt.dict
      BY <3>1, <3>2
    <3>4. p.dict \in DictMin .. DictMax
      BY <3>3, DictAssumption
    <3>. QED  BY <3>3, <3>4, DictAssumption, Widths
  <2>. QED  BY <2>1, <2>2
<1>. HIDE DEF p
<1>3. /\ s.filter = coder.filter /\ s.dict_size = p.dict
      /\ "memory_limit" \notin DOMAIN o
      /\ coder.filter = LZMA_FILTER_LZMA1 => s.lc = p.lc /\ s.lp = p.lp /\ s.pb = p.pb
      /\ coder.filter # LZMA_FILTER_LZMA1 => s.lc = -1 /\ s.lp = -1 /\ s.pb = -1
  BY DEF LzmaSettings, AsOptions, Opt
<1>4. coder.filter = LZMA_FILTER_LZMA1 => p = coder.opt
  BY DEF p, Properties
<1>. HIDE DEF s, o
<1>5. ValidParams(s)
  BY <1>1, <1>2, <1>3, <1>4 DEF ValidParams
<1>6. d.dict = p.dict
  <2>1. p.dict \in Int /\ p.dict # 0 /\ 0 <= p.dict /\ p.dict < Word
    BY <1>2, Widths
  <2>2. U32(p.dict) = p.dict
    BY <2>1, Widths, ModSmall DEF U32
  <2>. QED  BY <1>3, <1>5, <2>1, <2>2, OverrideFacts
<1>7. coder.filter = LZMA_FILTER_LZMA1 =>
          d.lc = coder.opt.lc /\ d.lp = coder.opt.lp /\ d.pb = coder.opt.pb
  BY <1>1, <1>3, <1>4, <1>5, OverrideFacts
<1>. HIDE DEF d
<1>8. RawDecoderAccepts(s.filter, d)
  BY <1>1, <1>3, <1>7 DEF RawDecoderAccepts
<1>9. Reads([filter |-> s.filter, opt |-> d], coder)
  BY <1>2, <1>3, <1>6, <1>7 DEF Reads
<1>. QED  BY <1>1, <1>3, <1>5, <1>8, <1>9 DEF Decodes, RawDecoder, RawOpt, d, s, o, p

-----------------------------------------------------------------------------
(* The invariant. *)

\* A call under way has been validated; the object of an init function is blank,
\* and the script does not have it yet.
Started ==
    pc = "start" =>
        /\ call.fn \in {"xz_encode_init", "xz_decode_init", "xzencode", "xzdecode"}
        /\ call.fn = "xz_encode_init" =>
              /\ ValidEncode(call.format, call.options, call.level)
              /\ "memory_limit" \notin DOMAIN call.options
              /\ enc = <<BlankEncoder>> /\ "enc" \notin held
        /\ call.fn = "xz_decode_init" =>
              /\ ValidDecode(call.format, call.options)
              /\ DecodeLimit(call.options, call.limit) \in Long
              /\ dec = <<BlankDecoder>> /\ "dec" \notin held
        /\ call.fn = "xzencode" => call.level \in Levels
        /\ call.fn = "xzdecode" => call.limit \in Long

\* The coders are those of the objects, and an encoder knows its configuration.
Number(object) == IF Running(object) THEN 1 ELSE 0

Objects ==
    /\ pc \in {"idle", "start", "return"}
    /\ coders = Number(enc) + Number(dec)
    /\ "enc" \in held => enc # None
    /\ "dec" \in held => dec # None
    /\ enc # None => "enc" \in held \/ (pc = "start" /\ call.fn = "xz_encode_init")
    /\ dec # None => "dec" \in held \/ (pc = "start" /\ call.fn = "xz_decode_init")

Pointers ==
    Running(enc) =>
        /\ enc[1].options = "obj"
        /\ enc[1].strm[1] = [filter |-> enc[1].filter, opt |-> enc[1].opt, check |-> enc[1].strm[1].check]
        /\ enc[1].strm = <<enc[1].strm[1]>>

\* The stream that is kept was made by a sound coder, whose properties are known.
Kept ==
    raw # None =>
        /\ raw = <<[coder |-> raw[1].coder, level |-> raw[1].level, options |-> raw[1].options, props |-> raw[1].props]>>
        /\ Decodable(raw[1].coder, raw[1].level, raw[1].options)
        /\ raw[1].props # None => raw[1].props = <<Properties(raw[1].coder.filter, raw[1].coder.opt)>>

Answered == AskedIsUsed /\ PropertiesSuffice /\ SameOptionsSuffice

IInv == Started /\ Objects /\ Pointers /\ Kept /\ Answered

\* Between calls, and while one is under way, nothing has been answered yet.
LEMMA AnsweredLater == (pc # "return" => Answered) /\ (pc' # "return" => Answered')
  BY DEF Answered, AskedIsUsed, PropertiesSuffice, SameOptionsSuffice, Decoding

LEMMA InitIInv == Init => IInv
<1>. SUFFICES ASSUME Init PROVE IInv
  OBVIOUS
<1>1. Started /\ Pointers /\ Kept
  BY DEF Init, Started, Pointers, Kept, Running
<1>2. Objects
  BY DEF Init, Objects, Number, Running
<1>3. Answered
  BY AnsweredLater DEF Init
<1>. QED  BY <1>1, <1>2, <1>3 DEF IInv

\* The options by which the stream kept may be decoded do that.
LEMMA KeptDecodes ==
    ASSUME IInv, NEW options
    PROVE  /\ options \in FromProperties =>
                 raw # None /\ Decodes(options, raw[1].coder) /\ "memory_limit" \notin DOMAIN options
           /\ options \in SameOptions /\ (raw[1].level <= 6 \/ LzmaSettings(raw[1].options).dict_size # 0) =>
                 raw # None /\ Decodes(options, raw[1].coder)
           /\ options \in SameOptions => "memory_limit" \notin DOMAIN options
<1>1. raw # None => Decodable(raw[1].coder, raw[1].level, raw[1].options)
  BY DEF IInv, Kept
<1>2. ASSUME options \in FromProperties
      PROVE  raw # None /\ Decodes(options, raw[1].coder) /\ "memory_limit" \notin DOMAIN options
  <2>1. raw # None /\ raw[1].props # None /\ options = AsOptions(raw[1].coder.filter, raw[1].props[1])
    BY <1>2 DEF FromProperties
  <2>2. raw[1].props = <<Properties(raw[1].coder.filter, raw[1].coder.opt)>>
    BY <2>1 DEF IInv, Kept
  <2>3. options = AsOptions(raw[1].coder.filter, Properties(raw[1].coder.filter, raw[1].coder.opt))
    BY <2>1, <2>2
  <2>. QED  BY <1>1, <2>1, <2>3, PropertiesDecode
<1>3. ASSUME options \in SameOptions
      PROVE  raw # None /\ options = raw[1].options
  BY <1>3 DEF SameOptions
<1>4. options \in SameOptions => "memory_limit" \notin DOMAIN options
  BY <1>1, <1>3 DEF Decodable
<1>. QED  BY <1>1, <1>2, <1>3, <1>4, SameDecodes

-----------------------------------------------------------------------------
(* The calls. *)

LEMMA EncodeInitIInv ==
    ASSUME IInv, NEW format, NEW options \in EncodeOptions, NEW ini, EncodeInit(format, options, ini)
    PROVE  IInv'
<1>. DEFINE c == [fn |-> "xz_encode_init", format |-> format, options |-> options, level |-> ini]
            valid == ValidEncode(format, options, ini)
<1>1. /\ pc = "idle" /\ enc = None /\ call' = c
      /\ enc' = (IF valid THEN <<BlankEncoder>> ELSE None)
      /\ UNCHANGED <<frame, held, coders, raw, dec>>
  BY DEF EncodeInit, Invoke
<1>2. IF valid THEN pc' = "start" ELSE pc' = "return" /\ ret' = "ValueError"
  BY DEF EncodeInit, Invoke
<1>3. "enc" \notin held
  BY <1>1 DEF IInv, Objects
<1>4. "memory_limit" \notin DOMAIN options
  BY OptionsAssumption DEF EncodeKeys
<1>5. /\ call'.fn = "xz_encode_init" /\ call'.format = format /\ call'.options = options /\ call'.level = ini
  BY <1>1
<1>6. ~Running(enc) /\ ~Running(enc')
  BY <1>1 DEF Running, BlankEncoder
<1>. HIDE DEF valid, c
<1>7. Started'
  <2>1. pc' = "start" => valid /\ enc' = <<BlankEncoder>>
    BY <1>1, <1>2
  <2>. QED  BY <1>1, <1>3, <1>4, <1>5, <2>1 DEF Started, valid
<1>8. Objects'
  <2>1. coders' = Number(enc)' + Number(dec)'
    BY <1>1, <1>6 DEF IInv, Objects, Number, Running
  <2>2. enc' # None => pc' = "start"
    BY <1>1, <1>2
  <2>. QED  BY <1>1, <1>2, <1>3, <1>5, <2>1, <2>2 DEF IInv, Objects
<1>9. Pointers' /\ Kept'
  BY <1>1, <1>6 DEF IInv, Pointers, Kept, Running
<1>10. Answered'
  <2>1. ret' # "ok" \/ pc' # "return"
    BY <1>2
  <2>. QED  BY <1>5, <2>1 DEF Answered, AskedIsUsed, PropertiesSuffice, SameOptionsSuffice, Decoding
<1>. QED  BY <1>7, <1>8, <1>9, <1>10 DEF IInv

LEMMA DecodeInitIInv ==
    ASSUME IInv, NEW format, NEW options \in DecodeOptions \cup FromProperties \cup SameOptions,
           NEW ini \in LimitArgs, DecodeInit(format, options, ini)
    PROVE  IInv'
<1>. DEFINE c == [fn |-> "xz_decode_init", format |-> format, options |-> options, limit |-> ini]
            valid == ValidDecode(format, options)
<1>1. /\ pc = "idle" /\ dec = None /\ call' = c
      /\ dec' = (IF valid THEN <<BlankDecoder>> ELSE None)
      /\ UNCHANGED <<frame, held, coders, raw, enc>>
  BY DEF DecodeInit, Invoke
<1>2. IF valid THEN pc' = "start" ELSE pc' = "return" /\ ret' = "ValueError"
  BY DEF DecodeInit, Invoke
<1>3. "dec" \notin held
  BY <1>1 DEF IInv, Objects
<1>4. DecodeLimit(options, ini) \in Long
  <2>1. "memory_limit" \in DOMAIN options => options["memory_limit"] \in Long
    BY KeptDecodes, OptionsAssumption
  <2>2. ini \in Long
    BY ArgsAssumption
  <2>. QED  BY <2>1, <2>2 DEF DecodeLimit, Opt
<1>5. /\ call'.fn = "xz_decode_init" /\ call'.format = format /\ call'.options = options /\ call'.limit = ini
  BY <1>1
<1>6. ~Running(dec) /\ ~Running(dec')
  BY <1>1 DEF Running, BlankDecoder
<1>. HIDE DEF valid, c
<1>7. Started'
  <2>1. pc' = "start" => valid /\ dec' = <<BlankDecoder>>
    BY <1>1, <1>2
  <2>. QED  BY <1>1, <1>3, <1>4, <1>5, <2>1 DEF Started, valid
<1>8. Objects'
  <2>1. coders' = Number(enc)' + Number(dec)'
    BY <1>1, <1>6 DEF IInv, Objects, Number, Running
  <2>2. dec' # None => pc' = "start"
    BY <1>1, <1>2
  <2>. QED  BY <1>1, <1>2, <1>3, <1>5, <2>1, <2>2 DEF IInv, Objects
<1>9. Pointers' /\ Kept'
  BY <1>1 DEF IInv, Pointers, Kept, Running
<1>10. Answered'
  <2>1. ASSUME pc' = "return" PROVE ~valid /\ ret' = "ValueError"
    BY <1>2, <2>1
  <2>2. ASSUME format = XZ_FORMAT_RAW, LzmaSettings(options).filter \in Filters, ValidParams(LzmaSettings(options))
        PROVE  valid
    BY <2>2 DEF valid, ValidDecode, Formats
  <2>3. PropertiesSuffice'
    <3>. SUFFICES ASSUME Decoding(FromProperties)' PROVE FALSE
      BY DEF PropertiesSuffice
    <3>1. pc' = "return" /\ format = XZ_FORMAT_RAW /\ options \in FromProperties'
      BY <1>5 DEF Decoding
    <3>2. options \in FromProperties
      BY <1>1, <3>1 DEF FromProperties
    <3>. QED  BY <2>1, <2>2, <3>1, <3>2, KeptDecodes DEF Decodes
  <2>4. SameOptionsSuffice'
    <3>. SUFFICES ASSUME Decoding(SameOptions)', (raw[1].level <= 6 \/ LzmaSettings(raw[1].options).dict_size # 0)'
                  PROVE  FALSE
      BY DEF SameOptionsSuffice
    <3>1. pc' = "return" /\ format = XZ_FORMAT_RAW /\ options \in SameOptions'
      BY <1>5 DEF Decoding
    <3>2. options \in SameOptions /\ (raw[1].level <= 6 \/ LzmaSettings(raw[1].options).dict_size # 0)
      BY <1>1, <3>1 DEF SameOptions
    <3>. QED  BY <2>1, <2>2, <3>1, <3>2, KeptDecodes DEF Decodes
  <2>5. AskedIsUsed'
    BY <1>2 DEF AskedIsUsed
  <2>. QED  BY <2>3, <2>4, <2>5 DEF Answered
<1>. QED  BY <1>7, <1>8, <1>9, <1>10 DEF IInv

LEMMA XzencodeIInv ==
    ASSUME IInv, NEW level, NEW ini, NEW format, Xzencode(level, ini, format)
    PROVE  IInv'
<1>. DEFINE c == [fn |-> "xzencode", format |-> format, level |-> OrIni(level, ini)]
            valid == OrIni(level, ini) \in Levels /\ format \in Formats
<1>1. pc = "idle" /\ call' = c /\ UNCHANGED <<frame, held, coders, raw, enc, dec>>
  BY DEF Xzencode, Invoke
<1>2. IF valid THEN pc' = "start" ELSE pc' = "return" /\ ret' = "ValueError"
  BY DEF Xzencode, Invoke
<1>3. call'.fn = "xzencode" /\ call'.level = OrIni(level, ini)
  BY <1>1
<1>4. Started'
  BY <1>2, <1>3 DEF Started
<1>5. Objects' /\ Pointers' /\ Kept'
  BY <1>1, <1>2 DEF IInv, Objects, Number, Running, Pointers, Kept
<1>6. Answered'
  BY <1>2, <1>3 DEF Answered, AskedIsUsed, PropertiesSuffice, SameOptionsSuffice, Decoding
<1>. QED  BY <1>4, <1>5, <1>6 DEF IInv

LEMMA XzdecodeIInv ==
    ASSUME IInv, NEW limit \in LimitArgs, NEW ini \in LimitArgs, Xzdecode(limit, ini)
    PROVE  IInv'
<1>. DEFINE c == [fn |-> "xzdecode", limit |-> OrIni(limit, ini)]
<1>1. pc = "idle" /\ call' = c /\ UNCHANGED <<frame, held, coders, raw, enc, dec>>
  BY DEF Xzdecode, Invoke
<1>2. pc' = "start" \/ (pc' = "return" /\ ret' = "ValueError")
  BY DEF Xzdecode, Invoke
<1>3. call'.fn = "xzdecode" /\ call'.limit \in Long
  BY <1>1, ArgsAssumption DEF OrIni
<1>4. Started'
  BY <1>3 DEF Started
<1>5. Objects' /\ Pointers' /\ Kept'
  BY <1>1, <1>2 DEF IInv, Objects, Number, Running, Pointers, Kept
<1>6. Answered'
  BY <1>2, <1>3 DEF Answered, AskedIsUsed, PropertiesSuffice, SameOptionsSuffice, Decoding
<1>. QED  BY <1>4, <1>5, <1>6 DEF IInv

LEMMA NewIInv ==
    ASSUME IInv, MakeEncoder \/ MakeDecoder
    PROVE  IInv'
<1>1. pc = "idle" /\ UNCHANGED <<call, pc, ret, frame, coders, raw>>
  BY DEF MakeEncoder, MakeDecoder
<1>2. Started' /\ Kept'
  BY <1>1 DEF IInv, Started, Kept
<1>3. CASE MakeEncoder
  <2>1. enc = None /\ enc' = <<BlankEncoder>> /\ held' = held \cup {"enc"} /\ dec' = dec
    BY <1>3 DEF MakeEncoder
  <2>2. ~Running(enc) /\ ~Running(enc')
    BY <2>1 DEF Running, BlankEncoder
  <2>3. Objects'
    <3>1. Number(enc') = Number(enc) /\ Number(dec') = Number(dec)
      BY <2>1, <2>2 DEF Number, Running
    <3>2. coders' = Number(enc)' + Number(dec)'
      BY <1>1, <3>1 DEF IInv, Objects
    <3>3. enc' # None /\ "enc" \in held' /\ ("dec" \in held' <=> "dec" \in held)
      BY <2>1 DEF None
    <3>4. pc = "idle" /\ pc' = "idle" /\ ("dec" \in held => dec # None) /\ (dec # None => "dec" \in held)
      BY <1>1 DEF IInv, Objects
    <3>. QED  BY <2>1, <3>2, <3>3, <3>4 DEF Objects
  <2>4. Pointers'
    BY <2>2 DEF Pointers, Running
  <2>. QED  BY <1>1, <1>2, <2>3, <2>4, AnsweredLater DEF IInv
<1>4. CASE MakeDecoder
  <2>1. dec = None /\ dec' = <<BlankDecoder>> /\ held' = held \cup {"dec"} /\ enc' = enc
    BY <1>4 DEF MakeDecoder
  <2>2. ~Running(dec) /\ ~Running(dec')
    BY <2>1 DEF Running, BlankDecoder
  <2>3. Objects'
    <3>1. Number(dec') = Number(dec) /\ Number(enc') = Number(enc)
      BY <2>1, <2>2 DEF Number, Running
    <3>2. coders' = Number(enc)' + Number(dec)'
      BY <1>1, <3>1 DEF IInv, Objects
    <3>3. dec' # None /\ "dec" \in held' /\ ("enc" \in held' <=> "enc" \in held)
      BY <2>1 DEF None
    <3>4. pc = "idle" /\ pc' = "idle" /\ ("enc" \in held => enc # None) /\ (enc # None => "enc" \in held)
      BY <1>1 DEF IInv, Objects
    <3>. QED  BY <2>1, <3>2, <3>3, <3>4 DEF Objects
  <2>4. Pointers'
    BY <2>1 DEF IInv, Pointers, Running
  <2>. QED  BY <1>1, <1>2, <2>3, <2>4, AnsweredLater DEF IInv
<1>. QED  BY <1>3, <1>4

-----------------------------------------------------------------------------
(* The coders start. *)

\* An encoder's configuration, whatever the format.
LEMMA EncoderConfigured ==
    ASSUME NEW c, ValidEncode(c.format, c.options, c.level)
    PROVE  /\ EncodeLevel(c.options, c.level) \in Levels
           /\ LzmaSettings(c.options).filter \in Filters /\ ValidParams(LzmaSettings(c.options))
           /\ EncodeOpt(c) = RawOpt(EncodeLevel(c.options, c.level), c.options)
           /\ EncodeCoder(c).opt = EncodeOpt(c)
           /\ EncodeCoder(c).filter = FilterOf(c.format, LzmaSettings(c.options).filter)
           /\ EncodeCoder(c).check = CheckOf(c.format, EncodeCheck(c.options))
<1>. DEFINE l == EncodeLevel(c.options, c.level)
<1>1. l \in Levels /\ LzmaSettings(c.options).filter \in Filters /\ ValidParams(LzmaSettings(c.options))
  BY DEF ValidEncode
<1>2. U32(l) = l
  BY <1>1, SmallU32 DEF Levels
<1>. QED  BY <1>1, <1>2 DEF EncodeCoder, EncodeOpt, RawOpt

LEMMA EncoderDecodable ==
    ASSUME NEW c, ValidEncode(c.format, c.options, c.level), c.format = XZ_FORMAT_RAW,
           "memory_limit" \notin DOMAIN c.options, EncoderAccepts(EncodeOpt(c))
    PROVE  Decodable(EncodeCoder(c), EncodeLevel(c.options, c.level), c.options)
<1>1. /\ EncodeCoder(c).filter = LzmaSettings(c.options).filter
      /\ EncodeCoder(c).check = LZMA_CHECK_NONE
  BY EncoderConfigured DEF FilterOf, CheckOf, XZ_FORMAT_RAW, XZ_FORMAT_XZ
<1>2. EncodeCoder(c) = RawEncoder(EncodeLevel(c.options, c.level), c.options)
  BY <1>1, EncoderConfigured DEF EncodeCoder, RawEncoder
<1>. QED  BY <1>2, EncoderConfigured DEF Decodable

\* The presets themselves, which xzencode() uses, with no options.
LEMMA PresetDecodable ==
    ASSUME NEW l \in Levels
    PROVE  Decodable([filter |-> LZMA_FILTER_LZMA2, opt |-> Preset(U32(l)), check |-> LZMA_CHECK_NONE], l, <<>>)
<1>. DEFINE s == LzmaSettings(<<>>)
<1>1. DOMAIN <<>> = {}
  OBVIOUS
<1>2. s = [filter |-> LZMA_FILTER_LZMA2, dict_size |-> 0, lc |-> -1, lp |-> -1, pb |-> -1]
  BY <1>1 DEF LzmaSettings, Opt
<1>. HIDE DEF s
<1>3. ValidParams(s) /\ s.filter \in Filters
  BY <1>2 DEF ValidParams, Filters
<1>4. Override(Preset(l), s) = Preset(l)
  BY <1>2 DEF Override, Preset
<1>5. U32(l) = l
  BY SmallU32 DEF Levels
<1>6. EncoderAccepts(Preset(l))
  BY PresetAssumption DEF EncoderAccepts, Preset
<1>. QED  BY <1>1, <1>2, <1>3, <1>4, <1>5, <1>6 DEF Decodable, RawEncoder, RawOpt, s

\* Overriding a preset yields what the options ask for.
LEMMA OverrideAsAsked ==
    ASSUME NEW level, ValidParams(LzmaSettings(call.options))
    PROVE  AskedOf(RawOpt(level, call.options), level)
<1>. DEFINE s == LzmaSettings(call.options)
            o == RawOpt(level, call.options)
            preset == Preset(level)
<1>1. /\ s.dict_size = Opt(call.options, "dict_size", 0)
      /\ s.lc = Opt(call.options, "lc", -1)
      /\ s.lp = Opt(call.options, "lp", -1)
      /\ s.pb = Opt(call.options, "pb", -1)
  BY DEF LzmaSettings
<1>2. o = Override(preset, s) /\ ValidParams(s)
  BY DEF RawOpt
<1>3. s.lc \in -1 .. 4 /\ s.lp \in -1 .. 4 /\ s.pb \in -1 .. 4
  BY <1>2 DEF ValidParams
<1>. HIDE DEF s, o, preset
<1>4. /\ o.dict = IF s.dict_size # 0 THEN U32(s.dict_size) ELSE preset.dict
      /\ o.lc = IF s.lc >= 0 THEN s.lc ELSE preset.lc
      /\ o.lp = IF s.lp >= 0 THEN s.lp ELSE preset.lp
      /\ o.pb = IF s.pb >= 0 THEN s.pb ELSE preset.pb
  BY <1>2, OverrideFacts
<1>5. /\ o.lc = IF s.lc = -1 THEN preset.lc ELSE s.lc
      /\ o.lp = IF s.lp = -1 THEN preset.lp ELSE s.lp
      /\ o.pb = IF s.pb = -1 THEN preset.pb ELSE s.pb
  BY <1>3, <1>4
<1>6. ASSUME s.dict_size # 0, Fits(s.dict_size) PROVE o.dict = s.dict_size
  BY <1>4, <1>6, Widths, ModSmall DEF Fits, U32
<1>7. s.dict_size = 0 => o.dict = preset.dict
  BY <1>4
<1>. QED  BY <1>1, <1>5, <1>6, <1>7 DEF AskedOf, Opt, preset, o

LEMMA StartEncoderIInv ==
    ASSUME IInv, StartEncoder
    PROVE  IInv'
<1>1. /\ pc = "start" /\ call.fn = "xz_encode_init" /\ Accepted(call) /\ pc' = "return" /\ ret' = "ok"
      /\ coders' = coders + 1
      /\ enc' = <<PointTo([strm |-> <<EncodeCoder(call)>>, format |-> U32(call.format),
                           check |-> U32(EncodeCheck(call.options)), filter |-> EncodeCoder(call).filter,
                           opt |-> EncodeOpt(call), options |-> "NULL"])>>
      /\ held' = held \cup {"enc"}
      /\ raw' = IF call.format = XZ_FORMAT_RAW
                THEN <<[coder |-> EncodeCoder(call), level |-> EncodeLevel(call.options, call.level),
                        options |-> call.options, props |-> None]>>
                ELSE None
      /\ UNCHANGED <<call, dec>>
  BY DEF StartEncoder, Starts, Keep
<1>2. /\ ValidEncode(call.format, call.options, call.level)
      /\ "memory_limit" \notin DOMAIN call.options
      /\ enc = <<BlankEncoder>>
  BY <1>1 DEF IInv, Started
<1>3. EncoderAccepts(EncodeOpt(call))
  BY <1>1 DEF Accepted
<1>4. /\ enc' # None
      /\ enc'[1].strm = <<EncodeCoder(call)>> /\ enc'[1].strm # None
      /\ enc'[1].options = "obj" /\ enc'[1].opt = EncodeOpt(call)
      /\ enc'[1].filter = EncodeCoder(call).filter
      /\ enc'[1].strm[1] = EncodeCoder(call)
  BY <1>1 DEF PointTo, None
<1>5. EncodeCoder(call) =
          [filter |-> EncodeCoder(call).filter, opt |-> EncodeOpt(call), check |-> EncodeCoder(call).check]
  BY DEF EncodeCoder
<1>6. Started'
  BY <1>1 DEF Started
<1>7. Objects'
  <2>1. Number(enc) = 0 /\ Number(enc') = 1 /\ Number(dec') = Number(dec)
    BY <1>1, <1>2, <1>4 DEF Number, Running, BlankEncoder
  <2>2. coders' = Number(enc)' + Number(dec)'
    BY <1>1, <2>1 DEF IInv, Objects, Number
  <2>3. "enc" \in held' /\ ("dec" \in held' <=> "dec" \in held)
    BY <1>1
  <2>. QED  BY <1>1, <1>4, <2>2, <2>3 DEF IInv, Objects
<1>8. Pointers'
  BY <1>4, <1>5 DEF Pointers
<1>9. Kept'
  <2>. SUFFICES ASSUME call.format = XZ_FORMAT_RAW PROVE Kept'
    BY <1>1 DEF Kept
  <2>1. /\ raw'[1].coder = EncodeCoder(call) /\ raw'[1].level = EncodeLevel(call.options, call.level)
        /\ raw'[1].options = call.options /\ raw'[1].props = None
        /\ raw' = <<[coder |-> raw'[1].coder, level |-> raw'[1].level, options |-> raw'[1].options, props |-> raw'[1].props]>>
    BY <1>1
  <2>2. Decodable(EncodeCoder(call), EncodeLevel(call.options, call.level), call.options)
    BY <1>2, <1>3, EncoderDecodable
  <2>. QED  BY <2>1, <2>2 DEF Kept
<1>10. Answered'
  <2>1. PropertiesSuffice' /\ SameOptionsSuffice'
    BY <1>1 DEF PropertiesSuffice, SameOptionsSuffice, Decoding
  <2>2. AskedOf(EncodeCoder(call).opt, EncodeLevel(call.options, call.level))
    BY <1>2, EncoderConfigured, OverrideAsAsked
  <2>3. call.format = XZ_FORMAT_RAW => EncodeCoder(call).filter = AskedFilter
    <3>1. LzmaSettings(call.options).filter = AskedFilter
      BY DEF LzmaSettings, AskedFilter
    <3>2. EncodeCoder(call).filter = FilterOf(call.format, AskedFilter)
      BY <1>2, <3>1, EncoderConfigured
    <3>. QED  BY <3>2 DEF FilterOf, XZ_FORMAT_RAW, XZ_FORMAT_XZ
  <2>4. call.format # XZ_FORMAT_RAW =>
            /\ EncodeCoder(call).filter = LZMA_FILTER_LZMA2
            /\ Fits(EncodeCheck(call.options)) => EncodeCoder(call).check = EncodeCheck(call.options)
    <3>1. call.format # XZ_FORMAT_RAW => call.format = XZ_FORMAT_XZ
      BY <1>2 DEF ValidEncode, Formats
    <3>2. Fits(EncodeCheck(call.options)) => U32(EncodeCheck(call.options)) = EncodeCheck(call.options)
      BY Widths, ModSmall DEF Fits, U32
    <3>. QED  BY <1>2, <3>1, <3>2, EncoderConfigured DEF FilterOf, CheckOf
  <2>5. EncoderAsAsked(EncodeCoder(call))
    BY <2>2, <2>3, <2>4 DEF EncoderAsAsked
  <2>6. EncoderAsAsked(enc[1].strm[1])'
    BY <1>1, <1>4, <2>5 DEF EncoderAsAsked, AskedOf, AskedFilter
  <2>. QED  BY <1>1, <2>1, <2>6 DEF Answered, AskedIsUsed
<1>. QED  BY <1>6, <1>7, <1>8, <1>9, <1>10 DEF IInv

LEMMA StartDecoderIInv ==
    ASSUME IInv, StartDecoder
    PROVE  IInv'
<1>1. /\ pc = "start" /\ call.fn = "xz_decode_init" /\ Accepted(call) /\ pc' = "return" /\ ret' = "ok"
      /\ coders' = coders + 1
      /\ dec' = <<[strm |-> <<DecodeCoder(call)>>, format |-> U32(call.format)]>>
      /\ held' = held \cup {"dec"}
      /\ UNCHANGED <<call, enc, raw>>
  BY DEF StartDecoder, Starts
<1>2. /\ ValidDecode(call.format, call.options)
      /\ DecodeLimit(call.options, call.limit) \in Long
      /\ dec = <<BlankDecoder>>
  BY <1>1 DEF IInv, Started
<1>3. /\ dec' # None
      /\ dec'[1].strm = <<DecodeCoder(call)>> /\ dec'[1].strm # None
      /\ dec'[1].strm[1] = DecodeCoder(call)
  BY <1>1 DEF None
<1>4. call.format = XZ_FORMAT_RAW => DecodeCoder(call) = RawDecoder(call.options)
  BY DEF DecodeCoder, RawDecodeCoder, RawDecoder, RawOpt
<1>5. Started'
  BY <1>1 DEF Started
<1>6. Objects'
  <2>1. Number(dec) = 0 /\ Number(dec') = 1 /\ Number(enc') = Number(enc)
    BY <1>1, <1>2, <1>3 DEF Number, Running, BlankDecoder
  <2>2. coders' = Number(enc)' + Number(dec)'
    BY <1>1, <2>1 DEF IInv, Objects, Number
  <2>3. "dec" \in held' /\ ("enc" \in held' <=> "enc" \in held)
    BY <1>1
  <2>. QED  BY <1>1, <1>3, <2>2, <2>3 DEF IInv, Objects
<1>7. Pointers' /\ Kept'
  BY <1>1 DEF IInv, Pointers, Kept, Running
<1>8. AskedIsUsed'
  <2>1. ASSUME call.format = XZ_FORMAT_RAW
        PROVE  AskedOf(DecodeCoder(call).opt, RawPreset) /\ DecodeCoder(call).filter = AskedFilter
    <3>1. ValidParams(LzmaSettings(call.options))
      BY <1>2 DEF ValidDecode
    <3>2. AskedOf(RawOpt(RawPreset, call.options), RawPreset)
      BY <3>1, OverrideAsAsked
    <3>. QED  BY <1>4, <2>1, <3>2 DEF RawDecoder, AskedFilter, LzmaSettings
  <2>2. ASSUME call.format # XZ_FORMAT_RAW
        PROVE  /\ LimitMeans(DecodeLimit(call.options, call.limit), DecodeCoder(call).limit)
               /\ Fits(DecodeFlags(call.options)) => DecodeCoder(call).flags = DecodeFlags(call.options)
    <3>1. /\ DecodeCoder(call).limit = MemLimit(DecodeLimit(call.options, call.limit))
          /\ DecodeCoder(call).flags = U32(DecodeFlags(call.options))
      BY <2>2 DEF DecodeCoder, AutoDecodeCoder
    <3>2. Fits(DecodeFlags(call.options)) => U32(DecodeFlags(call.options)) = DecodeFlags(call.options)
      BY Widths, ModSmall DEF Fits, U32
    <3>. QED  BY <1>2, <3>1, <3>2, MemLimitMeans
  <2>3. DecoderAsAsked(DecodeCoder(call))
    BY <2>1, <2>2 DEF DecoderAsAsked
  <2>4. DecoderAsAsked(dec[1].strm[1])'
    BY <1>1, <1>3, <2>3 DEF DecoderAsAsked, AskedOf, AskedFilter
  <2>. QED  BY <1>1, <2>4 DEF AskedIsUsed
<1>9. PropertiesSuffice'
  <2>. SUFFICES ASSUME Decoding(FromProperties)' PROVE Suffices'
    BY DEF PropertiesSuffice
  <2>1. call.format = XZ_FORMAT_RAW /\ call.options \in FromProperties
    BY <1>1 DEF Decoding, FromProperties
  <2>2. Reads(RawDecoder(call.options), raw[1].coder)
    BY <2>1, KeptDecodes DEF Decodes
  <2>. QED  BY <1>1, <1>3, <1>4, <2>1, <2>2 DEF Suffices
<1>10. SameOptionsSuffice'
  <2>. SUFFICES ASSUME Decoding(SameOptions)', (raw[1].level <= 6 \/ LzmaSettings(raw[1].options).dict_size # 0)'
                PROVE  Suffices'
    BY DEF SameOptionsSuffice
  <2>1. /\ call.format = XZ_FORMAT_RAW /\ call.options \in SameOptions
        /\ raw[1].level <= 6 \/ LzmaSettings(raw[1].options).dict_size # 0
    BY <1>1 DEF Decoding, SameOptions
  <2>2. Reads(RawDecoder(call.options), raw[1].coder)
    BY <2>1, KeptDecodes DEF Decodes
  <2>. QED  BY <1>1, <1>3, <1>4, <2>1, <2>2 DEF Suffices
<1>. QED  BY <1>5, <1>6, <1>7, <1>8, <1>9, <1>10 DEF IInv, Answered

LEMMA EncodeStringIInv ==
    ASSUME IInv, EncodeString
    PROVE  IInv'
<1>1. /\ pc = "start" /\ call.fn = "xzencode" /\ pc' = "return" /\ ret' = "ok"
      /\ frame' = <<StringEncodeCoder(call)>>
      /\ raw' = IF call.format = XZ_FORMAT_RAW
                THEN <<[coder |-> StringEncodeCoder(call), level |-> call.level,
                        options |-> <<>>, props |-> None]>>
                ELSE None
      /\ UNCHANGED <<call, enc, dec, held, coders>>
  BY DEF EncodeString, Starts, Keep
<1>2. call.level \in Levels
  BY <1>1 DEF IInv, Started
<1>3. Started' /\ Objects' /\ Pointers'
  BY <1>1 DEF IInv, Started, Objects, Number, Pointers, Running
<1>4. Kept'
  <2>. SUFFICES ASSUME call.format = XZ_FORMAT_RAW PROVE Kept'
    BY <1>1 DEF Kept
  <2>1. /\ raw'[1].coder = StringEncodeCoder(call) /\ raw'[1].level = call.level
        /\ raw'[1].options = <<>> /\ raw'[1].props = None
        /\ raw' = <<[coder |-> raw'[1].coder, level |-> raw'[1].level, options |-> raw'[1].options, props |-> raw'[1].props]>>
    BY <1>1
  <2>2. Decodable(StringEncodeCoder(call), call.level, <<>>)
    <3>1. StringEncodeCoder(call) =
              [filter |-> LZMA_FILTER_LZMA2, opt |-> Preset(U32(call.level)), check |-> LZMA_CHECK_NONE]
      BY DEF StringEncodeCoder, CheckOf, XZ_FORMAT_RAW, XZ_FORMAT_XZ
    <3>. QED  BY <1>2, <3>1, PresetDecodable
  <2>. QED  BY <2>1, <2>2 DEF Kept
<1>5. Answered'
  <2>1. U32(call.level) = call.level /\ U32(LZMA_CHECK_CRC64) = LZMA_CHECK_CRC64
    BY <1>2, SmallU32 DEF Levels, LZMA_CHECK_CRC64
  <2>2. StringAsAsked(StringEncodeCoder(call))
    BY <2>1 DEF StringAsAsked, StringEncodeCoder, CheckOf
  <2>3. StringAsAsked(frame[1])'
    BY <1>1, <2>2 DEF StringAsAsked
  <2>. QED  BY <1>1, <2>3 DEF Answered, AskedIsUsed, PropertiesSuffice, SameOptionsSuffice, Decoding
<1>. QED  BY <1>3, <1>4, <1>5 DEF IInv

LEMMA DecodeStringIInv ==
    ASSUME IInv, DecodeString
    PROVE  IInv'
<1>1. /\ pc = "start" /\ call.fn = "xzdecode" /\ pc' = "return" /\ ret' = "ok"
      /\ frame' = <<StringDecodeCoder(call)>>
      /\ UNCHANGED <<call, enc, dec, held, coders, raw>>
  BY DEF DecodeString, Starts
<1>2. Started' /\ Objects' /\ Pointers' /\ Kept'
  BY <1>1 DEF IInv, Started, Objects, Number, Pointers, Running, Kept
<1>3. LimitMeans(call.limit, frame'[1].limit)
  <2>1. call.limit \in Long
    BY <1>1 DEF IInv, Started
  <2>2. frame'[1].limit = MemLimit(U64(call.limit))
    BY <1>1 DEF StringDecodeCoder
  <2>. QED  BY <2>1, <2>2, MemLimitMeans
<1>4. Answered'
  BY <1>1, <1>3 DEF Answered, AskedIsUsed, PropertiesSuffice, SameOptionsSuffice, Decoding
<1>. QED  BY <1>2, <1>4 DEF IInv

-----------------------------------------------------------------------------
(* The calls fail and return, and the script goes on. *)

\* What becomes of the objects when one is freed.
LEMMA FreeFacts ==
    ASSUME coders = Number(enc) + Number(dec)
    PROVE  /\ FreeEncoder /\ enc # None => enc' = None /\ dec' = dec /\ coders' = Number(enc)' + Number(dec)'
           /\ FreeDecoder /\ dec # None => dec' = None /\ enc' = enc /\ coders' = Number(enc)' + Number(dec)'
<1>1. ASSUME FreeEncoder, enc # None
      PROVE  enc' = None /\ dec' = dec /\ coders' = Number(enc)' + Number(dec)'
  <2>1. enc' = None /\ dec' = dec /\ coders' = (IF enc[1].strm # None THEN coders - 1 ELSE coders)
    BY <1>1 DEF FreeEncoder, FreeCoder
  <2>2. Number(enc) = (IF enc[1].strm # None THEN 1 ELSE 0) /\ Number(enc') = 0 /\ Number(dec') = Number(dec)
    BY <1>1, <2>1 DEF Number, Running
  <2>3. Number(dec) \in {0, 1}
    BY DEF Number
  <2>. QED  BY <2>1, <2>2, <2>3 DEF Number
<1>2. ASSUME FreeDecoder, dec # None
      PROVE  dec' = None /\ enc' = enc /\ coders' = Number(enc)' + Number(dec)'
  <2>1. dec' = None /\ enc' = enc /\ coders' = (IF dec[1].strm # None THEN coders - 1 ELSE coders)
    BY <1>2 DEF FreeDecoder, FreeCoder
  <2>2. Number(dec) = (IF dec[1].strm # None THEN 1 ELSE 0) /\ Number(dec') = 0 /\ Number(enc') = Number(enc)
    BY <1>2, <2>1 DEF Number, Running
  <2>3. Number(enc) \in {0, 1}
    BY DEF Number
  <2>. QED  BY <2>1, <2>2, <2>3 DEF Number
<1>. QED  BY <1>1, <1>2

LEMMA FailIInv ==
    ASSUME IInv, Fail
    PROVE  IInv'
<1>1. /\ pc = "start" /\ pc' = "return" /\ Discard
      /\ ret' = IF Accepted(call) THEN "no memory" ELSE "refused"
      /\ UNCHANGED <<call, frame, held, raw>>
  BY DEF Fail
<1>2. Started' /\ Kept'
  BY <1>1 DEF IInv, Started, Kept
<1>3. coders = Number(enc) + Number(dec)
  BY DEF IInv, Objects
<1>4. Objects' /\ Pointers'
  <2>1. CASE call.fn = "xz_encode_init" /\ FreeEncoder
    <3>0. enc = <<BlankEncoder>> /\ "enc" \notin held
      BY <1>1, <2>1 DEF IInv, Started
    <3>1. enc # None
      BY <3>0 DEF None
    <3>2. enc' = None /\ dec' = dec /\ coders' = Number(enc)' + Number(dec)'
      BY <1>3, <2>1, <3>0, <3>1, FreeFacts
    <3>. QED  BY <1>1, <2>1, <3>0, <3>1, <3>2 DEF IInv, Objects, Pointers, Running
  <2>2. CASE call.fn = "xz_decode_init" /\ FreeDecoder
    <3>0. dec = <<BlankDecoder>> /\ "dec" \notin held
      BY <1>1, <2>2 DEF IInv, Started
    <3>1. dec # None
      BY <3>0 DEF None
    <3>2. dec' = None /\ enc' = enc /\ coders' = Number(enc)' + Number(dec)'
      BY <1>3, <2>2, <3>0, <3>1, FreeFacts
    <3>. QED  BY <1>1, <2>2, <3>0, <3>1, <3>2 DEF IInv, Objects, Pointers, Running
  <2>3. CASE call.fn \in {"xzencode", "xzdecode"} /\ UNCHANGED <<enc, dec, coders>>
    BY <1>1, <2>3 DEF IInv, Objects, Number, Pointers, Running
  <2>. QED  BY <1>1, <2>1, <2>2, <2>3 DEF Discard
<1>5. AskedIsUsed'
  BY <1>1 DEF AskedIsUsed
<1>6. ASSUME call.fn = "xz_decode_init", call.format = XZ_FORMAT_RAW, Decodes(call.options, raw[1].coder)
      PROVE  ret' = "no memory"
  <2>1. Accepted(call) = RawDecoderAccepts(RawDecodeCoder(call).filter, RawDecodeCoder(call).opt)
    BY <1>6 DEF Accepted
  <2>2. Accepted(call)
    BY <1>6, <2>1 DEF Decodes, RawDecodeCoder, RawDecoder, RawOpt
  <2>. QED  BY <1>1, <2>2
<1>7. PropertiesSuffice'
  <2>. SUFFICES ASSUME Decoding(FromProperties)' PROVE Suffices'
    BY DEF PropertiesSuffice
  <2>1. call.fn = "xz_decode_init" /\ call.format = XZ_FORMAT_RAW /\ call.options \in FromProperties
    BY <1>1 DEF Decoding, FromProperties
  <2>2. ret' = "no memory"
    BY <1>6, <2>1, KeptDecodes
  <2>. QED  BY <2>2 DEF Suffices
<1>8. SameOptionsSuffice'
  <2>. SUFFICES ASSUME Decoding(SameOptions)', (raw[1].level <= 6 \/ LzmaSettings(raw[1].options).dict_size # 0)'
                PROVE  Suffices'
    BY DEF SameOptionsSuffice
  <2>1. /\ call.fn = "xz_decode_init" /\ call.format = XZ_FORMAT_RAW /\ call.options \in SameOptions
        /\ raw[1].level <= 6 \/ LzmaSettings(raw[1].options).dict_size # 0
    BY <1>1 DEF Decoding, SameOptions
  <2>2. ret' = "no memory"
    BY <1>6, <2>1, KeptDecodes
  <2>. QED  BY <2>2 DEF Suffices
<1>. QED  BY <1>2, <1>4, <1>5, <1>7, <1>8 DEF IInv, Answered

LEMMA ReturnIInv ==
    ASSUME IInv, Return
    PROVE  IInv'
<1>1. pc = "return" /\ pc' = "idle" /\ UNCHANGED <<enc, dec, held, coders, raw>>
  BY DEF Return
<1>2. Started' /\ Objects' /\ Pointers' /\ Kept'
  BY <1>1 DEF IInv, Started, Objects, Number, Pointers, Running, Kept
<1>3. Answered'
  BY <1>1, AnsweredLater
<1>. QED  BY <1>2, <1>3 DEF IInv

LEMMA DropIInv ==
    ASSUME IInv, DropEncoder \/ DropDecoder
    PROVE  IInv'
<1>1. pc = "idle" /\ UNCHANGED <<call, pc, raw>>
  BY DEF DropEncoder, DropDecoder
<1>2. Started' /\ Kept' /\ Answered'
  BY <1>1, AnsweredLater DEF IInv, Started, Kept
<1>3. coders = Number(enc) + Number(dec)
  BY DEF IInv, Objects
<1>4. CASE DropEncoder
  <2>1. FreeEncoder /\ enc # None /\ held' = held \ {"enc"}
    BY <1>4 DEF DropEncoder, IInv, Objects
  <2>2. enc' = None /\ dec' = dec /\ coders' = Number(enc)' + Number(dec)'
    BY <1>3, <2>1, FreeFacts
  <2>3. "enc" \notin held' /\ ("dec" \in held' <=> "dec" \in held)
    BY <2>1
  <2>4. Objects' /\ Pointers'
    BY <1>1, <2>2, <2>3 DEF IInv, Objects, Pointers, Running
  <2>. QED  BY <1>2, <2>4 DEF IInv
<1>5. CASE DropDecoder
  <2>1. FreeDecoder /\ dec # None /\ held' = held \ {"dec"}
    BY <1>5 DEF DropDecoder, IInv, Objects
  <2>2. dec' = None /\ enc' = enc /\ coders' = Number(enc)' + Number(dec)'
    BY <1>3, <2>1, FreeFacts
  <2>3. "dec" \notin held' /\ ("enc" \in held' <=> "enc" \in held)
    BY <2>1
  <2>4. Objects' /\ Pointers'
    BY <1>1, <2>2, <2>3 DEF IInv, Objects, Pointers, Running
  <2>. QED  BY <1>2, <2>4 DEF IInv
<1>. QED  BY <1>4, <1>5

LEMMA GetPropertiesIInv ==
    ASSUME IInv, GetProperties
    PROVE  IInv'
<1>1. /\ pc = "idle" /\ "enc" \in held /\ raw # None /\ raw[1].coder \in Range(enc[1].strm)
      /\ UNCHANGED <<call, pc, ret, frame, enc, dec, held, coders>>
  BY DEF GetProperties
<1>2. PICK opt \in PointedTo : raw' = [raw EXCEPT ![1].props = <<Properties(enc[1].filter, opt)>>]
  BY DEF GetProperties
<1>3. Started' /\ Objects' /\ Pointers' /\ Answered'
  BY <1>1, AnsweredLater DEF IInv, Started, Objects, Number, Pointers, Running
<1>4. Running(enc)
  <2>1. enc # None
    BY <1>1 DEF IInv, Objects
  <2>2. enc[1].strm # <<>>
    BY <1>1 DEF Range
  <2>. QED  BY <2>1, <2>2 DEF Running, None
<1>5. /\ enc[1].options = "obj" /\ enc[1].strm = <<enc[1].strm[1]>>
      /\ enc[1].strm[1] = [filter |-> enc[1].filter, opt |-> enc[1].opt, check |-> enc[1].strm[1].check]
  BY <1>4 DEF IInv, Pointers
<1>6. raw[1].coder.filter = enc[1].filter /\ raw[1].coder.opt = enc[1].opt
  <2>1. raw[1].coder = enc[1].strm[1]
    BY <1>1, <1>5 DEF Range
  <2>. QED  BY <1>5, <2>1
<1>7. opt = enc[1].opt
  BY <1>2, <1>5 DEF PointedTo
<1>8. raw = <<[coder |-> raw[1].coder, level |-> raw[1].level, options |-> raw[1].options, props |-> raw[1].props]>>
  BY <1>1 DEF IInv, Kept
<1>9. raw' = <<[coder |-> raw[1].coder, level |-> raw[1].level, options |-> raw[1].options,
                props |-> <<Properties(raw[1].coder.filter, raw[1].coder.opt)>>]>>
  <2>1. raw[1].coder.filter = enc[1].filter /\ raw[1].coder.opt = opt
    BY <1>6, <1>7
  <2>. QED  BY <1>2, <1>8, <2>1
<1>10. Kept'
  BY <1>1, <1>9 DEF IInv, Kept
<1>. QED  BY <1>3, <1>10 DEF IInv

LEMMA NextIInv == IInv /\ [Next]_vars => IInv'
<1>. SUFFICES ASSUME IInv, [Next]_vars PROVE IInv'
  OBVIOUS
<1>1. CASE UNCHANGED vars
  <2>1. Started' /\ Objects' /\ Pointers' /\ Kept'
    BY <1>1 DEF vars, IInv, Started, Objects, Number, Pointers, Running, Kept
  <2>2. AskedIsUsed'
    BY <1>1 DEF vars, IInv, Answered, AskedIsUsed, EncoderAsAsked, DecoderAsAsked, StringAsAsked, AskedOf, AskedFilter
  <2>3. PropertiesSuffice' /\ SameOptionsSuffice'
    BY <1>1 DEF vars, IInv, Answered, PropertiesSuffice, SameOptionsSuffice, Decoding, FromProperties, SameOptions, Suffices
  <2>. QED  BY <2>1, <2>2, <2>3 DEF IInv, Answered
<1>. QED
  BY <1>1, EncodeInitIInv, DecodeInitIInv, XzencodeIInv, XzdecodeIInv, NewIInv, StartEncoderIInv, StartDecoderIInv,
     EncodeStringIInv, DecodeStringIInv, FailIInv, ReturnIInv, DropIInv, GetPropertiesIInv DEF Next

LEMMA SpecIInv == Spec => []IInv
  BY InitIInv, NextIInv, PTL DEF Spec

-----------------------------------------------------------------------------
(* A call that fails takes back what it made, and every coder is ended with its
   object (src/xz_encode_context.c:184, 219, src/xz_decode_context.c:172, 201). *)
THEOREM CallsLeakNothing == Spec => []NothingLeaks
<1>1. IInv => NothingLeaks
  BY DEF IInv, Objects, Number, NothingLeaks
<1>. QED  BY <1>1, SpecIInv, PTL

(* The level, the presets and their overrides, the filter, the check, the flags and the
   memory limit: each coder is started with what its call asked for, as long as that
   fits the type liblzma has for it (src/xz_encode_context.c:145-216,
   src/xz_decode_context.c:139-198, src/xz.c:168-216). *)
THEOREM OptionsReachCoder == Spec => []AskedIsUsed
<1>1. IInv => AskedIsUsed
  BY DEF IInv, Answered
<1>. QED  BY <1>1, SpecIInv, PTL

(* The properties of a raw stream are enough to decode it (docs/USAGE.md:183-185). *)
THEOREM PropertiesAreEnough == Spec => []PropertiesSuffice
<1>1. IInv => PropertiesSuffice
  BY DEF IInv, Answered
<1>. QED  BY <1>1, SpecIInv, PTL

(* So are the options it was made with, up to level 6 or with a dict_size
   (src/xz_decode_context.c:171). *)
THEOREM OptionsAreEnough == Spec => []SameOptionsSuffice
<1>1. IInv => SameOptionsSuffice
  BY DEF IInv, Answered
<1>. QED  BY <1>1, SpecIInv, PTL
=============================================================================
