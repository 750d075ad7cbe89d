----------------------------- MODULE XzCoderInit -----------------------------
(***************************************************************************)
(* How coders are configured, started and ended outside the stream         *)
(* wrapper: xz_encode_init() and xz_decode_init() with the objects they    *)
(* return, xz_encode_get_properties(), and the arguments of xzencode() and *)
(* xzdecode() (src/xz_encode_context.c, src/xz_decode_context.c, src/xz.c, *)
(* src/xz_encode.c, src/xz_decode.c).                                      *)
(*                                                                         *)
(* A script makes contexts and drops them, asks for properties, and keeps  *)
(* the latest raw stream, to decode it later.  Each call validates,        *)
(* starts a coder, which liblzma may refuse, and returns; its locals are   *)
(* gone when the script goes on.  What the coders then do is modelled in   *)
(* XzEncodeContext, XzDecodeContext and XzOneShot.                         *)
(***************************************************************************)
EXTENDS XzOptions, Functions

CONSTANTS
    EncodeOptions, DecodeOptions,   \* arrays of options a script may pass
    FormatArgs, LevelArgs,          \* formats and levels, of type zend_long
    LimitArgs                       \* memory limits, of type zend_long

ASSUME OptionsAssumption ==
    /\ \A o \in EncodeOptions : DOMAIN o \subseteq EncodeKeys /\ \A k \in DOMAIN o : o[k] \in Long
    /\ \A o \in DecodeOptions : DOMAIN o \subseteq DecodeKeys /\ \A k \in DOMAIN o : o[k] \in Long
ASSUME ArgsAssumption == FormatArgs \cup LevelArgs \cup LimitArgs \subseteq Long

VARIABLES
    \* the call: the function, its format and options, and the level and the
    \* memory limit it has from its arguments or the INI settings
    call,
    pc, ret,
    frame,      \* the locals of the call: an encoder's opt, a coder without object
    enc, dec,   \* the objects: XZEncodeContext, XZDecodeContext
    held,       \* those of them the script has
    coders,     \* coders that liblzma has allocated and not freed
    raw         \* the raw stream the script keeps, and its properties

vars == <<call, pc, ret, frame, enc, dec, held, coders, raw>>

\* No object, no stream, nothing in a pointer.
None == <<>>

\* ecalloc() in php_xz_encode_context_create_obj() and its decoder's counterpart.
BlankEncoder ==
    [strm |-> None, format |-> 0, check |-> 0, filter |-> 0, opt |-> None, options |-> "NULL"]
BlankDecoder == [strm |-> None, format |-> 0]

NoCall == [fn |-> "none"]

Init ==
    /\ call = NoCall
    /\ pc = "idle"
    /\ ret = "none"
    /\ frame = None
    /\ enc = None /\ dec = None
    /\ held = {}
    /\ coders = 0
    /\ raw = None

-----------------------------------------------------------------------------
(* The calls: validation, then object_init_ex().  One object of each class at a
   time is enough here; the script drops one before it makes another. *)
Invoke(c, valid) ==
    /\ pc = "idle"
    /\ call' = c
    /\ IF valid THEN pc' = "start" /\ UNCHANGED ret ELSE pc' = "return" /\ ret' = "ValueError"
    /\ UNCHANGED <<frame, held, coders, raw>>

EncodeInit(format, options, level) ==
    LET valid == ValidEncode(format, options, level)
    IN  /\ enc = None
        /\ Invoke([fn |-> "xz_encode_init", format |-> format, options |-> options, level |-> level], valid)
        /\ enc' = IF valid THEN <<BlankEncoder>> ELSE None
        /\ UNCHANGED dec

DecodeInit(format, options, limit) ==
    LET valid == ValidDecode(format, options)
    IN  /\ dec = None
        /\ Invoke([fn |-> "xz_decode_init", format |-> format, options |-> options, limit |-> limit], valid)
        /\ dec' = IF valid THEN <<BlankDecoder>> ELSE None
        /\ UNCHANGED enc

\* An argument of -1, which is also the default, stands for the INI setting.
OrIni(argument, ini) == IF argument = -1 THEN ini ELSE argument

Xzencode(level, ini, format) ==
    /\ Invoke([fn |-> "xzencode", format |-> format, level |-> OrIni(level, ini)],
              OrIni(level, ini) \in Levels /\ format \in Formats)
    /\ UNCHANGED <<enc, dec>>

Xzdecode(limit, ini) ==
    /\ Invoke([fn |-> "xzdecode", limit |-> OrIni(limit, ini)], limit >= -1)
    /\ UNCHANGED <<enc, dec>>

(* new XZEncodeContext, new XZDecodeContext: objects no init function has seen. *)
MakeEncoder == pc = "idle" /\ enc = None /\ enc' = <<BlankEncoder>> /\ held' = held \cup {"enc"}
              /\ UNCHANGED <<call, pc, ret, frame, dec, coders, raw>>
MakeDecoder == pc = "idle" /\ dec = None /\ dec' = <<BlankDecoder>> /\ held' = held \cup {"dec"}
              /\ UNCHANGED <<call, pc, ret, frame, enc, coders, raw>>

-----------------------------------------------------------------------------
(* The configurations that the calls ask liblzma for. *)
EncodeOpt(c) == Override(Preset(U32(EncodeLevel(c.options, c.level))), LzmaSettings(c.options))

EncodeCoder(c) ==
    [filter |-> FilterOf(c.format, LzmaSettings(c.options).filter), opt |-> EncodeOpt(c),
     check  |-> CheckOf(c.format, EncodeCheck(c.options))]

RawDecodeCoder(c) ==
    [filter |-> LzmaSettings(c.options).filter, opt |-> Override(Preset(RawPreset), LzmaSettings(c.options))]

AutoDecodeCoder(c) ==
    [limit |-> MemLimit(DecodeLimit(c.options, c.limit)), flags |-> U32(DecodeFlags(c.options))]

DecodeCoder(c) == IF c.format = XZ_FORMAT_RAW THEN RawDecodeCoder(c) ELSE AutoDecodeCoder(c)

StringEncodeCoder(c) ==
    [filter |-> LZMA_FILTER_LZMA2, opt |-> Preset(U32(c.level)), check |-> CheckOf(c.format, LZMA_CHECK_CRC64)]

StringDecodeCoder(c) == [limit |-> MemLimit(U64(c.limit))]

\* Whether liblzma takes them.
Accepted(c) ==
    CASE c.fn = "xz_encode_init" -> EncoderAccepts(EncodeOpt(c))
      [] c.fn = "xz_decode_init" -> IF c.format = XZ_FORMAT_RAW
                                    THEN RawDecoderAccepts(RawDecodeCoder(c).filter, RawDecodeCoder(c).opt)
                                    ELSE AutoDecodeCoder(c).flags \in Flags
      [] OTHER -> TRUE

Starts(fn) == pc = "start" /\ call.fn = fn /\ Accepted(call) /\ pc' = "return" /\ ret' = "ok"

\* A script keeps the latest stream it writes, with what it knows of it, if it is raw.
Keep(coder, level, options) ==
    raw' = IF call.format = XZ_FORMAT_RAW
           THEN <<[coder |-> coder, level |-> level, options |-> options, props |-> None]>>
           ELSE None

\* Mutant of PointTo: to the options in the frame of xz_encode_init().
PointToFrame(object) == [object EXCEPT !.options = "frame"]

\* filter.options = &obj->opt
PointTo(object) == [object EXCEPT !.options = "obj"]

(* xz_encode_init() starts its coder and fills in the object. *)
StartEncoder ==
    /\ Starts("xz_encode_init")
    /\ frame' = <<EncodeOpt(call)>>
    /\ coders' = coders + 1
    /\ enc' = <<PointTo([strm |-> <<EncodeCoder(call)>>, format |-> U32(call.format),
                         check |-> U32(EncodeCheck(call.options)), filter |-> EncodeCoder(call).filter,
                         opt |-> EncodeOpt(call), options |-> "NULL"])>>
    /\ held' = held \cup {"enc"}
    /\ Keep(EncodeCoder(call), EncodeLevel(call.options, call.level), call.options)
    /\ UNCHANGED <<call, dec>>

(* xz_decode_init() does. *)
StartDecoder ==
    /\ Starts("xz_decode_init")
    /\ coders' = coders + 1
    /\ dec' = <<[strm |-> <<DecodeCoder(call)>>, format |-> U32(call.format)]>>
    /\ held' = held \cup {"dec"}
    /\ UNCHANGED <<call, frame, enc, raw>>

(* xzencode() and xzdecode() start a coder and end it before they return. *)
EncodeString ==
    /\ Starts("xzencode")
    /\ frame' = <<StringEncodeCoder(call)>>
    /\ Keep(StringEncodeCoder(call), call.level, <<>>)
    /\ UNCHANGED <<call, enc, dec, held, coders>>

DecodeString ==
    /\ Starts("xzdecode")
    /\ frame' = <<StringDecodeCoder(call)>>
    /\ UNCHANGED <<call, enc, dec, held, coders, raw>>

-----------------------------------------------------------------------------
\* free_obj: lzma_end() if there is a coder.
FreeCoder(object) == coders' = IF object.strm # None THEN coders - 1 ELSE coders

\* zval_ptr_dtor() of the only reference.
FreeEncoder == FreeCoder(enc[1]) /\ enc' = None /\ UNCHANGED dec
FreeDecoder == FreeCoder(dec[1]) /\ dec' = None /\ UNCHANGED enc

\* Mutant of Discard: false is returned, the object stays.
DiscardNot == UNCHANGED <<enc, dec, coders>>

\* What a failing call does with the object it has made.
Discard ==
    \/ call.fn = "xz_encode_init" /\ FreeEncoder
    \/ call.fn = "xz_decode_init" /\ FreeDecoder
    \/ call.fn \in {"xzencode", "xzdecode"} /\ UNCHANGED <<enc, dec, coders>>

(* liblzma refuses the options, or has no memory, and leaves nothing behind. *)
Fail ==
    /\ pc = "start"
    /\ ret' = IF Accepted(call) THEN "no memory" ELSE "refused"
    /\ pc' = "return"
    /\ Discard
    /\ UNCHANGED <<call, frame, held, raw>>

(* The call returns: its frame is gone, the script goes on. *)
Return ==
    /\ pc = "return"
    /\ pc' = "idle" /\ ret' = "none" /\ call' = NoCall /\ frame' = None
    /\ UNCHANGED <<enc, dec, held, coders, raw>>

(* The script drops a context. *)
DropEncoder ==
    /\ pc = "idle" /\ "enc" \in held
    /\ FreeEncoder
    /\ held' = held \ {"enc"}
    /\ UNCHANGED <<call, pc, ret, frame, raw>>

DropDecoder ==
    /\ pc = "idle" /\ "dec" \in held
    /\ FreeDecoder
    /\ held' = held \ {"dec"}
    /\ UNCHANGED <<call, pc, ret, frame, raw>>

\* What filter.options points to; a frame that is gone may hold anything.
PointedTo ==
    IF enc[1].options = "obj" THEN {enc[1].opt}
    ELSE [dict : {DictMin, DictMax}, lc : {0, 4}, lp : {0}, pb : {0, 4}]

(* xz_encode_get_properties(), for the context that writes the stream kept. *)
GetProperties ==
    /\ pc = "idle" /\ "enc" \in held
    /\ enc[1].format = XZ_FORMAT_RAW
    /\ raw # None /\ raw[1].coder \in Range(enc[1].strm)
    /\ \E opt \in PointedTo : raw' = [raw EXCEPT ![1].props = <<Properties(enc[1].filter, opt)>>]
    /\ UNCHANGED <<call, pc, ret, frame, enc, dec, held, coders>>

-----------------------------------------------------------------------------
\* The options a script passes to decode the raw stream it keeps: those it was
\* made with, or what its properties say.
FromProperties == IF raw # None /\ raw[1].props # None
                  THEN {AsOptions(raw[1].coder.filter, raw[1].props[1])} ELSE {}
SameOptions    == IF raw # None THEN {raw[1].options} ELSE {}

Next ==
    \/ \E format \in FormatArgs, options \in EncodeOptions, ini \in LevelArgs : EncodeInit(format, options, ini)
    \/ \E format \in FormatArgs, options \in DecodeOptions \cup FromProperties \cup SameOptions, ini \in LimitArgs :
          DecodeInit(format, options, ini)
    \/ \E level, ini \in LevelArgs, format \in FormatArgs : Xzencode(level, ini, format)
    \/ \E limit, ini \in LimitArgs : Xzdecode(limit, ini)
    \/ MakeEncoder \/ MakeDecoder
    \/ StartEncoder \/ StartDecoder \/ EncodeString \/ DecodeString
    \/ Fail \/ Return
    \/ DropEncoder \/ DropDecoder \/ GetProperties

Spec == Init /\ [][Next]_vars

-----------------------------------------------------------------------------
(* Between calls there is no object and no coder but those the script holds: a
   call that fails half way takes back what it had made, and each coder is
   ended with its object, also one that was never started (free_obj, and
   zval_ptr_dtor at src/xz_encode_context.c:184, 219 and
   src/xz_decode_context.c:172, 201). *)
Running(object) == object # None /\ object[1].strm # None

NothingLeaks ==
    pc = "idle" =>
        /\ "enc" \in held <=> enc # None
        /\ "dec" \in held <=> dec # None
        /\ coders = (IF Running(enc) THEN 1 ELSE 0) + (IF Running(dec) THEN 1 ELSE 0)

(* The configuration of a coder that starts is what the call asked for: each parameter
   the one given, and where none was the preset's of the level, which is itself an
   option, an argument or the INI setting; the filter, the check, the decoder's flags
   and its memory limit.  The values that stand for "not given", the validation, the
   order of preset and overrides, and the narrowing to uint32_t change nothing
   (src/xz_encode_context.c:145-216, src/xz_decode_context.c:139-198, src/xz.c:168-216).
   Not so for a dict_size, a check or flags past 2^32, which wrap: they are left out. *)
Fits(value) == value \in 0 .. Word - 1

AskedOf(opt, level) ==
    LET Wanted(key, absent, preset) ==
            IF Opt(call.options, key, absent) = absent THEN preset ELSE call.options[key]
        preset == Preset(level)
        dict   == Wanted("dict_size", 0, preset.dict)
    IN  /\ Fits(dict) => opt.dict = dict
        /\ opt.lc = Wanted("lc", -1, preset.lc)
        /\ opt.lp = Wanted("lp", -1, preset.lp)
        /\ opt.pb = Wanted("pb", -1, preset.pb)

AskedFilter == Opt(call.options, "filter", LZMA_FILTER_LZMA2)

EncoderAsAsked(coder) ==
    /\ AskedOf(coder.opt, EncodeLevel(call.options, call.level))
    /\ IF call.format = XZ_FORMAT_RAW
       THEN coder.filter = AskedFilter
       ELSE /\ coder.filter = LZMA_FILTER_LZMA2
            /\ Fits(EncodeCheck(call.options)) => coder.check = EncodeCheck(call.options)

DecoderAsAsked(coder) ==
    IF call.format = XZ_FORMAT_RAW
    THEN AskedOf(coder.opt, RawPreset) /\ coder.filter = AskedFilter
    ELSE /\ LimitMeans(DecodeLimit(call.options, call.limit), coder.limit)
         /\ Fits(DecodeFlags(call.options)) => coder.flags = DecodeFlags(call.options)

StringAsAsked(coder) ==
    /\ coder.opt = Preset(call.level) /\ coder.filter = LZMA_FILTER_LZMA2
    /\ call.format = XZ_FORMAT_XZ => coder.check = LZMA_CHECK_CRC64

AskedIsUsed ==
    pc = "return" /\ ret = "ok" =>
        /\ call.fn = "xz_encode_init" => EncoderAsAsked(enc[1].strm[1])
        /\ call.fn = "xz_decode_init" => DecoderAsAsked(dec[1].strm[1])
        /\ call.fn = "xzencode"       => StringAsAsked(frame[1])
        /\ call.fn = "xzdecode"       => LimitMeans(call.limit, frame[1].limit)

(* docs/USAGE.md:183-185: the properties of a raw stream, stored with it, are
   enough to decode it later: xz_decode_init() takes them and its coder reads the
   stream, also when the encoder and its frame are long gone. *)
Decoding(options) ==
    pc = "return" /\ call.fn = "xz_decode_init" /\ call.format = XZ_FORMAT_RAW /\ call.options \in options

Suffices ==
    /\ ret \in {"ok", "no memory"}
    /\ ret = "ok" => Reads(dec[1].strm[1], raw[1].coder)

PropertiesSuffice == Decoding(FromProperties) => Suffices

(* A raw stream is decoded by a context made with the same options, although
   xz_decode_init() knows no level: preset 6 has a dictionary as large as any up to
   level 6, beyond that dict_size must be given (src/xz_decode_context.c:171). *)
SameOptionsSuffice ==
    Decoding(SameOptions) /\ (raw[1].level <= 6 \/ LzmaSettings(raw[1].options).dict_size # 0) => Suffices
=============================================================================
