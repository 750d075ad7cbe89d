------------------------------ MODULE XzOptions ------------------------------
(***************************************************************************)
(* How xz_encode_init() and xz_decode_init() turn an array of options into *)
(* the configuration of a coder (src/xz_options.h, src/xz_encode_context.c *)
(* and src/xz_decode_context.c), and how a raw coder's configuration is    *)
(* written down by xz_encode_get_properties().                             *)
(*                                                                         *)
(* An array of options is a function from the keys given to their values,  *)
(* of type zend_long.  liblzma's own rules, which options it accepts and   *)
(* what a raw decoder needs to know of the encoder, are external.          *)
(***************************************************************************)
EXTENDS ZendLong

CONSTANTS
    LZMA_FILTER_LZMA1, LZMA_FILTER_LZMA2,   \* filter ids
    DictMin, DictMax,   \* an encoder's dictionary sizes
    DictSizes,          \* the sizes that the property byte of LZMA2 can name
    PresetDict,         \* the dictionary size of each preset
    Flags               \* the flags of a decoder that liblzma knows, combined

Levels == 0 .. 9

ASSUME FilterAssumption == {LZMA_FILTER_LZMA1, LZMA_FILTER_LZMA2} \subseteq Long
ASSUME DictAssumption ==
    /\ DictMin \in Nat \ {0} /\ DictMax \in Nat
    /\ DictMax < Word /\ DictSizes \subseteq DictMin .. DictMax
    /\ \A d \in DictMin .. DictMax :
          \E s \in DictSizes : s >= d /\ \A t \in DictSizes : t >= d => s <= t
ASSUME PresetAssumption ==
    /\ PresetDict \in [Levels -> DictMin .. DictMax]
    /\ \A i, j \in Levels : i <= j => PresetDict[i] <= PresetDict[j]
ASSUME FlagsAssumption == Flags \subseteq 0 .. Word - 1

XZ_FORMAT_XZ  == 0
XZ_FORMAT_RAW == 1
Formats == {XZ_FORMAT_XZ, XZ_FORMAT_RAW}

LZMA_CHECK_NONE  == 0
LZMA_CHECK_CRC64 == 4
valid_checks == {LZMA_CHECK_NONE, 1, LZMA_CHECK_CRC64, 10}

Filters == {LZMA_FILTER_LZMA1, LZMA_FILTER_LZMA2}

EncodeKeys == {"check", "level", "filter", "dict_size", "lc", "lp", "pb"}
DecodeKeys == {"flags", "memory_limit", "filter", "dict_size", "lc", "lp", "pb"}

\* php_xz_opt_get_long(): an option that is absent keeps its default.
Opt(options, key, default) == IF key \in DOMAIN options THEN options[key] ELSE default

(* The local variables once the options are read: those of both functions,
   those of xz_encode_init() and those of xz_decode_init(). *)
LzmaSettings(options) ==
    [filter    |-> Opt(options, "filter", LZMA_FILTER_LZMA2),
     dict_size |-> Opt(options, "dict_size", 0),
     lc        |-> Opt(options, "lc", -1),
     lp        |-> Opt(options, "lp", -1),
     pb        |-> Opt(options, "pb", -1)]

EncodeLevel(options, iniLevel) == Opt(options, "level", iniLevel)
EncodeCheck(options)           == Opt(options, "check", LZMA_CHECK_CRC64)
DecodeFlags(options)           == Opt(options, "flags", 0)
DecodeLimit(options, iniLimit) == Opt(options, "memory_limit", iniLimit)

(* The validation.  -1 stands for a parameter that was not given. *)
ValidParams(s) ==
    /\ s.lc \in -1 .. 4 /\ s.lp \in -1 .. 4 /\ s.pb \in -1 .. 4
    /\ s.lc >= 0 /\ s.lp >= 0 => s.lc + s.lp <= 4
    /\ s.dict_size >= 0

ValidEncode(format, options, iniLevel) ==
    /\ format \in Formats
    /\ EncodeLevel(options, iniLevel) \in Levels
    /\ U32(EncodeCheck(options)) \in valid_checks
    /\ LzmaSettings(options).filter \in Filters
    /\ ValidParams(LzmaSettings(options))

ValidDecode(format, options) ==
    /\ format \in Formats
    /\ LzmaSettings(options).filter \in Filters
    /\ ValidParams(LzmaSettings(options))

\* lzma_lzma_preset()
Preset(level) == [dict |-> PresetDict[level], lc |-> 3, lp |-> 0, pb |-> 2]

\* Mutant of Override: a parameter of 0 counts as not given.
OverridePositive(opt, s) ==
    [dict |-> IF s.dict_size # 0 THEN U32(s.dict_size) ELSE opt.dict,
     lc   |-> IF s.lc > 0 THEN U32(s.lc) ELSE opt.lc,
     lp   |-> IF s.lp > 0 THEN U32(s.lp) ELSE opt.lp,
     pb   |-> IF s.pb > 0 THEN U32(s.pb) ELSE opt.pb]

(* What was given replaces what the preset says. *)
Override(opt, s) ==
    [dict |-> IF s.dict_size # 0 THEN U32(s.dict_size) ELSE opt.dict,
     lc   |-> IF s.lc >= 0 THEN U32(s.lc) ELSE opt.lc,
     lp   |-> IF s.lp >= 0 THEN U32(s.lp) ELSE opt.lp,
     pb   |-> IF s.pb >= 0 THEN U32(s.pb) ELSE opt.pb]

\* Mutant of RawPreset: a smaller one.
RawPresetFast == 3

(* The preset of a raw decoder, which has no level. *)
RawPreset == 6

(* The filter and the check of an encoder: the container knows LZMA2 only, a raw
   stream has no check. *)
FilterOf(format, filter) == IF format = XZ_FORMAT_XZ THEN LZMA_FILTER_LZMA2 ELSE filter
CheckOf(format, check)   == IF format = XZ_FORMAT_XZ THEN U32(check) ELSE LZMA_CHECK_NONE

-----------------------------------------------------------------------------
(* liblzma.  An encoder refuses dictionaries it cannot make and too many literal
   bits, a raw decoder the latter for LZMA1 only, the auto decoder unknown flags. *)
EncoderAccepts(opt) == opt.dict \in DictMin .. DictMax /\ opt.lc + opt.lp <= 4

RawDecoderAccepts(filter, opt) == filter = LZMA_FILTER_LZMA1 => opt.lc + opt.lp <= 4

(* A raw decoder reads what a raw encoder wrote if it has the same filter and
   no smaller dictionary, and for LZMA1, which does not store them, the same
   lc, lp and pb. *)
Reads(decoder, encoder) ==
    /\ decoder.filter = encoder.filter
    /\ decoder.opt.dict >= encoder.opt.dict
    /\ encoder.filter = LZMA_FILTER_LZMA1 =>
          \A p \in {"lc", "lp", "pb"} : decoder.opt[p] = encoder.opt[p]

(* lzma_properties_encode(): all parameters of LZMA1, and for LZMA2 the next
   size of a dictionary that its one byte can name. *)
Properties(filter, opt) ==
    IF filter = LZMA_FILTER_LZMA1 THEN opt
    ELSE [dict |-> CHOOSE s \in DictSizes : s >= opt.dict /\ \A t \in DictSizes : t >= opt.dict => s <= t]

(* The options by which a script hands properties it has stored to xz_decode_init(). *)
AsOptions(filter, props) ==
    [k \in {"filter", "dict_size"} \cup (IF filter = LZMA_FILTER_LZMA1 THEN {"lc", "lp", "pb"} ELSE {}) |->
        CASE k = "filter"    -> filter
          [] k = "dict_size" -> props.dict
          [] OTHER           -> props[k]]
=============================================================================
