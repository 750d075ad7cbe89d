------------------------------- MODULE XzOpen -------------------------------
(***************************************************************************)
(* Opening and closing an xz stream: xzopen() (src/xz.c) and               *)
(* php_stream_xzopen() (src/xz_fopen_wrapper.c), which PHP's fopen() also  *)
(* calls for compress.lzma:// paths.                                       *)
(*                                                                         *)
(* Opening is a chain of acquisitions, each of which may fail: the inner   *)
(* stream, a file descriptor of it, the context, the outer stream, the     *)
(* codec with its two buffers.  From the outer stream on, closing that     *)
(* releases everything.  The mode is examined three times, in three ways,  *)
(* and the level and the memory limit come from one of several places.     *)
(* One of them is the mode itself: what follows its first ":" is a level.  *)
(* xzopen() appends ":" and its own level, so that a mode which already    *)
(* has a ":" hides it.                                                     *)
(*                                                                         *)
(* Where the code uses a context it has freed nothing is defined any more  *)
(* and the model stops (pc = "undefined").                                 *)
(***************************************************************************)
EXTENDS ZendLong, Sequences, SequencesExt

CONSTANTS
    Modes,      \* mode strings: the letters before the first ":", if there is one, and
                \* the number that strtoul() finds behind it (0 if there is no number)
    Levels,     \* values of compression levels, of type zend_long
    Limits      \* values of memory limits, of type zend_long

Optional(values) == {<<>>} \cup {<<v>> : v \in values}

Given(option) == option # <<>>

ASSUME ModesAssumption  == Modes \subseteq [letters : Seq(STRING), number : Optional(Levels)]
ASSUME ValuesAssumption == Levels \cup Limits \subseteq Long

VARIABLES
    \* the call: the mode, the level xzopen() puts behind it (none for fopen()),
    \* the INI settings and the options of the stream context
    mode, callLevel, iniLevel, iniLimit, contextLevel, contextLimit,
    level, mem,         \* the local variables
    inner,              \* the inner stream
    self,               \* the context: how often it is allocated minus freed
    isWrite,            \* self->is_write
    coder, setting,     \* what strm was initialised as, with which level or limit
    buffers,            \* in_buf and out_buf are allocated
    pc

call   == <<mode, callLevel, iniLevel, iniLimit, contextLevel, contextLimit>>
local  == <<level, mem>>
stream == <<inner, self, isWrite, coder, setting, buffers>>
vars   == <<call, local, stream, pc>>

TypeOK ==
    /\ mode \in Modes
    /\ {iniLevel, level} \subseteq Levels
    /\ {iniLimit, mem} \subseteq Limits
    /\ {callLevel, contextLevel} \subseteq Optional(Levels)
    /\ contextLimit \in Optional(Limits)
    /\ inner \in {"none", "open", "closed"}
    /\ self \in 0 .. 1
    /\ isWrite \in BOOLEAN
    /\ coder \in {"none", "encoder", "decoder", "ended"}
    /\ setting \in 0 .. UINT64_MAX
    /\ buffers \in BOOLEAN
    /\ pc \in {"start", "check", "inner", "cast", "alloc", "codec", "open", "closed", "null", "fatal", "undefined"}

(* A call starts.  Only fopen() has a stream context; xzopen() appends a level. *)
Init ==
    /\ mode \in Modes
    /\ iniLevel \in Levels
    /\ iniLimit \in Limits
    /\ callLevel \in Optional(Levels)
    /\ contextLevel \in Optional(Levels)
    /\ contextLimit \in Optional(Limits)
    /\ Given(callLevel) => ~Given(contextLevel) /\ ~Given(contextLimit)
    /\ level = iniLevel
    /\ mem = iniLimit
    /\ inner = "none"
    /\ self = 0
    /\ isWrite = FALSE
    /\ coder = "none"
    /\ setting = 0
    /\ buffers = FALSE
    /\ pc = "start"

-----------------------------------------------------------------------------
\* Behind the first ":" of what xzopen() or fopen() hands over: xzopen()'s own level
\* comes behind the second one if its caller's mode has one already.
Number == IF Given(mode.number) THEN mode.number ELSE callLevel

\* (zend_long)strtoul(), of the text of a zend_long; a sign wraps and comes back.
ReadBack(n) == Signed(U64(n))

(* The mode is cut at its first ":". *)
CutMode ==
    /\ pc = "start"
    /\ level' = IF Given(Number) THEN ReadBack(Number[1]) ELSE level
    /\ pc' = "check"
    /\ UNCHANGED <<call, mem, stream>>

Has(ch) == Contains(mode.letters, ch)

BothWays == Has("+") \/ (Has("r") /\ Has("w"))

LevelRefused == level < 0 \/ level > 9

\* E_ERROR ends the script.
Refuse ==
    /\ pc = "check"
    /\ BothWays \/ LevelRefused
    /\ pc' = "fatal"
    /\ UNCHANGED <<call, local, stream>>

\* Mutant of ContextLevel: the option is not looked at.
ContextLevelIgnored == level

ContextLevel == IF Given(contextLevel) THEN contextLevel[1] ELSE level
ContextLimit == IF Given(contextLimit) THEN contextLimit[1] ELSE mem

(* The options of the stream context. *)
Configure ==
    /\ pc = "check"
    /\ ~BothWays /\ ~LevelRefused
    /\ level' = ContextLevel
    /\ mem' = ContextLimit
    /\ pc' = "inner"
    /\ UNCHANGED <<call, stream>>

(* php_stream_open_wrapper_ex() *)
OpenInner ==
    /\ pc = "inner"
    /\ \/ inner' = "open" /\ pc' = "cast"
       \/ pc' = "null" /\ UNCHANGED inner
    /\ UNCHANGED <<call, local, self, isWrite, coder, setting, buffers>>

\* Mutant of GiveUp: the inner stream stays open.
GiveUpLeaving == pc' = "null" /\ UNCHANGED inner

\* php_stream_close(innerstream); NULL is returned.
GiveUp == pc' = "null" /\ inner' = "closed"

(* php_stream_cast() to a file descriptor. *)
Cast ==
    /\ pc = "cast"
    /\ \/ pc' = "alloc" /\ UNCHANGED inner
       \/ GiveUp
    /\ UNCHANGED <<call, local, self, isWrite, coder, setting, buffers>>

\* Mutant of ForWriting: the mode is compared.
ForWritingOnly == mode.letters = <<"w">>

\* mode[0]; there need not be a letter before the ":".
ForWriting == mode.letters # <<>> /\ Head(mode.letters) = "w"

(* The context, and the stream that points to it. *)
Alloc ==
    /\ pc = "alloc"
    /\ isWrite' = ForWriting
    /\ \/ self' = 1 /\ pc' = "codec" /\ UNCHANGED inner
       \/ self' = 0 /\ GiveUp
    /\ UNCHANGED <<call, local, coder, setting, buffers>>

-----------------------------------------------------------------------------
\* lzma_lzma_preset() knows these: the levels, each with or without the uppermost bit.
LZMA_PRESET_EXTREME == Word \div 2

Preset(l) == l \in 0 .. 9 \/ l - LZMA_PRESET_EXTREME \in 0 .. 9

(* The codec and its buffers.  With a codec that cannot be initialised, and
   with any other mode, the context is freed and then used by php_stream_close(). *)
CodecFails == pc' = "undefined" /\ self' = 0 /\ UNCHANGED <<coder, setting, buffers>>

StartEncoder ==
    /\ pc = "codec"
    /\ mode.letters \in {<<"w">>, <<"w", "b">>}
    /\ \/ /\ Preset(U32(level))
          /\ coder' = "encoder"
          /\ setting' = U32(level)
          /\ buffers' = TRUE
          /\ pc' = "open"
          /\ UNCHANGED self
       \/ CodecFails
    /\ UNCHANGED <<call, local, inner, isWrite>>

StartDecoder ==
    /\ pc = "codec"
    /\ mode.letters \in {<<"r">>, <<"r", "b">>}
    /\ \/ /\ coder' = "decoder"
          /\ setting' = MemLimit(U64(mem))
          /\ buffers' = TRUE
          /\ pc' = "open"
          /\ UNCHANGED self
       \/ CodecFails
    /\ UNCHANGED <<call, local, inner, isWrite>>

OtherMode ==
    /\ pc = "codec"
    /\ mode.letters \notin {<<"w">>, <<"w", "b">>, <<"r">>, <<"r", "b">>}
    /\ CodecFails
    /\ UNCHANGED <<call, local, inner, isWrite>>

(* php_xziop_close(): the inner stream is closed, the rest freed. *)
Close ==
    /\ pc = "open"
    /\ coder' = "ended"
    /\ inner' = "closed"
    /\ buffers' = FALSE
    /\ self' = self - 1
    /\ pc' = "closed"
    /\ UNCHANGED <<call, local, isWrite, setting>>

Next ==
    \/ CutMode \/ Refuse \/ Configure \/ OpenInner \/ Cast \/ Alloc
    \/ StartEncoder \/ StartDecoder \/ OtherMode \/ Close

Spec == Init /\ [][Next]_vars

-----------------------------------------------------------------------------
(* The stream is closed as what it was opened for: is_write, from the first
   character of the mode, agrees with the codec, chosen by comparing the mode; an
   encoder whose stream is closed without LZMA_FINISH would lose what it holds
   (src/xz_fopen_wrapper.c:191, 292, 297, 304). *)
CoderMatchesMode == pc = "open" => isWrite = (coder = "encoder")

(* An open that returns NULL or ends the script, and a close, leave no inner stream
   open and nothing allocated (src/xz_fopen_wrapper.c:319-325, 209-217).  That is not
   all failures: where the codec cannot start or the mode is another one, the context
   is freed before the stream that points to it is closed (lines 300, 307, 313).  Of these
   it says what is left when the behaviour becomes undefined: the inner stream alone. *)
NothingLeft ==
    pc \in {"null", "closed", "fatal", "undefined"} =>
        /\ inner = "open" <=> pc = "undefined"
        /\ self = 0 /\ ~buffers
        /\ coder \in {"none", "ended"}

(* A coder has the level or the memory limit its caller asked for: by the stream
   context, else behind a ":" in the mode, else by xzopen()'s argument, else by the INI
   settings.  An encoder has one of the presets liblzma knows, and the one asked for if
   that is one: the check at src/xz_fopen_wrapper.c:266 comes before the context is asked,
   and the narrowing to uint32_t at :298 after it.  A level survives its way through the
   text of the mode (src/xz.c:138, src/xz_fopen_wrapper.c:257), a decoder's limit the two
   conversions at :305 and src/xz_decode.c:66. *)
Asked(sources) == sources[CHOOSE i \in 1 .. Len(sources) :
                             Given(sources[i]) /\ \A j \in 1 .. i - 1 : ~Given(sources[j])][1]

SettingHonoured ==
    pc = "open" =>
        LET asked == IF coder = "encoder"
                     THEN Asked(<<contextLevel, mode.number, callLevel, <<iniLevel>>>>)
                     ELSE Asked(<<contextLimit, <<iniLimit>>>>)
        IN  IF coder = "encoder" THEN Preset(setting) /\ (Preset(asked) => setting = asked)
                                 ELSE LimitMeans(asked, setting)
=============================================================================
