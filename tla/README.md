# Formal models of php-ext-xz

This directory holds TLA+ models of the PHP extension `xz`: its stream wrapper
(`xzopen`, `fread`, `fwrite`, `fclose` on `compress.lzma://`), its incremental
contexts (`xz_decode_*`, `xz_encode_*`), its one-shot functions (`xzdecode`,
`xzencode`) and the options that configure all of them. TLC checks them on small
instances; the safety properties are also proved with TLAPS, for all buffer
sizes, pieces, files, modes and options, and so is that every loop has a variant.

The extension is a set of loops around one function of liblzma,
`lzma_code()`. Each loop moves bytes between a caller that cuts the data as it
likes, two buffers of `XZ_BUFFER_SIZE` bytes (or a growing string), a codec that
stops where it likes, and, for streams, an inner stream that reads and writes as much as it
likes. What can go wrong is bookkeeping at boundaries: a buffer that is exactly
full, an end reported too early, a failure after some success. Before each loop
a coder is configured, from options and settings that pass through several types
and defaults; what can go wrong there is a value that changes on its way. No example-based
test reaches many of these, since they depend on where three independent parties stop.

## Inventory

| Component | State | Operations | Interacts with |
| --- | --- | --- | --- |
| Stream wrapper, reading (`xz_fopen_wrapper.c`) | `strm`, `in_buf`, `out_buf`, `out_buf_idx`, `stream->eof` | `php_xziop_read`, `php_xz_decompress`, `php_xz_init_decoder` | the inner stream (read, eof), `lzma_code(LZMA_RUN)` |
| Stream wrapper, writing (`xz_fopen_wrapper.c`) | `strm`, `in_buf`, `out_buf` | `php_xziop_write`, `php_xz_compress`, `php_xziop_flush`, `php_xziop_close`, `php_xz_init_encoder` | the inner stream (write), `lzma_code(LZMA_RUN / LZMA_FINISH)` |
| Stream wrapper, opening (`xz_fopen_wrapper.c`, `xz.c`) | the context while it is built, `is_write` | `xzopen`, `php_stream_xzopen` | PHP's stream layer, INI settings, the stream context's options |
| Incremental decoding (`xz_decode_context.c`) | `strm`, `status`, `format` | `xz_decode_init`, `_add`, `_finish`, `_get_status`, `_get_read_len`, create, free | `lzma_code` |
| Incremental encoding (`xz_encode_context.c`) | `strm`, `status`, `filter`, `opt`, `format`, `check` | `xz_encode_init`, `_add`, `_finish`, `_get_properties`, create, free | `lzma_code` |
| One-shot functions (`xz_decode.c`, `xz_encode.c`, `xz.c`) | local to a call | `xzdecode`, `xzencode` | `lzma_code` |
| Options and INI settings (`xz_options.h`, `xz.c`, `php_xz.h`) | the options in a context (`opt`, `filter`), the INI settings | `php_xz_opt_get_long`, the validation and the casts in `xz_*_init`, `xzencode`, `xzdecode` and `xzopen` | liblzma's presets and its own checks |
| Module registration, generated arginfo, version macros, `utils.c` (not compiled) | none | module start and shutdown | PHP |

Nothing here is concurrent: a handler runs from its call to its return. The
nondeterminism is in the parties around it, and the hard behaviours are

- boundaries: a read as large as the window, a write that exactly fills `in_buf`,
  a string exactly full when the codec stops;
- failures in the middle: an inner read or write that fails after part of a call
  has succeeded, damage found after output was produced;
- endings: the inner stream's end against bytes still buffered, concatenated streams,
  truncated files, `finish` too early or twice;
- the protocol of `lzma_code()`: no call after an error, no second call in a row without
  progress, no room-less call, nothing but `LZMA_FINISH` after `LZMA_FINISH`;
- conversions: `zend_long` to `uint32_t` and `uint64_t`, 0 and -1 with a meaning of their own;
- lifetimes: an object that outlives the frame it was configured in, a coder that was never started;
- termination of the loops.

`PROJECT.json` lists them as `hazards`, each at its line, with the properties
that cover it.

## Modules

`Lzma.tla` states the contract of `lzma_code()` (external: liblzma is not
in the repository). A compressed file is described by what its prefixes
decode to (`yield`), by where a stream ends in it (`ends`) and by which of its bytes
are the ones the encoder wrote (`bytes`). A decoder consumes input
and emits output until its room is full, its input used up, a stream ends or
damage is met; where it stops is nondeterministic within these rules. It may
hold the output of at most its last input byte. An encoder may keep any
amount of output until `LZMA_FINISH`. Two calls in a row without progress give
`LZMA_BUF_ERROR`. `ZendLong.tla` has the conversions of a `zend_long` that
several of the models share.

| Module | Models | How |
| --- | --- | --- |
| `XzReadStream` | `php_xziop_read` and what it calls | One action per branch of the read loop (`ServePart`, `ServeAll`, `HitEof`, `Refill`, `RefillFails`, `Decode`, `ReadDone`), `ReadCall` for the caller. Buffers carry contents; pointers are offsets (`outIdx` is `out_buf_idx`, `nextOut` is `strm.next_out`). `start` and `told` are history. |
| `PlainReader` | what reading promises | Plaintext from its first byte on, never more than there is; on a sound file the end only after everything and no failure. `XzReadStream` implements it. |
| `XzWriteStream` | `php_xziop_write`, `php_xz_compress`, `php_xziop_flush`, `php_xziop_close` | `WriteCall`, `FlushCall`, `CloseCall` start a handler; `Fill`, `WriteTail` are the two copies into `in_buf`; `CompressCode`, `CompressEmit`, `CompressDone` the loop of `php_xz_compress`; `FinishCode`, `FinishDrain` that of the close. |
| `XzDecodeContext` | `xz_decode_add`, `xz_decode_finish` | `Add`, `Finish` begin a call; `Code` is one turn of the loop of `php_xz_decode_context_process`, with the growing string. |
| `XzEncodeContext` | `xz_encode_add`, `xz_encode_finish` | The same for `php_xz_encode_context_process`. |
| `XzPipe` | both contexts together | A script feeds an encoder (`Feed`, `FinishEncoding`) and hands what it returns to a decoder, an instance of `XzDecodeContext` (`HandOn`, `FinishDecoding`), while the encoder is still at it. `plan` is the stream the encoder is going to write, `wire` what its strings hold; a byte out of place arrives as a damaged one. |
| `XzOneShot` | `xzdecode`, `xzencode` | `DecodeRun`, `DecodeEnd`, `EncodeRun`, `EncodeFinish`: the loops of `php_xz_decode_string` and `php_xz_encode_string`. A behaviour is one call, whose codec is local to it. |
| `XzOpen` | `xzopen`, `php_stream_xzopen`, the release in `php_xziop_close` | One action per acquisition (`OpenInner`, `Cast`, `Alloc`, `StartEncoder`, `StartDecoder`), each with its failure; `CutMode`, `Refuse` and `Configure` before them, `Close` after. A mode is its letters before the first `:` and the number `strtoul` finds behind it, if there is a `:`. Levels and memory limits come from the mode, a call, an INI setting or a stream context and are converted modulo `Word` and `LongWord`. |
| `XzOptions` | the option arrays of `xz_encode_init` and `xz_decode_init` | Operators: `LzmaSettings` reads an array, `ValidEncode` and `ValidDecode` are the validation, `Override` lays the options over a preset, `Properties` and `AsOptions` are what a script stores and hands back. An array is a function from the keys given to their values. |
| `XzCoderInit` | `xz_encode_init`, `xz_decode_init`, `xz_encode_get_properties`, the arguments of `xzencode` and `xzdecode`, creating and freeing the objects | `EncodeInit`, `DecodeInit`, `Xzencode`, `Xzdecode` begin a call and validate; `StartEncoder`, `StartDecoder`, `EncodeString`, `DecodeString` start a coder, `Fail` takes back what was made; `MakeEncoder` and `MakeDecoder` are `new`, `DropEncoder` and `DropDecoder` the release. `coders` counts what liblzma has allocated; `raw` is the raw stream a script keeps, with what it knows of it. |
| `MC...` | instances for TLC | They define the sets of files the configurations use. |
| `..._proofs` | theorems about the module of that name; `XzPipe_proofs` also about `XzEncodeContext`; `Common_proofs` about `Lzma`, `ZendLong` and growing strings | See Proofs. |

Plaintext bytes are named by their positions 1, 2, 3, ... and so are compressed bytes,
so that a property can say which byte is where; a damaged byte is 0, and so is
memory not written yet. Operators named after another one with a suffix and
introduced as a mutant of it (`AdvanceByCount` for `Advance`, ...) are plausible
mistakes in the code; no specification uses them, and each property is violated when the right one
is put in place of the original.

## Runs

| Run | Instance | Shows |
| --- | --- | --- |
| `reader` | `MCXzReadStream.cfg`: buffers of 2, reads of up to 3, all files of up to 4 bytes with up to 5 bytes of plaintext; those of up to 3 bytes also over inner reads that may fail | `WindowInv`, `PlaintextInOrder`, `CallerSeesPlaintext`, `InputInOrder`, `SoundFileNeverFails`, `EofMeansAll`, also around failures; that the reader implements `PlainReader`; every read returns, and a caller that reads until `feof()` or a failure finishes |
| `reader_reported` | `MCXzReadReported.cfg`: damaged last byte | violated: see Findings |
| `writer` | `MCXzWriteStream.cfg`: buffers of 2, writes of up to 5, 6 bytes in all, inner writes may come up short | `PlaintextInOrder`, `CompressedInOrder`, `ClosedMeansStored`, `CallReturns`; and, after short writes too, `UnsentKept` |
| `writer_reported` | `MCXzWriteReported.cfg` | violated: see Findings |
| `decode_context` | `MCXzDecodeContext.cfg`: growth by 2, pieces of up to 3, files of up to 4 bytes with any ends of streams | `OutInOrder`, `NothingHeldBack`, `EndIsExact`, `UndamagedNeverFails`, `OutBounded` |
| `decode_status` | `MCXzDecodeStatus.cfg` | violated: see Findings |
| `pipe` | `MCXzPipe.cfg`: growth by 2, pieces of up to 3 on both sides, plaintexts of up to 3 bytes, every complete stream of up to 4 bytes | for the encoder `OutInOrder`, `InputTaken`, `FinishCompletes`, `RefusalsExplained`; for both `RoundTrip` (the decoder never fails and returns the plaintext fed so far, at the end all of it) and `RoundTripEnds` |
| `encode_add` | `MCXzEncodeAdd.cfg` | violated: see Findings |
| `one_shot` | `MCXzOneShot.cfg`: growth by 2, strings of up to 4 compressed and 5 plaintext bytes | `OutInOrder`, `SoundFileDecoded`, `DamageReported`, `EncodedWhole` |
| `one_shot_truncated` | `MCXzOneShotTruncated.cfg` | violated: see Findings |
| `open` | `MCXzOpen.cfg`: modes with every kind of letters, with and without a `:` and a number of their own, levels at and beyond both ends and memory limits from each source, some of which wrap or have the bit of `LZMA_PRESET_EXTREME`; `Word` = 32 stands for 2^32, `LongWord` = 256 for 2^64 | `CoderMatchesMode`, `NothingLeft`, `SettingHonoured` |
| `options` | `MCXzCoderInit.cfg`: arrays of one key, or of two that matter to each other, with values inside, at and outside their ranges and such as wrap; every order of calls; `Word` = 64, `LongWord` = 1024, dictionaries of 4 to 48 | `NothingLeaks`, `AskedIsUsed` (level, preset, each parameter, filter, check, flags and memory limit, in both formats and for the one-shot functions), `PropertiesSuffice`, `SameOptionsSuffice` |

Bounds. A buffer of 2 bytes has every state that matters (empty, partly used,
full); reads and writes of 3 and 5 are smaller than, equal to and larger than
one and two buffers. With 4 compressed bytes a file has a header, a byte that decodes to
several buffers at once, one that decodes to nothing, and an end, in every order,
and is read in several refills. `MaxPlain` and `MaxStream`
bound what a caller feeds and what an encoder emits in all; they are
constraints on the environment (a guard of `WriteCall` and of `Add`, and a
limit on `EncoderAnswers`), not on the code.

In `options` a script has one context of each class at a time and keeps its latest raw
stream: two contexts of a class share nothing. `Word` and `LongWord` are small but keep
their order (levels, checks and dictionaries are below `Word`, and `Word` is below
`ZEND_LONG_MAX`), so that the instances have values which wrap, and some that wrap into a valid range.

Deadlock is not checked where the system really
stops: a closed stream, a failed open, a write stream past an overrun, a bounded caller that has
nothing left to write, a one-shot call that has returned.

Fairness. `XzReadStream` and `XzWriteStream` assume
weak fairness of the steps inside a call: the code runs to its return, nothing
suspends it. `XzPipe` assumes the same of `Encode` and `Decode`. That the loop of a
decoding context ends for any file, sound or not, is stated as a bound of the string that
each turn but the last grows (`OutBounded`), and proved with a variant (see Proofs). `CallerReads` in the reader is a caller's loop
`while (!feof($fp)) fread($fp, n)`; only `CallerFinishes` needs it. In `XzPipe` a script
calls both contexts again and again, in any order; strong fairness of `Feed`,
`FinishEncoding`, `HandOn` and `FinishDecoding` says that it does not for ever pass
empty strings or look after one context only (weak fairness would not say so: each of
these is disabled while a call of the other is running). Nothing is
assumed of the inner stream but that a read before its end returns at least one
byte or fails, and that a read at the end reports the end.

## Findings

Each is a run that TLC shows violated, with a behaviour of the code that disagrees with
the documentation:

- `reader_reported`: a decoding error found after a read has copied
  bytes is dropped (`xz_fopen_wrapper.c:148`), and when it used up the input the next
  call reports the end of file instead; `docs/USAGE.md:510` says lzma failures return `false`.
- `writer_reported`: `php_xziop_close` ignores short writes (`xz_fopen_wrapper.c:201`), and so
  does `php_xziop_flush`; the same line of the documentation.
- `decode_status`: `xz_decode_finish` on an incomplete stream leaves status 0,
  "ready for more data" (`docs/USAGE.md:316`), and the next `xz_decode_add` fails.
- `encode_add`: `xz_encode_add($ctx, '')` twice returns `false` on an unfinished
  context (`docs/USAGE.md:138`). The trace is that of a raw context; an xz context emits its
  header on its first call, so it takes one empty call more.
- `one_shot_truncated`: `xzdecode` of a truncated file returns what it could decode
  (`docs/USAGE.md:60`: `false` on invalid or corrupt input).

## Proofs

Each `..._proofs` module proves `Spec => []P` for every safety property `P` that the
passing runs check of its component, `XzReadStream_proofs` the refinement of
`PlainReader`, and `XzPipe_proofs` that of both contexts by the pipe, and `RoundTrip`. They hold for every `XZ_BUFFER_SIZE > 0`, every bound of reads, writes and
pieces, every set of well-formed files, every mode, level, limit and array of options. The
assumptions on the constants say no more than that (`BufferAssumption`, `CountAssumption`,
`ChunkAssumption`, `BoundAssumption`, `BoundsAssumption`, `FilesAssumption`,
`ModesAssumption`, `ValuesAssumption`, `OptionsAssumption`, `ArgsAssumption`, `FilterAssumption`, the writer's
`FailAssumption`), and, of liblzma and the platform, that `uint64_t` is wider than `uint32_t`
and has a bit above the levels (`WordAssumption`, `LongWordAssumption`), that presets have valid dictionaries which
grow with the level (`PresetAssumption`) and that LZMA2's properties can name a
dictionary no smaller than any (`DictAssumption`). A plan of `XzPipe` is an undamaged file of one
stream that ends with its last byte (`PlanAssumption`).

Reader. Its properties are not inductive by themselves. `PlaintextInOrder`
needs `WindowInv` (a window inside the buffer), `SoundFileNeverFails` needs to know
that `lzma_code()` is never called twice without progress, and `EofMeansAll`
needs to know how much a decoder may still hold. `IInv` adds `CallInv` (where a call
has got to) and `DecoderInv`: the decoder holds at most what its last byte decodes
to, a call without progress happens only at the end of the file, and after it no
call of the decoder follows. `Decode` is the hard step: `DecodeStep` reduces
`lzma_code()`'s answers to what the invariant needs, by `RunOnce` of
`Common_proofs`. For the refinement, `Visible` shows what each step changes of what a
caller sees, and `NextAbstract` maps that to a step of `PlainReader` or a stutter.
`EmptyReadExplained` is an action property: a call that returns has handed something out,
or set `eof`, or told of a failure. It is what `while (!feof($fp))` relies on to get on.

Writer. `IInv` adds `ControlInv` (which buffer is rewound at
which point) and `EncoderInv`: as long as no write has come up short, the
encoder makes progress on every call, so no call fails and the close loop ends with
`LZMA_STREAM_END`. After a short write `TypeOK`, `ControlInv` and `UnsentKept` are what is
claimed: `out_buf` still holds the latest compressed bytes in order, the room counted behind
them is the room there is, and until the close no byte has left it that the inner stream has not
taken. It follows from no other property, since all of the others are about streams whose
writes have not come up short.

Contexts. `IInv` is `InStep` (what has been fed is what the coder has consumed and
what `avail_in` still counts), `AtEnd` (the coder's state against `status`) and `Strings`
(the string in progress continues those returned before). The decoder's properties about
complete answers need the case distinction of `DecodeOnce`: a turn that does not continue
has used all input and emitted all it decodes to, or has met an end or damage. A failed
or finished context answers in other ways (`TurnRefused`). The encoder may refuse an
empty addition after another one; that this is the only reason needs a clause that ties
`stuck` to a string in which nothing was written during this call.

Both contexts. `PInv` is the encoder's `IInv`, the decoder's `IInv` under the substitution that
makes it part of the pipe, and three links between them: `OnWire` (the wire holds the stream's
bytes in their places, as many as the finished calls returned), `Planned` (the encoder is on its
plan: it has taken at least what its stream so far decodes to, and the last byte comes with
`LZMA_FINISH`) and `Received` (the decoder has been fed no more than the wire holds, and told
to finish only with all of it). `OnWire` makes the file that arrives the planned one in
every state (`ArrivesAsSent`), so a step of the pipe is a step of the encoder
(`PipeEncodes`) or of the decoder over that file (`PipeDecodes`), and the decoder's
lemmas are used as they are, through an instance of `XzDecodeContext_proofs`. The instance of
`XzDecodeContext` that `XzPipe` runs and that instance define the same actions twice;
`SameCode`, `SameAdd` and `SameFinish` say so. `RoundTrip` then is a chain of
inequalities from what the decoder returned back to what was fed, and an equality at the end.

Variants. For every loop there is a natural number that each of its steps lowers:
`CallsRunOut` for a read, `HandlersRunOut` for write, flush and close, `TurnsRunOut` for each of
the contexts, `StepsRunOut` for the one-shot functions. They need no fairness, no bound on
the instance and no sound file, and cover failures and short writes. What is counted is the input and
the output still to come, with weights: a turn of `lzma_code()` that succeeds has moved
(`RunOnce`, `EncodeMoves`) or meets a state in which the loop stops, and a refusal ends the call.
A file decodes to finitely many bytes and a stream is no longer than `MaxStream`; both are the
finiteness of the data. Together with the scheduling assumption under Fairness this is
why `ReadReturns` and `CallReturns` hold for every size, though the step from a variant to
liveness is not among what is proved.

One-shot. `IInv` says that neither coder is ever stuck, since each turn offers input or
asks for the end, with room in the string; that the decoder holds at most what its last byte decodes to,
so that a sound file's end leaves nothing in it; and that bytes consumed without a failure were undamaged.

Opening. `IInv` of `XzOpen_proofs` is `Held` (what each stage of the chain has acquired),
where level and limit came from, and what the coder was started with. `NothingLeft` is
not inductive without the first, since a failure must know what there is to release.
`SettingHonoured` needs that a level comes back from the text of the mode as it was (`ReadBackSame`),
and that the check of its range, which precedes the stream context's option, leaves only
values that the cast to `uint32_t` keeps.

Options. `IInv` of `XzCoderInit_proofs` is `Started` (between validation and start there is one
blank object that the script does not see), `Objects` (a coder for each
object with one, and no other), `Pointers` (an encoder's `filter.options`
points into its object) and `Kept` (the stored stream was made by a
coder that liblzma accepted, and its properties are those of that coder). `PropertiesSuffice`
follows from `Kept` and `Pointers`: a decoder given the properties is accepted, has the
same `lc`, `lp`, `pb` and no smaller dictionary. `SameOptionsSuffice` needs the order
of the presets. `U32Facts` and `MemLimitMeans` of `Common_proofs` say what the casts keep.

Only model-checked: liveness (`ReadReturns`, `CallerFinishes`, `CallReturns`,
`RoundTripEnds`), which needs `ENABLED` and fairness and is out of the prover's reach.

## Assumptions and what is left out

- liblzma behaves as `Lzma` says. Damage is found at the damaged byte at the
  latest: a decoder that accepts it, or finds it only in a later check, is not
  modelled. Nor are memory limit and option errors, which end a stream like damage does.
  The last byte of a whole `.xz` file decodes to nothing (`Whole`); a
  `.lzma` file, which `lzma_auto_decoder` accepts too, need not have that
  property, and the results about whole files do not cover those.
- `InputExhausted` assumes that a decoder emits all it can when its room is not full.
- PHP 7.4 and later: reading uses the branch of `XZ_STREAM_READ_INTO` where a failed
  inner read returns -1.
- An inner read returns 0 only at the end. An inner write takes a prefix of what it is given.
- After a failed write `in_buf` may be overrun (`xz_fopen_wrapper.c:177`); what
  follows is undefined and the writer's model stops there (`Defined`).
- Three error paths of `php_stream_xzopen` (`xz_fopen_wrapper.c:300, 307, 313`)
  free the context before closing the stream that points to it; `XzOpen` stops
  there (`undefined`), and of these paths `NothingLeft` only says that the inner stream is what
  is left then. What the close does with a freed context is not modelled. `E_ERROR` ends the script.
- The level in a mode is what `strtoul` makes of the text behind its first `:`, so that
  `xzopen($f, 'w:3', 7)` writes with level 3 and `xzopen($f, 'w:', 7)` with level 0: `SettingHonoured` states that
  precedence, which no document mentions, as it is. The number is a constant of the mode;
  only that a `zend_long` which `xzopen()` prints is read back as itself is derived (`ReadBack`).
  A number of more than 64 bits, which `strtoul` reads as `ULONG_MAX`, behaves like the -1 that becomes of it.
  Modes of more than 63 characters, which `xzopen()` would cut, are left out.
- Which options liblzma accepts and which decoder reads which raw stream is external
  (`EncoderAccepts`, `RawDecoderAccepts`, `Reads`, `Properties` of `XzOptions`).
- A `dict_size`, decoder flags or a check beyond 2^32 are used as what they wrap to, if that is
  valid; `AskedIsUsed` leaves these values out. The check is narrowed before it is validated
  (`xz_encode_context.c:167`), so 2^32 + 1 passes for `XZ_CHECK_CRC32`, although it is not one of the
  constants `docs/USAGE.md:100` asks for. All other options are validated before they are
  narrowed, and `AskedIsUsed` has no exception for them.
- A raw decoder knows no level: a raw stream of level 7 to 9 without `dict_size` needs one to be
  decoded (`SameOptionsSuffice` excludes that case; its properties are enough in every case).
- A raw context (`XZ_FORMAT_RAW`) behaves like one without `XZ_CONCATENATED`.
- In `XzPipe` the encoder writes one complete stream; damage on the way between contexts
  is the subject of `XzDecodeContext`.
- Warnings, the conversion of options that are no integers, and checks of the number and type
  of arguments are PHP's and not modelled.

## Not modelled

- A stream used against its mode. `php_xziop_write` does not look at `is_write`
  (`xz_fopen_wrapper.c:160`): on a stream opened for reading it gathers bytes in the buffer that
  holds undecoded input and calls the decoder. `php_xziop_read` on a stream opened for
  writing computes its window from `out_buf_idx`, which was never set (`xz_fopen_wrapper.c:124`).
  What follows is undefined or depends on memory not written, and no document
  says what it should be; a model could state nothing but the code itself.
- Registration of constants, classes, INI entries and the wrapper when the module starts, and
  the generated argument descriptions: straight-line code without state of its own.
- The branches for PHP before 7.4, where a failed read is 0; `utils.c`, which is not compiled; tests and build files.

## Status

Every loop and every acquisition of the extension is modelled, checked and, but for liveness,
proved. What could be added is small: the round trip through the stream
wrapper (a file written by `XzWriteStream`, read back by `XzReadStream`), which differs from
`XzPipe` in that the writer and the reader never run side by side, and the reading branch of PHP before 7.4.
