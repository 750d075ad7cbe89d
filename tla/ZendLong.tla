------------------------------ MODULE ZendLong ------------------------------
(***************************************************************************)
(* The conversions a zend_long, PHP's signed integer, goes through before  *)
(* liblzma sees it: casts to uint32_t and uint64_t, and the decoders'      *)
(* convention that a memory limit of 0 is none.                            *)
(***************************************************************************)
EXTENDS Integers

CONSTANTS
    Word,       \* uint32_t counts modulo Word
    LongWord    \* uint64_t counts modulo LongWord

\* Wide enough for a flag above the levels 0 .. 9, the uppermost bit.
ASSUME WordAssumption     == Word \in Nat /\ Word > 20
ASSUME LongWordAssumption == LongWord \in Nat /\ LongWord >= 2 * Word

\* zend_long: 64 bits and a sign; its largest value is ZEND_LONG_MAX.
ZEND_LONG_MAX == (LongWord \div 2) - 1
Long == (0 - ZEND_LONG_MAX) - 1 .. ZEND_LONG_MAX

\* (uint32_t)x and (uint64_t)x
U32(x) == x % Word
U64(x) == x % LongWord

\* (zend_long)x of a uint64_t
Signed(x) == IF x > ZEND_LONG_MAX THEN x - LongWord ELSE x

UINT64_MAX == LongWord - 1

(* The limit a decoder gets. *)
MemLimit(limit) == IF limit = 0 THEN UINT64_MAX ELSE U64(limit)

-----------------------------------------------------------------------------
(* What a caller may expect: a positive limit is the limit, and 0, as any
   negative number, limits nothing that a zend_long can express. *)
LimitMeans(limit, given) ==
    IF limit > 0 THEN given = limit ELSE given >= ZEND_LONG_MAX
=============================================================================
