---------------------------- MODULE MCXzCoderInit ----------------------------
(***************************************************************************)
(* A small instance of XzCoderInit for TLC: a Word of 64 stands for 2^32,  *)
(* dictionaries are between 4 and 48.  Arrays have one key, or two of      *)
(* which one matters to the other.                                         *)
(***************************************************************************)
EXTENDS XzCoderInit

SmallDictSizes == {4, 6, 8, 12, 16, 24, 32, 48}
SmallPresets   == [l \in Levels |-> <<5, 8, 9, 9, 12, 16, 16, 24, 32, 40>>[l + 1]]
SmallFlags     == {0, 8}

\* Values inside, at and outside the range of each key, and some that a cast would
\* bring back into it.
EncodeValues ==
    [check |-> {1, Word + 1}, level |-> {-1, 6, 9},
     filter |-> {LZMA_FILTER_LZMA1, LZMA_FILTER_LZMA2 + Word},
     dict_size |-> {-1, 0, DictMin - 1, 13, Word + 5},
     lc |-> {0, 5}, lp |-> {2}, pb |-> {0}]

DecodeValues ==
    [flags |-> {8, Word + 1}, memory_limit |-> {-7, 5},
     filter |-> {LZMA_FILTER_LZMA1, LZMA_FILTER_LZMA2 + Word}, dict_size |-> {-1, 3},
     lc |-> {0}, lp |-> {2}, pb |-> {5}]

Pairs == {{"lc", "lp"}, {"filter", "lc"}, {"filter", "lp"}, {"filter", "dict_size"}, {"level", "dict_size"}}

Arrays(values) ==
    LET Of(keys) == {o \in [keys -> UNION {values[k] : k \in keys}] : \A k \in keys : o[k] \in values[k]}
    IN  UNION {Of(keys) : keys \in {k \in {{}} \cup {{k} : k \in DOMAIN values} \cup Pairs : k \subseteq DOMAIN values}}

SmallLevelArgs == {-1, 5, 9}
SmallLimitArgs == {-2, -1, 0, 70}

SmallEncodeOptions == Arrays(EncodeValues)
SmallDecodeOptions == Arrays(DecodeValues)
=============================================================================
