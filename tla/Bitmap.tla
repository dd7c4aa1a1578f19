------------------------------- MODULE Bitmap -------------------------------
(***************************************************************************)
(* Bitmap primitives and the virgin-map engine of afl-fuzz-bitmap.c.       *)
(*                                                                         *)
(* A map (the trace bits or a virgin map) is a function from byte indexes  *)
(* 0..MapSize-1 to bytes 0..255.  The code scans maps in machine words of  *)
(* WordBytes bytes; the word structure is kept where the code's decisions  *)
(* depend on it (has_few_bits skips all-0xFF virgin words and tests the    *)
(* hit-count signal word by word).  Everything else is stated bytewise.    *)
(***************************************************************************)
EXTENDS Naturals, FiniteSets, Bitwise

CONSTANTS
    MapSize,     \* fsrv.map_size / real_map_size, in bytes
    WordBytes    \* 8 with WORD_SIZE_64, 4 otherwise

ASSUME MapSize \in Nat \ {0} /\ WordBytes \in Nat \ {0}

Edges == 0 .. MapSize - 1
Byte  == 0 .. 255

\* ~b on a byte.
BNot(b) == 255 - b

B2N(b) == IF b THEN 1 ELSE 0

\* a & b on bytes, tabulated once from Bitwise's &.
ByteAnd == [p \in Byte \X Byte |-> p[1] & p[2]]

BAnd(a, b) == ByteAnd[<<a, b>>]

(***************************************************************************)
(* count_bytes: number of non-zero bytes of a map.                          *)
(***************************************************************************)
CountBytes(m) == Cardinality({i \in Edges : m[i] # 0})

(***************************************************************************)
(* count_non_255_bytes: number of bytes of a virgin map that are not 0xFF, *)
(* i.e. the number of edges the virgin map records as covered.             *)
(***************************************************************************)
CountNon255Bytes(m) == Cardinality({i \in Edges : m[i] # 255})

(***************************************************************************)
(* simplify_lookup: 0 -> 1, anything else -> 128; simplify_trace applies   *)
(* it to every byte of the trace.                                          *)
(***************************************************************************)
SimplifyOf(v) == IF v = 0 THEN 1 ELSE 128

Simplify(m) == [i \in Edges |-> SimplifyOf(m[i])]

(***************************************************************************)
(* count_class_lookup8: the hit-count buckets.  count_class_lookup16 is    *)
(* the product of two 8-bit lookups, so classify_counts, which applies the *)
(* 16-bit table, is the 8-bit bucket applied to every byte.                *)
(***************************************************************************)
ClassOf(v) ==
    CASE v = 0   -> 0
      [] v = 1   -> 1
      [] v = 2   -> 2
      [] v = 3   -> 4
      [] v <= 7  -> 8
      [] v <= 15 -> 16
      [] v <= 31 -> 32
      [] v <= 127 -> 64
      [] OTHER   -> 128

Classify(m) == [i \in Edges |-> ClassOf(m[i])]

(***************************************************************************)
(* has_new_bits with discover_word: a byte is novel when the trace has a   *)
(* bit the virgin map still has; the result is 2 if some novel byte was    *)
(* never touched (virgin 0xFF), 1 if only hit counts are new, 0 otherwise. *)
(* The virgin map loses every bit the trace sets.                          *)
(***************************************************************************)
NovelBytes(v, t) == {i \in Edges : BAnd(t[i], v[i]) # 0}

HasNewBitsRet(v, t) ==
    IF NovelBytes(v, t) = {} THEN 0
    ELSE IF \E i \in NovelBytes(v, t) : v[i] = 255 THEN 2 ELSE 1

\* The virgin map is left as it was.
HasNewBitsVirginNoClear(v, t) == v

HasNewBitsVirgin(v, t) == [i \in Edges |-> BAnd(v[i], BNot(t[i]))]

\* A hit-count-only novelty leaves the dirty flag alone (a plausible slip).
HasNewBitsChangedOnlyNewTuple(v, t) == HasNewBitsRet(v, t) = 2

\* has_new_bits marks the bitmap dirty when it found anything (and the map
\* is virgin_bits, which the caller checks).
HasNewBitsChanged(v, t) == HasNewBitsRet(v, t) # 0

(***************************************************************************)
(* has_few_bits, with a testcase matrix present.                           *)
(***************************************************************************)
WordOf(i) == i \div WordBytes

\* Words whose virgin bytes are not all 0xFF: the only words scanned.
TouchedWords(v) == {WordOf(i) : i \in {j \in Edges : v[j] # 255}}

\* Some scanned word has a trace bit still set in the virgin word.
VisibleHit(v, t) ==
    \E i \in Edges : WordOf(i) \in TouchedWords(v) /\ BAnd(t[i], v[i]) # 0

\* The bitmap-size test accepts an equal size.
BmsDecreaseNotStrict(t, minBms) == CountBytes(t) <= minBms

BmsDecrease(t, minBms) == CountBytes(t) < minBms

HcnDecrease(v, t, actual, minCnt) == VisibleHit(v, t) /\ actual < minCnt

\* Bytes covered before and not hit now.
DroppedEdges(v, t) == {i \in Edges : v[i] # 255 /\ t[i] = 0}

CovDecrease(v, t) == DroppedEdges(v, t) # {}

\* The packed result with the bitmap-size bit shifted one place too far.
FewBitsPackWideShift(bms, cov, hcn) ==
    16 + B2N(bms) * 8 + B2N(cov) * 2 + B2N(hcn)

FewBitsPack(bms, cov, hcn) ==
    16 + B2N(bms) * 4 + B2N(cov) * 2 + B2N(hcn)

\* The dropped bytes are not reset to virgin.
FewBitsVirginNoReset(v, t) == v

\* Every dropped byte is reset to 0xFF so the edge can drop again later.
FewBitsVirgin(v, t) ==
    [i \in Edges |-> IF i \in DroppedEdges(v, t) THEN 255 ELSE v[i]]

(***************************************************************************)
(* has_few_bits as a whole: without a matrix it is has_new_bits.  The      *)
(* result, the new virgin map, and whether it marks bitmap_changed         *)
(* (isBits: the map passed is virgin_bits; has_few_bits itself sets the    *)
(* flag on a coverage decrease whatever map it was given).                 *)
(***************************************************************************)
HasFewBitsRet(matrix, v, t, actual, minBms, minCnt) ==
    IF ~matrix THEN HasNewBitsRet(v, t)
    ELSE FewBitsPack(BmsDecrease(t, minBms), CovDecrease(v, t),
                     HcnDecrease(v, t, actual, minCnt))

HasFewBitsVirgin(matrix, v, t) ==
    IF ~matrix THEN HasNewBitsVirgin(v, t) ELSE FewBitsVirgin(v, t)

\* The coverage-decrease path forgets to mark the bitmap dirty.
HasFewBitsChangedNoCov(matrix, v, t, isBits) ==
    IF ~matrix THEN HasNewBitsChanged(v, t) /\ isBits ELSE FALSE

HasFewBitsChanged(matrix, v, t, isBits) ==
    IF ~matrix THEN HasNewBitsChanged(v, t) /\ isBits ELSE CovDecrease(v, t)

\* The results has_few_bits and has_new_bits report as "not interesting".
NotInteresting == {0, 16}

=============================================================================
