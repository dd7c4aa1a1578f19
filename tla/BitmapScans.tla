----------------------------- MODULE BitmapScans -----------------------------
(***************************************************************************)
(* The two whole-map scans of afl-fuzz-bitmap.c that the triage does not   *)
(* call but the rest of the fuzzer does: count_bits, which counts the set  *)
(* bits of a map (the virgin map, for the status screen) one u32 word at a *)
(* time with a branch for an all-ones word and a SWAR popcount otherwise,  *)
(* and minimize_bits, which ORs one bit per non-zero byte of a trace into  *)
(* a packed map.  Each loop takes one iteration per step; when it ends its *)
(* result is compared with a direct definition of what it computes.        *)
(*                                                                         *)
(* count_bits runs first and minimize_bits after it, on the same map; the  *)
(* two share nothing, so one order stands for both.                        *)
(***************************************************************************)
EXTENDS Naturals, FiniteSets, Bitwise, Functions

CONSTANTS
    MapSize,       \* fsrv.map_size: the bytes minimize_bits scans
    RealMapSizes,  \* values fsrv.real_map_size may have (at most map_size)
    U32Bytes,      \* bytes of the u32 word count_bits reads (4 in the build)
    Maps,          \* maps the scans may be given: [0 .. MapSize-1 -> 0..255]
    Dsts           \* packed maps minimize_bits may OR into

ASSUME U32Bytes \in Nat \ {0}
ASSUME \A r \in RealMapSizes : ((r + U32Bytes - 1) \div U32Bytes) * U32Bytes <= MapSize

VARIABLES
    mem,           \* the map both scans read
    real_map_size,
    cb_ptr,        \* count_bits: ptr, as a word index
    cb_i,          \* count_bits: i, the words left
    cb_ret,        \* count_bits: ret
    mb_i,          \* minimize_bits: i
    dst,           \* minimize_bits: dst
    dst0           \* ghost: dst when minimize_bits was called

vars == <<mem, real_map_size, cb_ptr, cb_i, cb_ret, mb_i, dst, dst0>>

WordBits == 8 * U32Bytes

AllOnes == 2 ^ WordBits - 1

\* The u32 constant whose every byte is b (0x55555555 is Rep(85)).
Rep(b) == SumFunctionOnSet([k \in 0 .. U32Bytes - 1 |-> b * 256 ^ k], 0 .. U32Bytes - 1)

\* *(u32 *)ptr on a little-endian machine.
WordAt(m, w) ==
    SumFunctionOnSet([k \in 0 .. U32Bytes - 1 |-> m[w * U32Bytes + k] * 256 ^ k],
                     0 .. U32Bytes - 1)

(***************************************************************************)
(* The branch-free popcount of a word that is not all ones:                *)
(*   v -= ((v >> 1) & 0x55555555);                                         *)
(*   v = (v & 0x33333333) + ((v >> 2) & 0x33333333);                       *)
(*   (((v + (v >> 4)) & 0xF0F0F0F) * 0x01010101) >> 24                     *)
(* with the product taken modulo 2^32.                                     *)
(***************************************************************************)
SwarCount(v) ==
    LET v1 == v - (shiftR(v, 1) & Rep(85))
        v2 == (v1 & Rep(51)) + (shiftR(v1, 2) & Rep(51))
    IN  shiftR((((v2 + shiftR(v2, 4)) & Rep(15)) * Rep(1)) % (AllOnes + 1),
               WordBits - 8)

\* The word count drops the rounding up of a partial last word.
CountBitsWordsTruncated(n) == n \div U32Bytes

\* i = ((afl->fsrv.real_map_size + 3) >> 2): the words, the last one rounded up.
CountBitsWords(n) == (n + U32Bytes - 1) \div U32Bytes

\* The bit of dst a byte of the trace sets: dst[i >> 3] |= 1 << (i & 7).
PackedBit(i) == <<shiftR(i, 3), 2 ^ (i & 7)>>

\* The bit is stored with = instead of |=.
MinimizeSetOverwrite(d, i) == [d EXCEPT ![PackedBit(i)[1]] = PackedBit(i)[2]]

\* The bit is added with + instead of |=.
MinimizeSetAdd(d, i) == [d EXCEPT ![PackedBit(i)[1]] = @ + PackedBit(i)[2]]

MinimizeSet(d, i) == [d EXCEPT ![PackedBit(i)[1]] = @ | PackedBit(i)[2]]

-----------------------------------------------------------------------------
Init ==
    /\ mem \in Maps
    /\ real_map_size \in RealMapSizes
    /\ cb_ptr = 0
    /\ cb_i = CountBitsWords(real_map_size)
    /\ cb_ret = 0
    /\ mb_i = 0
    /\ dst \in Dsts
    /\ dst0 = dst

\* while (i--): an all-ones word adds 32 and continues.
CountBitsFull ==
    /\ cb_i > 0
    /\ WordAt(mem, cb_ptr) = AllOnes
    /\ cb_ret' = cb_ret + WordBits
    /\ cb_ptr' = cb_ptr + 1
    /\ cb_i' = cb_i - 1
    /\ UNCHANGED <<mem, real_map_size, mb_i, dst, dst0>>

\* Any other word: the SWAR popcount.
CountBitsSwar ==
    /\ cb_i > 0
    /\ WordAt(mem, cb_ptr) # AllOnes
    /\ cb_ret' = cb_ret + SwarCount(WordAt(mem, cb_ptr))
    /\ cb_ptr' = cb_ptr + 1
    /\ cb_i' = cb_i - 1
    /\ UNCHANGED <<mem, real_map_size, mb_i, dst, dst0>>

\* while (i < afl->fsrv.map_size): if (*(src++)) set the bit; ++i.
MinimizeBitsStep ==
    /\ cb_i = 0
    /\ mb_i < MapSize
    /\ \/ mem[mb_i] # 0 /\ dst' = MinimizeSet(dst, mb_i)
       \/ mem[mb_i] = 0 /\ UNCHANGED dst
    /\ mb_i' = mb_i + 1
    /\ UNCHANGED <<mem, real_map_size, cb_ptr, cb_i, cb_ret, dst0>>

Done == cb_i = 0 /\ mb_i = MapSize

Next == CountBitsFull \/ CountBitsSwar \/ MinimizeBitsStep

Spec == Init /\ [][Next]_vars /\ WF_vars(Next)

-----------------------------------------------------------------------------
BitsOf(b) == Cardinality({k \in 0 .. 7 : shiftR(b, k) % 2 = 1})

Bit(b, k) == shiftR(b, k) % 2 = 1

TypeOK ==
    /\ mem \in Maps /\ real_map_size \in RealMapSizes
    /\ cb_i \in Nat /\ cb_ptr \in Nat /\ cb_ret \in Nat
    /\ mb_i \in 0 .. MapSize
    /\ DOMAIN dst = DOMAIN dst0 /\ \A j \in DOMAIN dst : dst[j] \in 0 .. 255

(***************************************************************************)
(* count_bits returns the number of set bits of the real_map_size bytes of *)
(* the map and of the bytes after them up to the end of the u32 word that *)
(* holds the last one (the loop reads whole words): the all-ones shortcut *)
(* and the SWAR popcount, on every word, agree with counting bit by bit.   *)
(***************************************************************************)
CountBitsIsPopcount ==
    cb_i = 0 =>
        LET read == {i \in 0 .. MapSize - 1 :
                       i < real_map_size
                       \/ (real_map_size > 0
                           /\ i \div U32Bytes = (real_map_size - 1) \div U32Bytes)}
        IN  cb_ret = SumFunctionOnSet([i \in read |-> BitsOf(mem[i])], read)

(***************************************************************************)
(* minimize_bits leaves bit i of the packed map set exactly when it was    *)
(* set before or byte i of the trace (i < map_size) is non-zero; no other *)
(* bit changes.                                                            *)
(***************************************************************************)
MinimizeBitsPacksNonZero ==
    Done =>
        \A j \in DOMAIN dst, k \in 0 .. 7 :
            Bit(dst[j], k) <=> (Bit(dst0[j], k) \/ (8 * j + k < MapSize /\ mem[8 * j + k] # 0))

=============================================================================
