------------------------------ MODULE Checksum ------------------------------
(***************************************************************************)
(* The Internet checksum (checksum.rs): the production implementation,     *)
(* which adds several 16-bit lanes at a time and folds once at the end,    *)
(* and the three implementations kept for comparison.  A byte is a number  *)
(* below ByteMod, a lane is two bytes, a chunk is ChunkLanes lanes.        *)
(***************************************************************************)
EXTENDS Integers, Sequences

CONSTANTS
    ByteMod,        \* 256: the number of byte values
    ChunkLanes      \* 4: the 16-bit lanes in one u64 addend

ASSUME ChecksumAssumption == ByteMod \in Nat \ {0, 1} /\ ChunkLanes \in Nat \ {0}

LaneMod == ByteMod * ByteMod

FromBeBytes(bytes) ==
    LET value[i \in 0..Len(bytes)] ==
            IF i = 0 THEN 0 ELSE value[i - 1] * ByteMod + bytes[i]
    IN  value[Len(bytes)]

\* as_chunks::<n>: the number of whole groups of n bytes, the j-th, and what remains.
Chunks(data, n) == Len(data) \div n

Chunk(data, n, j) == SubSeq(data, (j - 1) * n + 1, j * n)

Remainder(data, n) == SubSeq(data, (Len(data) \div n) * n + 1, Len(data))

\* Mutant: the remainder is right-aligned, so an odd byte lands in a low byte.
PaddedLeft(bytes, n) ==
    [i \in 1..n |-> IF i > n - Len(bytes) THEN bytes[i - (n - Len(bytes))] ELSE 0]

\* The remainder filled up with zeros: an odd byte is the high byte of its lane.
Padded(bytes, n) == [i \in 1..n |-> IF i <= Len(bytes) THEN bytes[i] ELSE 0]

\* Folds what is above the lowest lane back into it (fold, one_carry_fold).
Fold(y) == (y % LaneMod) + (y \div LaneMod)

FoldAndFlip[x \in Nat] ==
    IF x >= LaneMod THEN FoldAndFlip[Fold(x)] ELSE LaneMod - 1 - x

\* calculate.  The 128-bit accumulator cannot overflow (a compile-time assertion in the
\* code), so the sum is a plain one; sum[j] is the accumulator after j chunks.
Calculate(data) ==
    LET n == 2 * ChunkLanes
        sum[j \in 0..Chunks(data, n)] ==
            IF j = 0 THEN FromBeBytes(Padded(Remainder(data, n), n))
            ELSE sum[j - 1] + FromBeBytes(Chunk(data, n, j))
    IN  FoldAndFlip[sum[Chunks(data, n)]]
-----------------------------------------------------------------------------
(* The implementations that benchmarks compare it with.  AccMod is the     *)
(* size of their 32-bit accumulator.                                       *)

AccMod == LaneMod * LaneMod

DeferredCarriesMaxBytes == 2 * ((AccMod - 1) \div (LaneMod - 1))

OddByte(data) == FromBeBytes(Padded(Remainder(data, 2), 2))

Pair(data, j) == FromBeBytes(Chunk(data, 2, j))

AlwaysFoldedCksum(data) ==
    LET AddFolding(sum, pair) ==
            IF sum + pair >= LaneMod THEN sum + pair - LaneMod + 1 ELSE sum + pair
        sum[j \in 0..Chunks(data, 2)] ==
            IF j = 0 THEN OddByte(data) ELSE AddFolding(sum[j - 1], Pair(data, j))
    IN  LaneMod - 1 - sum[Chunks(data, 2)]

\* Two folds, truncated to a lane and complemented.
TwoFoldsFlipped(sum) == LaneMod - 1 - (Fold(Fold(sum)) % LaneMod)

NaiveWrappingCksum(data) ==
    LET sum[j \in 0..Chunks(data, 2)] ==
            IF j = 0 THEN OddByte(data) ELSE (sum[j - 1] + Pair(data, j)) % AccMod
    IN  TwoFoldsFlipped(sum[Chunks(data, 2)])

WouldOverflow == AccMod - LaneMod + 1

RangeCheckedCksum(data) ==
    LET Checked(s) == IF s >= WouldOverflow THEN Fold(s) ELSE s
        sum[j \in 0..Chunks(data, 2)] ==
            IF j = 0 THEN OddByte(data)
            ELSE Checked((sum[j - 1] + Pair(data, j)) % AccMod)
    IN  TwoFoldsFlipped(sum[Chunks(data, 2)])
-----------------------------------------------------------------------------
(* The definition of RFC 1071: the complement of the one's complement sum  *)
(* of the 16-bit words, in which zero has two representations and only the *)
(* sum of nothing but zeros is 0.                                          *)

ByteAt(data, i) == IF i <= Len(data) THEN data[i] ELSE 0

WordAt(data, i) == ByteAt(data, 2 * i - 1) * ByteMod + ByteAt(data, 2 * i)

\* The sums of the first i words.
WordSums(data) ==
    LET sum[i \in Nat] == IF i = 0 THEN 0 ELSE sum[i - 1] + WordAt(data, i) IN sum

OnesComplementSum(data) ==
    LET total == WordSums(data)[(Len(data) + 1) \div 2]
    IN  IF total = 0 THEN 0 ELSE ((total - 1) % (LaneMod - 1)) + 1

Rfc1071(data) == LaneMod - 1 - OnesComplementSum(data)
=============================================================================
