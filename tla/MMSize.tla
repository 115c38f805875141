------------------------------- MODULE MMSize -------------------------------
(***************************************************************************)
(* Size arithmetic of mm.c: the word constants, round_up, the adjusted     *)
(* block size malloc computes from a request, calloc's byte count and its  *)
(* overflow test, and get_list_index, the size-class index of the          *)
(* segregated free lists.  size_t arithmetic is taken modulo 2^SIZE_BITS   *)
(* (64 in the build; a model picks a width TLC can represent).             *)
(***************************************************************************)
EXTENDS Integers, FiniteSets

CONSTANT SIZE_BITS          \* width of size_t

ASSUME SIZE_BITS \in 8 .. 30

SIZE_RANGE == 2 ^ SIZE_BITS
SIZE_MAX == SIZE_RANGE - 1

\* size_t wraps: every sum and product below is reduced to the width.
SizeT(x) == x % SIZE_RANGE

NULL == 0
WSIZE == 8
DSIZE == 2 * WSIZE
MIN_BLOCK_SIZE == DSIZE
SEG_LIST_NUM == 15

\* The upper bounds s_list_1 .. s_list_13 of buckets 1 .. 13; s_list_mini
\* is the strict bound of bucket 0.
S_LIST_MINI == 32
S_LIST == <<64, 128, 256, 512, 1024, 2048, 4096, 8192, 16384, 32768,
            65536, 131072, 262144>>

MaxOf(x, y) == IF x > y THEN x ELSE y

\* Mutant: round_up without the bias n - 1 rounds down.
RoundUpNoBias(size, n) == SizeT(n * (size \div n))

\* round_up(size, n) == n * ((size + (n - 1)) / n), in size_t.
RoundUp(size, n) == SizeT(n * (SizeT(size + (n - 1)) \div n))

(***************************************************************************)
(* get_list_index: the comparison tree returns 0 below s_list_mini and     *)
(* otherwise one more than the number of bounds s_list_1 .. s_list_13 the  *)
(* size exceeds.                                                           *)
(***************************************************************************)
GetListIndexInclusiveMini(size) ==
    IF size <= S_LIST_MINI THEN 0
    ELSE 1 + Cardinality({i \in 1 .. 13 : size > S_LIST[i]})

GetListIndex(size) ==
    IF size < S_LIST_MINI THEN 0
    ELSE 1 + Cardinality({i \in 1 .. 13 : size > S_LIST[i]})

\* malloc's adjusted block size for a request of size bytes.
AdjustSize(size) ==
    IF size <= WSIZE THEN MIN_BLOCK_SIZE
    ELSE RoundUp(SizeT(size + WSIZE), DSIZE)

\* calloc's byte count and its multiplication-overflow test.
CallocBytes(elements, size) == SizeT(elements * size)
\* Mutant: the overflow test "product < operand", which misses some wraps.
CallocOverflowsBelowSize(elements, size) == CallocBytes(elements, size) < size

CallocOverflows(elements, size) == CallocBytes(elements, size) \div elements # size
=============================================================================
