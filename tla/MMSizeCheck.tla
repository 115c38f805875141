----------------------------- MODULE MMSizeCheck -----------------------------
(***************************************************************************)
(* The size arithmetic of MMSize against reference definitions taken from  *)
(* the design: the bucket thresholds, the least aligned block that holds a *)
(* request and its header, and exact detection of an overflowing calloc    *)
(* product.  The state is one input n; every input in range is an initial *)
(* state and no step changes it.  The calloc test is checked at an 8-bit  *)
(* size_t, where every pair (elements, size) can be enumerated.           *)
(***************************************************************************)
EXTENDS MMSize

CONSTANT N_MAX      \* largest size argument examined

VARIABLE n

Init == n \in 0 .. N_MAX

Next == UNCHANGED n

Spec == Init /\ [][Next]_n

\* The same arithmetic at an 8-bit size_t.
Narrow == INSTANCE MMSize WITH SIZE_BITS <- 8

\* The design's buckets: 0 holds exactly the 16-byte blocks, bucket k in
\* 1 .. 13 the sizes up to its inclusive upper bound and above the bound of
\* bucket k - 1 (31 for bucket 1), bucket 14 everything larger.
UpperBound(k) == IF k = 14 THEN SIZE_RANGE ELSE S_LIST[k]
LowerBound(k) == IF k = 1 THEN S_LIST_MINI - 1 ELSE S_LIST[k - 1]
SpecBucket(size) ==
    IF size = MIN_BLOCK_SIZE THEN 0
    ELSE CHOOSE k \in 1 .. 14 : LowerBound(k) < size /\ size <= UpperBound(k)

\* get_list_index's comparison tree files every block size (a multiple of
\* 16, at least 16) in the bucket the design's thresholds give it; a block
\* filed in the wrong bucket would be missed by find_fit's bucket choice.
ListIndexMatchesSpec ==
    n >= MIN_BLOCK_SIZE /\ n % DSIZE = 0 => GetListIndex(n) = SpecBucket(n)

\* Requests for which size + wsize + dsize - 1 does not wrap.
NoWrap(size) == size + WSIZE + DSIZE - 1 <= SIZE_MAX

\* For every request that does not wrap, malloc's adjusted size is the least
\* 16-aligned block size of at least 16 that holds the request and the
\* 8-byte header: aligned, large enough, and 16 smaller would not do.
AdjustSizeMinimal ==
    n > 0 /\ NoWrap(n) =>
        LET asize == AdjustSize(n)
        IN  /\ asize % DSIZE = 0
            /\ asize >= MIN_BLOCK_SIZE
            /\ asize - WSIZE >= n
            /\ asize = MIN_BLOCK_SIZE \/ asize - DSIZE - WSIZE < n

\* calloc's test asize / elements != size rejects a call exactly when the
\* true product of elements and size exceeds SIZE_MAX: every pair of an
\* 8-bit size_t, the input n being the size.
CallocRejectsExactlyOverflow ==
    n <= Narrow!SIZE_MAX =>
        \A e \in 1 .. Narrow!SIZE_MAX :
            Narrow!CallocOverflows(e, n) <=> e * n > Narrow!SIZE_MAX
=============================================================================
