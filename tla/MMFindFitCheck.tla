---------------------------- MODULE MMFindFitCheck ----------------------------
(***************************************************************************)
(* find_fit of mm.c against the placement policy of the spec (section 4): *)
(* segregated best fit that scans up to SEARCH_LIMIT entries of each       *)
(* bucket from the request's own, returns early on a surplus of at most    *)
(* CLOSE_ENOUGH, and carries the best fit so far to the next bucket.       *)
(* find_fit reads only the list heads, the headers of listed blocks and    *)
(* their free.next words, so the free lists are built here by pushing free *)
(* blocks with insert_normal_or_mini, one per SLOT bytes of the arena,     *)
(* without the blocks around them: any order of blocks on the lists is     *)
(* reachable that way, as it is in a heap large enough to hold them.       *)
(***************************************************************************)
EXTENDS Integers, Sequences

CONSTANTS
    SIZE_BITS, HEAP_LO, MAX_HEAP, SEARCH_LIMIT, CLOSE_ENOUGH,
    FreeSizes,      \* sizes of the free blocks put on the lists
    ASizes,         \* adjusted sizes find_fit is asked for
    MAX_FREE,       \* bound on the number of free blocks
    LONG_LISTS      \* the lists that may hold more than one block

VARIABLES mem, seg, nfree

H == INSTANCE MMHeap
         WITH CHUNKSIZE <- 16, JUNK <- -1, Requests <- {}, CallocRequests <- {},
              brk <- 0, heap_start <- 0, live <- <<>>

vars == <<mem, seg, nfree>>

\* Bytes between the headers of consecutive pushed blocks (header, prev, next).
SLOT == 32

ASSUME MAX_FREE * SLOT <= MAX_HEAP /\ FreeSizes \subseteq {16 * k : k \in 1 .. 256}

\* The list a free block of size s goes on.
Bucket(s) == IF s = H!MIN_BLOCK_SIZE THEN 0 ELSE H!GetListIndex(s)

Init ==
    /\ mem = [a \in H!Addr |-> -1]
    /\ seg = [i \in 0 .. H!SEG_LIST_NUM - 1 |-> H!NULL]
    /\ nfree = 0

\* A free block of size s at the next slot goes on its list, the way
\* free and split_block hand a block to insert_normal_or_mini.  A list
\* outside LONG_LISTS holds at most one block: of the mini list find_fit
\* only reads the head, and a list above the request's bucket matters by
\* being empty or not and by the surplus of its head.
Push(s) ==
    LET b == HEAP_LO + H!WSIZE + SLOT * nfree
        h == H!InsertNormalOrMini(
                 [mem |-> H!WriteBlock(mem, b, s, FALSE, TRUE, FALSE), seg |-> seg], b)
    IN  /\ nfree < MAX_FREE
        /\ Bucket(s) \notin LONG_LISTS => seg[Bucket(s)] = H!NULL
        /\ mem' = h.mem
        /\ seg' = h.seg
        /\ nfree' = nfree + 1

Next == \E s \in FreeSizes : Push(s)

Spec == Init /\ [][Next]_vars

St == [mem |-> mem, seg |-> seg]

\* find_fit depends on the sizes along each list and on which block is
\* which, not on the addresses the blocks got: states with the same lists
\* of sizes are one state (the VIEW of the runs).

\* The blocks of list i, from its head along next_mini (list 0) or free.next.
RECURSIVE ListFrom(_, _, _)
ListFrom(b, off, fuel) ==
    IF b = H!NULL \/ fuel = 0 THEN <<>>
    ELSE <<b>> \o ListFrom(H!Word(mem, b + off), off, fuel - 1)

ListOf(i) == ListFrom(seg[i], IF i = 0 THEN H!WSIZE ELSE 2 * H!WSIZE, MAX_FREE)

Size(b) == H!GetSize(mem, b)

View == [i \in 0 .. H!SEG_LIST_NUM - 1 |-> [k \in DOMAIN ListOf(i) |-> Size(ListOf(i)[k])]]

-----------------------------------------------------------------------------
(***************************************************************************)
(* The placement policy as the spec words it: the head of a non-empty      *)
(* mini list for a mini request; otherwise, over the first SEARCH_LIMIT    *)
(* entries of each list from the request's bucket upward, in order, the    *)
(* fitting block of least surplus, returned as soon as that surplus is at  *)
(* most CLOSE_ENOUGH.                                                      *)
(***************************************************************************)
Prefix(s, n) == IF Len(s) <= n THEN s ELSE SubSeq(s, 1, n)

RECURSIVE Examined(_, _)
Examined(i, asize) ==
    IF i >= H!SEG_LIST_NUM THEN <<>>
    ELSE Prefix(ListOf(i), SEARCH_LIMIT) \o Examined(i + 1, asize)

RECURSIVE BestOf(_, _, _, _)
BestOf(s, asize, best, min_diff) ==
    IF s = <<>> THEN best
    ELSE LET b == Head(s)
             better == Size(b) >= asize /\ Size(b) - asize < min_diff
             best1 == IF better THEN b ELSE best
             diff1 == IF better THEN Size(b) - asize ELSE min_diff
         IN  IF better /\ diff1 <= CLOSE_ENOUGH THEN best1
             ELSE BestOf(Tail(s), asize, best1, diff1)

SpecFindFit(asize) ==
    IF H!GetListIndex(asize) = 0 /\ seg[0] # H!NULL THEN seg[0]
    ELSE BestOf(Examined(H!GetListIndex(asize), asize), asize, H!NULL, H!SIZE_MAX)

-----------------------------------------------------------------------------
(***************************************************************************)
(* find_fit returns NULL only when no list above the request's bucket     *)
(* holds a block (every such block fits), and otherwise a listed block     *)
(* from the request's bucket or above that is large enough.  The scan      *)
(* counter cont is shared by the buckets and cut at SEARCH_LIMIT; however  *)
(* it stands when a bucket is entered, the bucket's head is examined, so   *)
(* malloc never grows the heap while a larger bucket holds a block.       *)
(***************************************************************************)
FindFitNeverSkipsLargerBucket ==
    \A asize \in ASizes :
        LET r == H!FindFit(St, asize)
            first == H!GetListIndex(asize)
        IN  IF r = H!NULL
            THEN \A i \in first + 1 .. H!SEG_LIST_NUM - 1 : seg[i] = H!NULL
            ELSE /\ \E i \in first .. H!SEG_LIST_NUM - 1 :
                      \E k \in 1 .. Len(ListOf(i)) : ListOf(i)[k] = r
                 /\ Size(r) >= asize

\* The bytes a block has beyond the request.
Surplus(b, asize) == Size(b) - asize

(***************************************************************************)
(* find_fit fits no worse than the spec's policy: it finds a block when    *)
(* the spec's scan does, and the block it returns either has a surplus of  *)
(* at most CLOSE_ENOUGH or one no larger than the spec's choice.  The      *)
(* code's counter is not reset when a list ends, so a bucket entered with  *)
(* cont > 0 is scanned for fewer than SEARCH_LIMIT entries.                *)
(***************************************************************************)
FindFitNoWorseThanSpec ==
    \A asize \in ASizes :
        LET r == H!FindFit(St, asize)
            q == SpecFindFit(asize)
        IN  /\ r = H!NULL => q = H!NULL
            /\ r # H!NULL /\ q # H!NULL =>
                   Surplus(r, asize) <= Surplus(q, asize) \/ Surplus(r, asize) <= CLOSE_ENOUGH
=============================================================================
