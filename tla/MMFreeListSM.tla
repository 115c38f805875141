---------------------------- MODULE MMFreeListSM ----------------------------
(***************************************************************************)
(* The free-list manager on its own: any sequence of insert_normal_or_mini *)
(* and delete_normal_or_mini calls on a fixed set of free blocks, the      *)
(* callers' precondition being that an inserted block is on no list and a *)
(* deleted one is.  The blocks sit SLOT bytes apart with their headers     *)
(* written; the lists keep their links in the blocks' payload words.       *)
(***************************************************************************)
EXTENDS MMFreeList, Sequences

CONSTANTS
    HEAP_LO,      \* address of the first arena byte
    BlockSizes    \* the size of the k-th block

VARIABLES mem, seg

vars == <<mem, seg>>

SLOT == 32

Blocks == {HEAP_LO + WSIZE + SLOT * (k - 1) : k \in DOMAIN BlockSizes}
SizeOf(b) == BlockSizes[(b - HEAP_LO - WSIZE) \div SLOT + 1]
Arena == {HEAP_LO + WSIZE * i : i \in 0 .. (SLOT \div WSIZE) * Len(BlockSizes)}

ASSUME \A k \in DOMAIN BlockSizes : BlockSizes[k] % DSIZE = 0 /\ BlockSizes[k] > 0

St == [mem |-> mem, seg |-> seg]

\* The blocks of list i, following next_mini (list 0) or free.next; a link
\* that is no block, or a walk longer than the blocks, ends it with STRAY.
RECURSIVE LinkChain(_, _, _)
LinkChain(b, off, fuel) ==
    IF b = NULL THEN <<>>
    ELSE IF b \notin Blocks \/ fuel = 0 THEN <<STRAY>>
    ELSE <<b>> \o LinkChain(Word(mem, b + off), off, fuel - 1)

Lists == [i \in 0 .. SEG_LIST_NUM - 1 |->
            LinkChain(seg[i], IF i = 0 THEN WSIZE ELSE 2 * WSIZE, Len(BlockSizes))]

OnList(b) == \E i \in 0 .. SEG_LIST_NUM - 1 : \E k \in DOMAIN Lists[i] : Lists[i][k] = b

Init ==
    /\ mem = [a \in Arena |-> IF a \in Blocks THEN Pack(SizeOf(a), FALSE, TRUE, FALSE) ELSE STRAY]
    /\ seg = [i \in 0 .. SEG_LIST_NUM - 1 |-> NULL]

Insert(b) ==
    /\ ~OnList(b)
    /\ mem' = InsertNormalOrMini(St, b).mem
    /\ seg' = InsertNormalOrMini(St, b).seg

Delete(b) ==
    /\ OnList(b)
    /\ mem' = DeleteNormalOrMini(St, b).mem
    /\ seg' = DeleteNormalOrMini(St, b).seg

Next == \E b \in Blocks : Insert(b) \/ Delete(b)

Spec == Init /\ [][Next]_vars

-----------------------------------------------------------------------------
(***************************************************************************)
(* Read along the links, the lists are the LIFO stacks of MMBuckets: an    *)
(* insert puts the block on top of its bucket and a delete takes it out    *)
(* leaving the rest in order.  The in-place relinking of                   *)
(* delete_from_free_list (prev and next of both neighbours) and the        *)
(* predecessor walk of delete_from_mini_free_list must get every case      *)
(* right: head, middle and tail, after any history of inserts and deletes. *)
(***************************************************************************)
Bucket == [b \in Blocks |-> IF SizeOf(b) = MIN_BLOCK_SIZE THEN 0 ELSE GetListIndex(SizeOf(b))]

Stacks == INSTANCE MMBuckets
              WITH Buckets <- 0 .. SEG_LIST_NUM - 1, BucketOf <- Bucket, lists <- Lists

FreeListRefinement == Stacks!Spec
=============================================================================
