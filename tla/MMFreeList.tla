----------------------------- MODULE MMFreeList -----------------------------
(***************************************************************************)
(* The segregated free-list manager of mm.c.  An allocator state h is a    *)
(* record with the arena h.mem and the list heads h.seg (the array         *)
(* segregated_free_list); each operation maps a state to a state.  Bucket *)
(* 0 is the singly linked LIFO list of 16-byte blocks, linked through      *)
(* next_mini; buckets 1 .. 14 are doubly linked LIFO lists linked through  *)
(* free.prev and free.next.                                                *)
(***************************************************************************)
EXTENDS MMBlock

SetMem(h, m) == [h EXCEPT !.mem = m]

\* Mutant: the push leaves the old head's prev at NULL.
InsertToFreeListNoBackLink(h, b) ==
    IF b = NULL THEN h
    ELSE LET seg == GetListIndex(GetSize(h.mem, b))
         IN  [h EXCEPT !.seg[seg] = b,
                       !.mem = [@ EXCEPT ![PrevSlot(b)] = NULL,
                                         ![NextSlot(b)] = h.seg[seg]]]

\* insert_to_free_list: push b on the head of the list of its size class.
InsertToFreeList(h, b) ==
    IF b = NULL THEN h
    ELSE LET seg == GetListIndex(GetSize(h.mem, b))
             head == h.seg[seg]
         IN  IF head = NULL
             THEN [h EXCEPT !.seg[seg] = b,
                            !.mem = [@ EXCEPT ![PrevSlot(b)] = NULL,
                                              ![NextSlot(b)] = NULL]]
             ELSE [h EXCEPT !.seg[seg] = b,
                            !.mem = [@ EXCEPT ![PrevSlot(b)] = NULL,
                                              ![NextSlot(b)] = head,
                                              ![PrevSlot(head)] = b]]

\* Mutant: deleting the head leaves the new head's prev pointing at b.
DeleteFromFreeListKeepsHeadPrev(h, b) ==
    IF b = NULL THEN h
    ELSE LET seg == GetListIndex(GetSize(h.mem, b))
             next == Word(h.mem, NextSlot(b))
             prev == Word(h.mem, PrevSlot(b))
             m == h.mem
         IN  IF h.seg[seg] = b
             THEN [h EXCEPT !.seg[seg] = next]
             ELSE LET m1 == [m EXCEPT ![NextSlot(prev)] = next]
                  IN  SetMem(h, IF next # NULL
                                THEN [m1 EXCEPT ![PrevSlot(next)] = prev]
                                ELSE m1)

\* Mutant: unlinking a non-head block leaves its successor's prev at b.
DeleteFromFreeListNoBackLink(h, b) ==
    IF b = NULL THEN h
    ELSE LET seg == GetListIndex(GetSize(h.mem, b))
             next == Word(h.mem, NextSlot(b))
             prev == Word(h.mem, PrevSlot(b))
         IN  IF h.seg[seg] = b
             THEN [h EXCEPT !.seg[seg] = next,
                            !.mem = IF next # NULL
                                    THEN [@ EXCEPT ![PrevSlot(next)] = NULL]
                                    ELSE @]
             ELSE SetMem(h, [h.mem EXCEPT ![NextSlot(prev)] = next])

(***************************************************************************)
(* delete_from_free_list: unlink b; the bucket is recomputed from b's      *)
(* current header, so b must still carry the size it was inserted with.   *)
(***************************************************************************)
DeleteFromFreeList(h, b) ==
    IF b = NULL THEN h
    ELSE LET seg == GetListIndex(GetSize(h.mem, b))
             next == Word(h.mem, NextSlot(b))
             prev == Word(h.mem, PrevSlot(b))
             m == h.mem
         IN  IF h.seg[seg] = b
             THEN [h EXCEPT !.seg[seg] = next,
                            !.mem = IF next # NULL
                                    THEN [m EXCEPT ![PrevSlot(next)] = NULL]
                                    ELSE m]
             ELSE LET m1 == [m EXCEPT ![NextSlot(prev)] = next]
                  IN  SetMem(h, IF next # NULL
                                THEN [m1 EXCEPT ![PrevSlot(next)] = prev]
                                ELSE m1)

\* Mutant: the list head is set to the payload pointer, not the block.
InsertToMiniFreeListPayload(h, b) ==
    IF b = NULL THEN h
    ELSE [h EXCEPT !.seg[0] = HeaderToPayload(b), !.mem[NextMiniSlot(b)] = h.seg[0]]

\* insert_to_mini_free_list: both branches leave next_mini = old head.
InsertToMiniFreeList(h, b) ==
    IF b = NULL THEN h
    ELSE [h EXCEPT !.seg[0] = b, !.mem[NextMiniSlot(b)] = h.seg[0]]

(***************************************************************************)
(* delete_from_mini_free_list walks from the head until next == b; the     *)
(* walk has no NULL test, so b must be on the list.  On a corrupt list    *)
(* the C walk faults or spins; the model then yields STRAY (a write to it *)
(* changes nothing), bounding a cyclic walk by the number of arena words. *)
(***************************************************************************)
RECURSIVE MiniPredecessor(_, _, _, _, _)
MiniPredecessor(m, prev, next, b, fuel) ==
    IF next = b THEN prev
    ELSE IF next \notin DOMAIN m \/ fuel = 0 THEN STRAY
    ELSE MiniPredecessor(m, next, Word(m, NextMiniSlot(next)), b, fuel - 1)

DeleteFromMiniFreeList(h, b) ==
    LET head == h.seg[0]
    IN  IF b = NULL \/ head = NULL THEN h
        ELSE IF head = b
        THEN [h EXCEPT !.seg[0] = Word(h.mem, NextMiniSlot(b))]
        ELSE LET prev == MiniPredecessor(h.mem, head,
                                         Word(h.mem, NextMiniSlot(head)), b,
                                         Cardinality(DOMAIN h.mem))
             IN  [h EXCEPT !.mem[NextMiniSlot(prev)] = Word(h.mem, NextMiniSlot(b))]

\* Mutant: the mini test off by one size class.
IsMiniUpTo32(h, b) == GetSize(h.mem, b) <= 2 * MIN_BLOCK_SIZE

IsMini(h, b) == GetSize(h.mem, b) = MIN_BLOCK_SIZE

InsertNormalOrMini(h, b) ==
    IF IsMini(h, b) THEN InsertToMiniFreeList(h, b) ELSE InsertToFreeList(h, b)

DeleteNormalOrMini(h, b) ==
    IF IsMini(h, b) THEN DeleteFromMiniFreeList(h, b) ELSE DeleteFromFreeList(h, b)
=============================================================================
