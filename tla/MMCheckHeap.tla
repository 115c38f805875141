----------------------------- MODULE MMCheckHeap -----------------------------
(***************************************************************************)
(* The heap checker of mm.c: mm_checkheap and its check_* helpers, over    *)
(* an allocator state h of MMHeap.  Every helper is a loop of the form     *)
(*     while (cont(s)) { if (bad(s)) return false; s = succ(s); }          *)
(*     return true;                                                        *)
(* over a loop state s (a block, or a pair of blocks).  A loop that visits *)
(* more states than the arena has words revisits one and, being           *)
(* deterministic, never ends: its outcome is HANG.  Sizes are read as the  *)
(* size_t that get_size returns.                                           *)
(***************************************************************************)
EXTENDS MMHeap

PASS == "pass"
FAIL == "fail"
HANG == "hang"

\* The loop bound: more iterations than arena words means a repeated state.
FUEL == Cardinality(Addr) + 1

RECURSIVE Loop(_, _, _, _, _)
Loop(s, Cont(_), Bad(_), Succ(_), fuel) ==
    IF ~Cont(s) THEN PASS
    ELSE IF Bad(s) THEN FAIL
    ELSE IF fuel = 0 THEN HANG
    ELSE Loop(Succ(s), Cont, Bad, Succ, fuel - 1)

\* get_size as the unsigned size_t the C code compares.
USize(m, b) == SizeT(GetSize(m, b))

\* mem_heap_lo() and mem_heap_hi() of memlib: the first and last arena byte.
HeapLo == HEAP_LO
HeapHi(h) == HEAP_LO + h.brk - 1

OutsideHeap(h, b) == b < HeapLo \/ b > HeapHi(h)

FreeNext(h, b) == Word(h.mem, NextSlot(b))      \* block->free.next

CheckPrologue(h, prologue) ==
    IF ExtractSize(Word(h.mem, prologue)) # 0 \/ ~ExtractAlloc(Word(h.mem, prologue))
    THEN FAIL ELSE PASS

\* check_epilogue: walk find_next to the first size-0 header, then test it.
RECURSIVE EpilogueOf(_, _, _)
EpilogueOf(m, b, fuel) ==
    IF USize(m, b) = 0 \/ fuel = 0 THEN b ELSE EpilogueOf(m, FindNext(m, b), fuel - 1)

CheckEpilogueAt(h, e) ==
    IF USize(h.mem, e) # 0 THEN HANG
    ELSE IF ~GetAlloc(h.mem, e) THEN FAIL ELSE PASS

CheckEpilogue(h, epilogue) == CheckEpilogueAt(h, EpilogueOf(h.mem, epilogue, FUEL))

\* The implicit-list walks: while (get_size(block) > 0) ... find_next.
HeapLoop(h, block, Bad(_)) ==
    Loop(block, LAMBDA b : USize(h.mem, b) > 0, Bad, LAMBDA b : FindNext(h.mem, b), FUEL)

CheckLieWithinHeap(h, block) == HeapLoop(h, block, LAMBDA b : OutsideHeap(h, b))

CheckBlockAlignment(h, block) ==
    HeapLoop(h, block, LAMBDA b : USize(h.mem, b) % DSIZE # 0)

CheckMinimumBlockSize(h, block) ==
    HeapLoop(h, block, LAMBDA b : USize(h.mem, b) < MIN_BLOCK_SIZE)

\* check_header_footer_match stops at the first block that is allocated
\* or mini: only the run of free normal blocks at heap_start is compared.
CheckHeaderFooterMatch(h, block) ==
    Loop(block,
         LAMBDA b : USize(h.mem, b) > MIN_BLOCK_SIZE /\ ~GetAlloc(h.mem, b),
         LAMBDA b : USize(h.mem, b) # ExtractSize(Word(h.mem, HeaderToFooter(h.mem, b))),
         LAMBDA b : FindNext(h.mem, b), FUEL)

\* check_contiguous_free_blocks over the pair s = <<prev, curr>>.
CheckContiguousFreeBlocks(h, prev, curr) ==
    Loop(<<prev, curr>>,
         LAMBDA s : USize(h.mem, s[2]) > 0,
         LAMBDA s : ~GetAlloc(h.mem, s[2]) /\ ~GetAlloc(h.mem, s[1]),
         LAMBDA s : <<s[2], FindNext(h.mem, s[2])>>, FUEL)

\* check_cycle: Floyd's hare and tortoise, s = <<hare, tortoise>>; the
\* meeting test follows the move, so it is the test of the moved pair.
CycleStep(h, s) == <<FreeNext(h, FreeNext(h, s[1])), FreeNext(h, s[2])>>

CheckCycle(h, list) ==
    Loop(<<list, list>>,
         LAMBDA s : s[1] # NULL /\ FreeNext(h, s[1]) # NULL,
         LAMBDA s : CycleStep(h, s)[1] = CycleStep(h, s)[2],
         LAMBDA s : CycleStep(h, s), FUEL)

\* The free-list walks: while (block != NULL) ... block->free.next.
ListLoop(h, list, Bad(_)) ==
    Loop(list, LAMBDA b : b # NULL, Bad, LAMBDA b : FreeNext(h, b), FUEL)

CheckAlloc(h, list) == ListLoop(h, list, LAMBDA b : GetAlloc(h.mem, b))

CheckBounds(h, list) == ListLoop(h, list, LAMBDA b : OutsideHeap(h, b))

CheckConsecutive(h, list) ==
    Loop(list,
         LAMBDA b : b # NULL /\ FreeNext(h, b) # NULL,
         LAMBDA b : Word(h.mem, PrevSlot(FreeNext(h, b))) # b,
         LAMBDA b : FreeNext(h, b), FUEL)

CheckBucket(h, list) ==
    IF list = NULL THEN PASS
    ELSE ListLoop(h, list,
                  LAMBDA b : GetListIndex(USize(h.mem, b)) # GetListIndex(USize(h.mem, list)))

(***************************************************************************)
(* mm_checkheap runs its sub-checks in this order, each assigned to the    *)
(* same variable `consistent`: seven over the implicit list from           *)
(* heap_start (HeapChecks), then five for each of the lists 1 .. 14, the   *)
(* mini list being skipped (ListChecks).                                   *)
(***************************************************************************)
HeapChecks(h) ==
    <<CheckPrologue(h, h.hs - WSIZE), CheckEpilogue(h, h.hs),
      CheckLieWithinHeap(h, h.hs), CheckBlockAlignment(h, h.hs),
      CheckHeaderFooterMatch(h, h.hs), CheckMinimumBlockSize(h, h.hs),
      CheckContiguousFreeBlocks(h, h.hs, FindNext(h.mem, h.hs))>>

ListChecks(h) ==
    [i \in 1 .. SEG_LIST_NUM - 1 |->
       <<CheckCycle(h, h.seg[i]), CheckAlloc(h, h.seg[i]), CheckBounds(h, h.seg[i]),
         CheckConsecutive(h, h.seg[i]), CheckBucket(h, h.seg[i])>>]

\* The outcomes of all sub-checks, given hc = HeapChecks(h), lc = ListChecks(h).
Outcomes(hc, lc) == {hc[k] : k \in DOMAIN hc} \cup {lc[i][k] : i \in DOMAIN lc, k \in 1 .. 5}

\* What mm_checkheap returns: a loop that never ends hangs the call;
\* otherwise the last assignment, check_bucket of list 14, wins.
MmCheckheap(hc, lc) ==
    IF HANG \in Outcomes(hc, lc) THEN HANG ELSE lc[SEG_LIST_NUM - 1][5]

\* The verdict the spec asks of the checker (section 9): false as soon as
\* any sub-check fails, the logical AND of all of them.
AndVerdict(hc, lc) ==
    IF HANG \in Outcomes(hc, lc) THEN HANG
    ELSE IF FAIL \in Outcomes(hc, lc) THEN FAIL ELSE PASS

-----------------------------------------------------------------------------
(***************************************************************************)
(* A debug build asserts mm_checkheap at the entry and exit of malloc and  *)
(* free (dbg_requires, dbg_ensures).  On every heap the client's calls     *)
(* reach, each sub-check passes and ends, so no such assertion aborts and  *)
(* the checker would pass even with the AND of its results.                *)
(***************************************************************************)
DebugChecksPass ==
    heap_start # NULL => Outcomes(HeapChecks(St), ListChecks(St)) = {PASS}

(***************************************************************************)
(* A fault model: the client may also free a pointer whose block is free  *)
(* already, a double free (or the free of a pointer malloc never returned, *)
(* which reaches the same code).  The spec leaves it undefined and says a  *)
(* debug build may trap it through the checker; the step is what free does *)
(* with it.                                                                *)
(***************************************************************************)
DoubleFree(p) ==
    /\ p \in {HeaderToPayload(b) : b \in FreeBlocks}
    /\ Commit(FreeOp(St, p))
    /\ UNCHANGED live

FaultNext == Next \/ \E b \in BlockAddr : DoubleFree(HeaderToPayload(b))

FaultSpec == Init /\ [][FaultNext]_vars

(***************************************************************************)
(* mm_checkheap returns: every call ends with a verdict (the spec's        *)
(* check_heap -> consistent?), so a debug build can trap a corrupted heap. *)
(* check_cycle finds a cycle in a list, but its result is overwritten and *)
(* check_alloc, check_bounds and check_consecutive then walk the cycle.   *)
(***************************************************************************)
CheckheapTerminates ==
    heap_start # NULL => MmCheckheap(HeapChecks(St), ListChecks(St)) # HANG

(***************************************************************************)
(* mm_checkheap returns false when any sub-check fails (spec section 9:    *)
(* the logical AND).  The code assigns every result to one variable, so it *)
(* returns check_bucket's verdict on list 14 alone.                        *)
(***************************************************************************)
CheckheapReportsFailure ==
    heap_start # NULL =>
        MmCheckheap(HeapChecks(St), ListChecks(St)) = AndVerdict(HeapChecks(St), ListChecks(St))
\* A free list that does not end in NULL within the arena: it runs into a
\* cycle or leaves the arena (Chain ends in a word that is no block).
ListBroken(i) == List(i) # <<>> /\ List(i)[Len(List(i))] = SBRK_FAIL

(***************************************************************************)
(* The checker traps a broken free list (spec I7 and I8: every list ends  *)
(* in NULL inside the arena, the mini list is acyclic; section 7: a debug  *)
(* build may trap a double free through the checker): whenever a list is  *)
(* cyclic or leaves the arena, some sub-check of mm_checkheap fails or     *)
(* hangs.  The code's list loop starts at 1, skipping the mini list.       *)
(***************************************************************************)
CheckheapTrapsBrokenLists ==
    (heap_start # NULL /\ \E i \in 0 .. SEG_LIST_NUM - 1 : ListBroken(i))
        => AndVerdict(HeapChecks(St), ListChecks(St)) # PASS
=============================================================================
