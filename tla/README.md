# TLA+ models of the segregated-fit allocator (`src/mm.c`)

This directory holds a model-checking development for the dynamic memory
allocator in `src/mm.c`. It has TLA+ modules that translate the
allocator's functions, TLC configurations that check them, and
`PROJECT.json`, which lists the components, runs, mutants, the line map,
the findings and the hazards.

## 1. The system

`mm.c` is a single-threaded allocator over an arena that memlib
(`mem_sbrk`, `mem_memcpy`, `mem_memset`) grows. It is made of these parts:

| Part | Code | State it owns |
|------|------|---------------|
| Header codec | `pack`, `extract_*`, `get_*`, `write_block`, `update_block`, `write_epilogue` (lines 259–479, 757) | the header word: `size \| prev_mini<<2 \| prev_alloc<<1 \| alloc`; the footer of a free normal block |
| Block navigator | `find_next`, `find_prev`, `find_prev_footer`, `header_to_*`, `footer_to_header` (304–547) | none (reads headers and footers) |
| Size-class index | `get_list_index`, `s_list_*` (117–130, 565–623) | none (pure) |
| Free-list manager | `insert_to_free_list`, `delete_from_free_list`, the mini variants, `*_normal_or_mini` (630–790) | `segregated_free_list[15]`, plus the `prev`/`next` words inside free payloads |
| Coalescer | `coalesce_block` (802–871) | headers, footers and lists of neighbouring blocks |
| Placement engine | `find_fit` (bounded best-fit), `split_block`, `extend_heap` (879–1009) | the arena break through `mem_sbrk` |
| Public API | `mm_init`, `malloc`, `free`, `realloc`, `calloc` (1399–1626) | `heap_start` |
| Heap checker | `mm_checkheap` and `check_*` (1064–1391) | none (diagnostic) |
| memlib arena | `mem_sbrk`, `mem_memcpy`, `mem_memset` (outside `src/`) | the break |

Here is how the parts interact:
- Every public call runs to completion before the next one starts. The code has no threads, no callbacks and no signals, so the only interleaving is the order of the client's calls.
- `malloc` calls `find_fit`. If nothing fits, it calls `extend_heap`, which calls `coalesce_block`. It then calls `delete_normal_or_mini`, writes the header, updates the successor's flags and calls `split_block`, which may call `insert_normal_or_mini`.
- `free` writes the header and the successor's flags, then calls `coalesce_block`. That function deletes the free neighbours from their lists, writes the merged block, inserts it into a list and updates the flags of its successor.
- `realloc` is `malloc`, then `memcpy`, then `free`. `calloc` is an overflow test, then `malloc`, then `memset`.

These are the behaviours a unit test hardly reaches:
- Facts about a block live in three places: its own header, the header of its successor (`prev_alloc`, `prev_mini`) and, for a free normal block, its footer. Every operation must keep all three in step.
- `delete_from_free_list` computes the bucket from the block's *current* header. It must therefore run before the header is rewritten.
- A mini block (16 bytes) has no footer. `find_prev` depends on the `prev_mini` bit to step back over it.
- `mem_sbrk` can fail in the middle of `mm_init`, `malloc` or `realloc`.
- Size arithmetic can wrap around in `size_t`.

## 2. Modules

| Module | Models | State / actions |
|--------|--------|-----------------|
| `MMSize` | size arithmetic: `round_up`, malloc's adjusted size, `get_list_index`, calloc's product and its overflow test, with `size_t` taken modulo `2^SIZE_BITS` | operators only |
| `MMBlock` | header codec and block navigator over an arena `m` (word address → word) | operators only |
| `MMFreeList` | the free-list manager over an allocator state `h = [mem, brk, hs, seg]` | operators `h → h` |
| `MMHeap` | coalescer, placement engine, public API, and a client that writes data into every block it holds | `VARIABLES mem, brk, heap_start, seg, live`; one action per public call (`MmInit`, `Malloc`, `Free`, `Realloc`, `Calloc`) |
| `MMCheckHeap` | the heap checker: `mm_checkheap` and its twelve `check_*` helpers, each loop with its own continuation test, failure test and step; plus a fault model (a double free) | operators over `h`; `DoubleFree`, `FaultSpec` |
| `MMFindFitCheck` | `find_fit` against the spec's placement policy, over free lists built with `insert_normal_or_mini` | `VARIABLES mem, seg, nfree`; `Push(s)` |
| `MMFreeListSM` | the free-list manager on its own: insert and delete on a fixed set of free blocks in any order | `VARIABLES mem, seg`; `Insert(b)`, `Delete(b)` |
| `MMBuckets` | what the free-list manager promises: one LIFO stack per bucket | `VARIABLE lists`; `Push`, `Take` |
| `MCMMFreeListSM` | seven blocks for `MMFreeListSM` | — |
| `MMAlloc` | the abstract allocator: a map from payload to size, inside an arena that only grows | `VARIABLES alloc, top`; `Step` |
| `MMSizeCheck` | compares `MMSize` with reference definitions over every input in range; an 8-bit instance `Narrow` for the calloc pairs | `VARIABLE n` (the input) |
| `MCMMHeap` | model values for `MMHeap` and `MMCheckHeap` | — |

How `MMHeap` corresponds to the code:
- Each C function is an operator whose callees are the operators of the functions it calls. The calls compose exactly as in the C code, so a whole public call is one TLA+ step.
- For example, `MallocOp` calls `MmInitOp` when `heap_start` is NULL, then `AdjustSize`, `FindFit`, `ExtendHeap`, `DeleteNormalOrMini`, `WriteBlock`, `SetNextFlags` and `SplitBlock`, in the code's order and with the code's early returns.
- A C function that continues after a call returns is written as a chain of stage operators. The state after the call is passed as a parameter to the next stage: for example, `MallocOp` passes to `MallocInited`, then `MallocFit`, `MallocPlace` and `MallocMark`. Each intermediate state is thus computed once, and TLC's coverage instrumentation stays small.
- Reads outside the arena are undefined behaviour in C. `Word` makes them return a junk word so that a corrupted heap in a mutant is still a state.
- The client (`live`) records the pointer, the requested size and a tag for each block it holds, and writes the tag into the requested bytes. A write by the allocator into a live payload therefore shows up as a changed word.
- The client frees or reallocates only pointers it holds. A double free is undefined behaviour; only the fault model of `MMCheckHeap` explores it.

How `MMCheckHeap` corresponds to the code:
- Every `check_*` helper is a loop `while (cont) { if (bad) return false; step; } return true;`. The operator `Loop` takes the three parts as operator arguments, and each helper passes its own (for example `CheckHeaderFooterMatch` continues only while the block is free and larger than 16 bytes).
- `get_size` returns a `size_t`, so sizes are compared through `SizeT`. A pointer step by a corrupted size wraps exactly as the model's integer step does.
- A loop that takes more steps than the arena has words has revisited a state and, being deterministic, never ends. Its outcome is `HANG`.
- `HeapChecks` and `ListChecks` are the outcomes of the seven heap checks and the five checks of each list 1..14, in the code's order. `MmCheckheap` is what the C function returns: a hang if any loop hangs, else the last outcome. `AndVerdict` is what the spec asks for: false if any sub-check fails.
- `ListBroken(i)` holds when list `i`, read along its links, is cyclic or leaves the arena.
- `DoubleFree(p)` is `free` applied to a payload whose block is already free. `FaultSpec` adds it to `Next`.

How `MMFindFitCheck` corresponds to the code:
- `find_fit` reads only the list heads, the headers of listed blocks and their `free.next` words. The module builds lists with the model's own `InsertNormalOrMini`, one block per 32-byte slot, without the blocks around them. Every order of blocks on the lists arises this way, as it does in a heap large enough to hold them.
- `SpecFindFit` is the spec's wording of the policy: the first `SEARCH_LIMIT` entries of each bucket from the request's own, in order, with the early return at `CLOSE_ENOUGH`.

## 3. Runs

| Run | Config | Checks | Result |
|-----|--------|--------|--------|
| `heap_safety` | `MCMMHeap.cfg` | `TypeOK`, `HeapConsistent`, `FreeListsExact`, `ClientDataIntact`, `FreedBlockReused` | pass |
| `heap_refinement` | `MCMMHeapRefine.cfg` | `DebugChecksPass`, `AllocatorRefinement` (MMHeap implements MMAlloc) | pass |
| `size_classes` | `MCMMSizeIndex.cfg` on `MMSizeCheck` | `ListIndexMatchesSpec`, `AdjustSizeMinimal` for every size up to 524352; `CallocRejectsExactlyOverflow` for every pair at an 8-bit `size_t` (the instance `Narrow`) | pass |
| `heap_wrap` | `MCMMHeapWrap.cfg` | `HeapConsistent` with `malloc(240)` at an 8-bit `size_t` | violation (a code bug) |
| `free_list_refinement` | `MCMMFreeListSM.cfg` | `FreeListRefinement` (MMFreeListSM implements MMBuckets) | pass |
| `checkheap_overwrite` | `MCMMCheckHeapWrap.cfg` | `CheckheapReportsFailure` on the heap the wrapped malloc leaves | violation (spec divergence) |
| `checkheap_cycle_hang` | `MCMMCheckHeapFault.cfg` | `CheckheapTerminates` under `FaultSpec` | violation (a code bug) |
| `find_fit_bounded` | `MCMMFindFit.cfg` on `MMFindFitCheck` | `FindFitNeverSkipsLargerBucket` | pass |
| `find_fit_policy` | `MCMMFindFitSpec.cfg` on `MMFindFitCheck` | `FindFitNoWorseThanSpec` | violation (spec divergence) |
| `heap_reinit` | `MCMMHeapReInit.cfg` | `MmInitIdempotent` under `ReInitSpec` | violation (spec divergence) |
| `oom_init_residue` | `MCMMHeapOOM.cfg` | `MallocOutOfMemoryUnchanged` in a 48-byte arena | violation (spec divergence) |
| `checkheap_mini_cycle` | `MCMMCheckHeapMini.cfg` | `CheckheapTrapsBrokenLists` under `FaultSpec` | violation (spec divergence) |

What the properties say:
- **`HeapConsistent`**: the walk along the implicit list ends at the epilogue. Every block's size and alignment are right. Each header's `prev_alloc` and `prev_mini` bits describe the block before it. A free block's footer equals its header. No two free blocks are adjacent.
- **`FreeListsExact`**: the lists hold exactly the free blocks, each once, in the right bucket, with consistent `prev` links.
- **`ClientDataIntact`**: the client's data is never overwritten. Every block is at least as large as the request, and `realloc` preserves the data it copies.
- **`AllocatorRefinement`**: read through the block headers, each call adds at most one allocation, disjoint from the others and inside the arena. Each call removes at most one allocation, keeps every other allocation as it was, and never shrinks the arena.

- **`FreeListRefinement`**: read along its links, each list is the LIFO stack of `MMBuckets`. An insert puts the block on top of its bucket, and a delete takes it out and leaves the rest in order. This holds over every history of inserts and deletes of three mini blocks, three bucket-1 blocks and one bucket-2 block, so the predecessor walk of `delete_from_mini_free_list` and the in-place relinking of `delete_from_free_list` are checked at head, middle and tail. The refinement mapping is `lists <- Lists`, the chains read from `seg` along `next_mini` or `free.next`.
- **`DebugChecksPass`**: on every reachable heap, every sub-check of `mm_checkheap` passes and ends. A debug build's `dbg_requires` and `dbg_ensures` around malloc and free therefore never abort, even if the checker took the AND of its results.
- **`FindFitNeverSkipsLargerBucket`**: `find_fit` returns a listed block from the request's bucket or above that is large enough. It returns NULL only when every bucket above the request's is empty. The shared counter never makes the scan skip a non-empty bucket, because each bucket's head is examined however the counter stands.

- **`FreedBlockReused`** (spec scenario 7): in every reachable state, for every block the client holds, `free` followed by `malloc` of the same request never moves the break. It fails if `free` files the coalesced block in a list that `find_fit` does not scan for that size, or if `find_fit` gives up before reaching it. The mutant files 32-byte blocks on the mini list.

Every property has a mutant in `PROJECT.json`: a plausible bug in the mapped code that TLC must catch under the run's own configuration.

**Finding.** This is a code bug in malloc:
- `asize = round_up(size + wsize, dsize)` (line 1462) wraps for the 24 largest sizes below `SIZE_MAX + 1` that it accepts (in 64 bits, `size > SIZE_MAX - 23`).
- The result is an `asize` of 0 or 16. Take 0: `find_fit` returns a block, and `split_block` writes a size-0 header over it (line 940). `find_next` of a size-0 block is the block itself, so line 944 rewrites that header as a free block of the whole size, and line 955 puts it on its list.
- malloc then returns a pointer into a block that is still free and still listed, which a later malloc can hand out again. The client's 240-byte write overwrites the block's links and footer and the words after it, which is where `HeapConsistent` fails.
- This happens in the release build. In a debug build, `write_block`'s `dbg_requires(size > 0)` (line 470) aborts instead.
- TLC finds this in two steps (`mm_init`, then `malloc(240)` with `SIZE_MAX = 255`).

**Findings of this sitting's runs.**
- `checkheap_overwrite` (spec divergence, line 1390). `mm_checkheap` assigns each sub-check to one variable and returns the last, `check_bucket` of list 14. On the heap left by the wrapped `malloc(240)` and a `realloc`, `check_epilogue`, `check_header_footer_match` and `check_contiguous_free_blocks` fail, yet `mm_checkheap` returns true. The spec (section 9) asks for the AND of all results.
- `checkheap_cycle_hang` (code bug, line 1236). A double free of a block that is the head of its list pushes it again, so its `free.next` points to itself. `check_cycle` reports the cycle, but `mm_checkheap` goes on to `check_alloc`, whose loop has no bound and never returns. A debug build hangs instead of trapping the error. TLC finds this in two steps: `mm_init`, then a free of the initial free block.
- `find_fit_policy` (spec divergence, line 997). `FindFitNoWorseThanSpec` asks that `find_fit` never fits worse than the spec's policy. It must find a block whenever the spec's scan does, and return one whose surplus is at most `CLOSE_ENOUGH` or no larger than the spec's choice.
  - The code breaks a bucket only when `cont > SEARCH_LIMIT`, and it resets `cont` there but not when a list ends. It therefore examines 12 entries of a bucket entered with `cont = 0`, but only 9 of a bucket entered with `cont = 3`.
  - TLC's example: three 48-byte blocks on bucket 1, then bucket 2 holding nine 128-byte blocks and a 96-byte block in tenth place. `find_fit(64)` returns a 128-byte block with surplus 64. The spec's scan, 10 entries per bucket, returns the 96-byte block with surplus 32.
  - The code can also fit better than the spec: with ten 48-byte blocks and then a 64-byte block on bucket 1, it finds the 11th entry where the spec's scan finds nothing. The property allows that, so the violation is only the case where the code fits worse.
- `oom_init_residue` (spec divergence, line 1419). In a 48-byte arena, `malloc(8)` as the first call runs `mm_init`. That takes 16 bytes for the prologue and epilogue and sets `heap_start`; then `extend_heap(48)` fails. malloc returns NULL, but the break has moved and `heap_start` is set. Spec sections 5 and 7 say a failed extend leaves the internal state unchanged. The residue is a valid empty heap, so no later call goes wrong. Every later malloc extends by at least `chunksize` and fails in the same way.
- `checkheap_mini_cycle` (spec divergence, line 1368). The list loop of `mm_checkheap` starts at 1 ("skip the mini free list"). After a double free of a 16-byte block whose neighbours are allocated, the block is pushed onto list 0 a second time, so its `next_mini` points to itself. Every sub-check still passes. The spec gives the checker the invariants of section 8; I7 says the mini list is acyclic, and section 7 says a debug build may trap a double free through the checker. `CheckheapTrapsBrokenLists` uses the AND of the sub-checks, so the overwrite finding above plays no part in this one.
- Spec gap (line 910, run `heap_safety`). The spec's open question says that `prev_mini = true ? cond : false` equals `prev_mini = true`. In C, `=` binds looser than `?:`, so the expression is the condition itself. `HeapConsistent` checks that every header's `prev_mini` tells whether its predecessor is 16 bytes, and it holds.
- `heap_reinit` (spec divergence, line 1401). A second `mm_init` clears the list heads, builds a new prologue and epilogue at the break and moves `heap_start` there, so the old heap is lost. The spec says `init` is idempotent on success.

## 4. Bounds and why they are enough

`MCMMHeap.cfg` uses these bounds:
- `HEAP_LO = 32`, `MAX_HEAP = 112` bytes (7 blocks of 16), `CHUNKSIZE = 48`, and the code's own `SEARCH_LIMIT = 10` and `CLOSE_ENOUGH = 46`.
- Requests {8, 24, 56} give adjusted sizes 16 (mini), 32 (bucket 1) and 64 (bucket 1, larger than `CHUNKSIZE`, so that `extend_heap(asize)` happens). Size 0 takes malloc's early return and realloc's free path.
- calloc is called as `calloc(0, 8)` (rejected) and `calloc(2, 12)` (24 zeroed bytes).

These bounds reach every case that matters:
- all four coalescing cases, including a mini predecessor, which makes `find_prev` use `prev_mini`;
- a split with a mini remainder and one with a normal remainder;
- an extension that merges with a free last block;
- `mem_sbrk` failing inside `malloc` and `realloc`. `mm_init`'s own failure needs an arena smaller than 64 bytes, which `MCMMHeapOOM.cfg` (48 bytes) provides for the violation run.
- a realloc that moves a block, and one whose malloc fails.

One case the heap runs do not reach is a `find_fit` scan that keeps a fitting block with a surplus above `CLOSE_ENOUGH` and later replaces it with a better one. In a 112-byte arena a fitting block is always within 46 bytes, or is the only one. That part of the policy is checked in `MMFindFitCheck`, whose lists are long enough.

Bucket 0 and bucket 1 both hold several blocks at once, so deleting from the middle and from the head of a list both happen.

`find_fit`'s limit of 10 cannot be reached with 7 blocks, so `MMFindFitCheck` checks it separately:
- up to 13 free blocks (`MAX_FREE`), enough for a first bucket of 12 entries plus one more list;
- bucket 1 holds any sequence of 48-byte blocks (too small for a 64-byte request) and 64-byte blocks (an exact fit);
- bucket 2 and the mini list hold at most one block each (`LONG_LISTS = {1}`). Of the mini list `find_fit` reads only the head, and a list above the request's bucket matters only by being empty or not;
- the requests are 16 (the mini path) and 64;
- the `VIEW` keeps the sequence of sizes on each list. Blocks pushed in another order get other addresses, but `find_fit` never reads addresses beyond the links;
- the construction stops at `MAX_FREE` blocks, hence `CHECK_DEADLOCK FALSE` in these two configurations.

`MCMMFindFitSpec.cfg` lets bucket 2 grow as well (`LONG_LISTS = {1, 2}`, up to 14 blocks, sizes 48, 96 and 128, request 64). A later bucket is cut short only after the first bucket has used part of the counter, and a shorter scan matters only when a better block sits behind nine or more worse ones. This needs at least 3 + 10 blocks.

`MCMMFreeListSM` has seven blocks: three of 16 bytes, 48, 64 and 48 bytes (bucket 1) and 128 bytes (bucket 2). Three blocks per list are the fewest for which a delete happens at the head, in the middle and at the tail, and for which a stale back link left by one delete is followed by a later one. The run explores all 79,968 states, with no VIEW, so stale link words of unlisted blocks are kept.

`SIZE_BITS = 20` keeps every address and size of the heap runs exact. The wrap run lowers it to 8 so that a request near `SIZE_MAX` fits in the arena arithmetic.

The `MMSizeCheck` runs are exhaustive over their whole input range. For the size classes, that range is every size up to twice the largest bucket bound.

`VIEW View` keeps only the words a correct call can read: headers, the prologue and epilogue, the footers and links of free blocks, and live client bytes. `mm.c` never reads the stale words of an allocated or absorbed block, so states that differ only in those words behave the same.

## 5. Fairness

There is no temporal liveness property and no fairness assumption. The
allocator is a library called by one thread. It has no process, message
or timer that the code obliges to take a step, and the client may stop
calling at any time, so no weak fairness on any action is justified
(stuttering is a real behaviour here). Every
call of a correct heap is bounded: the list walks are bounded by the heap,
and `find_fit` by its counter. The one termination question is the
checker's, and it is a property of a single call, so `CheckheapTerminates`
states it as an invariant over the outcome of each loop. The allocator takes no step of its own; the client decides
whether to call. Deadlock is still checked: a client can always call
`malloc(0)` or `free(NULL)`.

## 6. Not modelled

- **`mm_checkheap` before `mm_init`.** It reads the word before a NULL `heap_start`. The spec requires `init` before any other call, so the heap-checker properties assume `heap_start # NULL`.
- **The state after a failed `mm_init` as a passing run.** An arena too small for `mm_init` has three reachable states, too few for a run. `oom_init_residue` checks the failure itself.
- **Debug printing and `print_heap`.** They are pure output.
- **memlib.** It lies outside `src/`. The parts `mm.c` calls are modelled from the spec's arena contract and marked `spec_modelled`: `MemSbrk`, the arena bounds `HeapLo` and `HeapHi`, `MemCpy` and `MemSetZero`. `mem_init`, `mem_deinit` and `mem_reset_brk` are the driver's and are not modelled, so the component stays "partly". The model's `Init` is the state `mem_init` leaves.
- **What the map leaves out of `mm.c`.** The unmapped lines are comments, the `#define` constants and debug macros, and the commented-out first-fit `find_fit`. None of them is code that changes state, so no further part of `mm.c` is left to translate.
- **The first-fit `find_fit` in the comment at line 1011.** It is not compiled.
- **64-bit widths in the heap runs.** The runs use a 20-bit `size_t`. Only the wrap finding depends on the width, and `SIZE_BITS` is a parameter.

## 7. Plan for later work

1. Check more of `mm_checkheap`'s completeness. `checkheap_mini_cycle` covers the mini list. `check_header_footer_match` stops at the first allocated block, so a stale footer later in the heap would go unnoticed. A double free rewrites header and footer together, so reaching a stale footer needs another fault model: a client writing into a block it has freed.
2. Speed up `heap_refinement` (about 225 s with coverage). Most of the time goes to evaluating the refinement mapping `AllocMap` in both states of every step.
