------------------------------- MODULE MMBlock -------------------------------
(***************************************************************************)
(* The packed header codec and the block navigator of mm.c.  The arena is  *)
(* a function m from word-aligned byte addresses to 64-bit words; a block  *)
(* is named by the address of its header word.  Layout of a block b:      *)
(*   b          header (size | prev_mini<<2 | prev_alloc<<1 | alloc)        *)
(*   b + 8      payload; free.prev of a free normal block; next_mini of a   *)
(*              free mini block                                            *)
(*   b + 16     free.next of a free normal block                           *)
(*   b+size-8   footer of a free normal block (a copy of the header)       *)
(***************************************************************************)
EXTENDS MMSize

Bit(b) == IF b THEN 1 ELSE 0

\* The word at address a.  A read outside the arena is undefined behaviour
\* in C; the model lets it yield the junk word -1 rather than stop.
STRAY == -1
Word(m, a) == IF a \in DOMAIN m THEN m[a] ELSE STRAY

\* pack: size is a multiple of 16, so OR-ing the masks 0x1, 0x2, 0x4 adds.
Pack(size, alloc, prev_alloc, prev_mini) ==
    size + Bit(alloc) + 2 * Bit(prev_alloc) + 4 * Bit(prev_mini)

\* The extractors: word & ~0xF, word & 0x1, word & 0x2, word & 0x4.
ExtractSize(w) == w - (w % 16)
ExtractAlloc(w) == w % 2 = 1
ExtractPrevAlloc(w) == (w \div 2) % 2 = 1
ExtractPrevMini(w) == (w \div 4) % 2 = 1

GetSize(m, b) == ExtractSize(Word(m, b))
GetAlloc(m, b) == ExtractAlloc(Word(m, b))
GetPrevAlloc(m, b) == ExtractPrevAlloc(Word(m, b))
GetPrevMini(m, b) == ExtractPrevMini(Word(m, b))
GetPayloadSize(m, b) == GetSize(m, b) - WSIZE

\* The words of the union inside the payload.
PrevSlot(b) == b + WSIZE              \* block->free.prev
NextSlot(b) == b + 2 * WSIZE          \* block->free.next
NextMiniSlot(b) == b + WSIZE          \* block->mini_free.next_mini

PayloadToHeader(bp) == bp - WSIZE
HeaderToPayload(b) == b + WSIZE
HeaderToFooter(m, b) == HeaderToPayload(b) + GetSize(m, b) - DSIZE
FooterToHeader(m, f) == f + WSIZE - ExtractSize(Word(m, f))

FindNext(m, b) == b + GetSize(m, b)
FindPrevFooter(b) == b - WSIZE

(***************************************************************************)
(* find_prev: a mini predecessor is 16 bytes back (it has no footer);      *)
(* otherwise the word before the header is read as the predecessor's      *)
(* footer, and a size-0 footer (the prologue) means there is none.         *)
(***************************************************************************)
FindPrev(m, b) ==
    IF GetPrevMini(m, b) THEN b - MIN_BLOCK_SIZE
    ELSE IF ExtractSize(Word(m, FindPrevFooter(b))) = 0 THEN NULL
    ELSE FooterToHeader(m, FindPrevFooter(b))

(***************************************************************************)
(* write_block writes the header, and the footer only for a free block     *)
(* larger than the minimum; update_block and write_epilogue write only the *)
(* header word.                                                            *)
(***************************************************************************)
WriteBlock(m, b, size, alloc, prev_alloc, prev_mini) ==
    LET w == Pack(size, alloc, prev_alloc, prev_mini)
        mh == [m EXCEPT ![b] = w]
    IN  IF ~alloc /\ size > MIN_BLOCK_SIZE
        THEN [mh EXCEPT ![HeaderToPayload(b) + size - DSIZE] = w]
        ELSE mh

UpdateBlock(m, b, size, alloc, prev_alloc, prev_mini) ==
    [m EXCEPT ![b] = Pack(size, alloc, prev_alloc, prev_mini)]

WriteEpilogue(m, b, prev_alloc, prev_mini) ==
    [m EXCEPT ![b] = Pack(0, TRUE, prev_alloc, prev_mini)]

\* Rewrites the header of b's physical successor with new previous-block flags.
SetNextFlags(m, b, prev_alloc, prev_mini) ==
    LET n == FindNext(m, b)
    IN  UpdateBlock(m, n, GetSize(m, n), GetAlloc(m, n), prev_alloc, prev_mini)
=============================================================================
