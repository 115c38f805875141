------------------------------- MODULE MMAlloc -------------------------------
(***************************************************************************)
(* What the allocator promises its client, independent of block layout:    *)
(* a set of allocations, each a 16-aligned payload of some number of bytes *)
(* inside an arena that only grows.  A call hands out one new allocation   *)
(* disjoint from the others (malloc, calloc), takes one back (free), or    *)
(* both at once (realloc); no call moves, resizes or takes back an         *)
(* allocation the client did not pass to it.                               *)
(***************************************************************************)
EXTENDS Integers, FiniteSets

CONSTANTS
    LO,         \* first byte of the arena
    Payloads    \* addresses a payload may start at

VARIABLES
    alloc,      \* payload address -> payload bytes of each allocation
    top         \* bytes of the arena in use

avars == <<alloc, top>>

\* Payload p of n bytes lies in the arena of t bytes and overlaps nothing in a.
Fits(a, t, p, n) ==
    /\ p % 16 = 0
    /\ LO < p /\ p + n <= LO + t
    /\ \A q \in DOMAIN a : p + n <= q \/ q + a[q] <= p

\* a restricted to the payloads in s.
Restrict(a, s) == [p \in s |-> a[p]]

(***************************************************************************)
(* A step from allocations a, arena t to allocations b, arena u: the       *)
(* payloads that disappear (gone) and appear (new) number at most one      *)
(* each, every other allocation keeps its size, a new one fits among the   *)
(* ones that remain, and only a call that hands out nothing and takes      *)
(* nothing back may grow the arena without allocating (mm_init, or a       *)
(* call whose extension succeeded but which failed later).                 *)
(***************************************************************************)
Step(a, t, b, u) ==
    LET gone == DOMAIN a \ DOMAIN b
        new == DOMAIN b \ DOMAIN a
        kept == DOMAIN a \cap DOMAIN b
    IN  /\ u >= t
        /\ \A p \in kept : a[p] = b[p]
        /\ \A p \in new : p \in Payloads /\ Fits(Restrict(a, kept), u, p, b[p])
        /\ \/ gone = {} /\ new = {}                   \* Grow
           \/ \E p \in gone : gone = {p} /\ new = {} /\ u = t   \* Release
           \/ \E q \in new : new = {q} /\ Cardinality(gone) <= 1 \* Allocate, Move

Init == alloc = [p \in {} |-> 0] /\ top = 0

Next == Step(alloc, top, alloc', top')

Spec == Init /\ [][Next]_avars
=============================================================================
