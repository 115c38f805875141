------------------------------ MODULE MMBuckets ------------------------------
(***************************************************************************)
(* What the free-list manager promises: each bucket is a LIFO stack of     *)
(* blocks.  A block that is on no list can be pushed onto the top of the   *)
(* stack of its bucket; a listed block can be taken out from wherever it   *)
(* is, leaving the others in their order.                                  *)
(***************************************************************************)
EXTENDS Sequences

CONSTANTS
    Blocks,     \* the blocks that can be listed
    Buckets,    \* the list indices
    BucketOf    \* Blocks -> Buckets: the list a block belongs on

VARIABLE lists  \* Buckets -> Seq(Blocks), top of the stack first

Listed == UNION {{lists[i][k] : k \in DOMAIN lists[i]} : i \in Buckets}

Init == lists = [i \in Buckets |-> <<>>]

Push(b) ==
    /\ b \notin Listed
    /\ lists' = [lists EXCEPT ![BucketOf[b]] = <<b>> \o @]

Take(b) ==
    /\ b \in Listed
    /\ lists' = [lists EXCEPT ![BucketOf[b]] = SelectSeq(@, LAMBDA x : x # b)]

Next == \E b \in Blocks : Push(b) \/ Take(b)

Spec == Init /\ [][Next]_lists
=============================================================================
