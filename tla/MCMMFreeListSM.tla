---------------------------- MODULE MCMMFreeListSM ----------------------------
(***************************************************************************)
(* Model-checking instance of MMFreeListSM: three mini blocks (the mini    *)
(* list's predecessor walk reaches head, middle and tail), three blocks of *)
(* bucket 1 (delete at head, middle and tail of a doubly linked list) and  *)
(* one of bucket 2.                                                        *)
(***************************************************************************)
EXTENDS MMFreeListSM

MCBlockSizes == <<16, 16, 16, 48, 64, 48, 128>>
=============================================================================
