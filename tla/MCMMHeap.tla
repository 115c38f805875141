------------------------------ MODULE MCMMHeap ------------------------------
(***************************************************************************)
(* Model-checking instance of MMHeap: an arena of a few 16-byte units with *)
(* request sizes that produce mini blocks, normal blocks of buckets 1 and  *)
(* 2, splits with a mini remainder, extensions larger than chunksize, and  *)
(* out-of-memory failures of mem_sbrk.                                     *)
(***************************************************************************)
EXTENDS MMCheckHeap

\* calloc(0, 8) is rejected; calloc(2, 12) asks for 24 zeroed bytes.
MCCallocRequests == {<<0, 8>>, <<2, 12>>}
MCRequests == {8, 24, 56}
\* At an 8-bit size_t, 240 is within 23 of SIZE_MAX: size + wsize wraps.
MCWrapRequests == {8, 240}
MCJunk == -1
=============================================================================
