--------------------------- MODULE MCSharedServer ---------------------------
(***************************************************************************)
(* Two ports of one host, whose sessions share a chain, and two hosts: one *)
(* that is mistaken for it and one that is not.                            *)
(***************************************************************************)
EXTENDS SharedServer, TLC

Ports ==
  {[ip |-> 1, port |-> 1, bucket |-> 1],
   [ip |-> 1, port |-> 2, bucket |-> 1],
   [ip |-> 2, port |-> 1, bucket |-> 1],
   [ip |-> 3, port |-> 1, bucket |-> 2]}

(* The pieces of memory and the names of files are interchangeable: no     *)
(* action, and no property of the run, tells one from the other.           *)
Interchangeable == Permutations(Sessions) \cup Permutations(Files)
=============================================================================
