---------------------------- MODULE MCServerLoop ----------------------------
(***************************************************************************)
(* Two ports of one host and another host, all of which hash to the same   *)
(* bucket.                                                                 *)
(***************************************************************************)
EXTENDS ServerLoop

Collision ==
  {[ip |-> 1, port |-> 1, bucket |-> 1],
   [ip |-> 1, port |-> 2, bucket |-> 1],
   [ip |-> 2, port |-> 1, bucket |-> 1]}
=============================================================================
