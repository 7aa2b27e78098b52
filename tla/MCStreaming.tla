---------------------------- MODULE MCStreaming ----------------------------
(***************************************************************************)
(* Streaming over a network that duplicates: datagrams that are delivered  *)
(* again and again make the state space large, so that the number of those *)
(* in flight is bounded.                                                   *)
(***************************************************************************)
EXTENDS StreamingInv, FiniteSets

CONSTANTS
  MaxToServer,  \* bound on the datagrams in flight to the server
  MaxToClient   \* bound on those in flight to the client

FewInFlight ==
  /\ Cardinality(c2s) <= MaxToServer
  /\ Cardinality(s2c) <= MaxToClient
=============================================================================
