---------------------------- MODULE MCLossyLink ----------------------------
(***************************************************************************)
(* Streaming over a network that loses and reorders datagrams, with the    *)
(* history of whether it has lost one yet: without loss reordering alone   *)
(* has to do no harm.                                                      *)
(***************************************************************************)
EXTENDS WireFormat, DeliveryInv

VARIABLE lost  \* whether a datagram has been lost: a history

LossyVars == <<vars, lost>>

LossyInit == Init /\ lost = FALSE

(* A datagram that a program drops is not one the network has lost.        *)
LossyNext ==
  \/ ProgramStep /\ UNCHANGED lost
  \/ Loss /\ lost' = TRUE

LossySpec == LossyInit /\ [][LossyNext]_LossyVars /\ Fairness

----------------------------------------------------------------------------
(* As long as nothing is lost a stream that has begun does not come to a   *)
(* halt: reordered acknowledgements and chunks are dropped, yet always one *)
(* is left that is not (session.c:280, client.c:184).                      *)
StreamNeverStalls == result = ETIMEDOUT /\ ~lost => pushed = <<>>

(* ... and why: an inductive invariant of this network.                    *)
LossyInv == ContentInv /\ UndelayedInv /\ (~lost => FlowInv)
=============================================================================
