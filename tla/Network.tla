------------------------------ MODULE Network ------------------------------
(***************************************************************************)
(* UDP between one client and the server.  Each direction is the set of    *)
(* datagrams in flight.  A network may lose, duplicate or reorder; the     *)
(* constants say which, so that one specification covers a perfect link    *)
(* and the worst one.                                                      *)
(***************************************************************************)
EXTENDS Transport

CONSTANTS
  Lossy,        \* datagrams may be lost (or sendto may fail)
  Duplicating,  \* a datagram may be delivered more than once
  Ordered,      \* datagrams arrive in the order they were sent
  Delayed       \* a datagram may take longer than the 30 second timeouts

ASSUME NetworkAssumption ==
  /\ Lossy \in BOOLEAN
  /\ Duplicating \in BOOLEAN
  /\ Ordered \in BOOLEAN
  /\ Delayed \in BOOLEAN
  \* With Ordered a sequence number tells the age of a datagram, which needs
  \* that the server never starts over while old datagrams are about.
  /\ Ordered => ~Duplicating /\ ~Delayed

VARIABLES
  c2s,  \* datagrams in flight from the client to the server
  s2c   \* datagrams in flight from the server to the client

(* A sender numbers its datagrams upwards, so the one sent first is the    *)
(* one with the lowest sequence number.                                    *)
Receivable(channel) ==
  {p \in channel : Ordered => \A q \in channel : p.seq <= q.seq}

(* What may remain in flight once p has been received.                     *)
AfterReceive(channel, p) ==
  {channel \ {p}} \cup (IF Duplicating THEN {channel} ELSE {})

Lose ==
  /\ Lossy
  /\ \/ \E p \in c2s : c2s' = c2s \ {p} /\ UNCHANGED s2c
     \/ \E p \in s2c : s2c' = s2c \ {p} /\ UNCHANGED c2s
=============================================================================
