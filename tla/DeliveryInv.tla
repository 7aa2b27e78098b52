---------------------------- MODULE DeliveryInv ----------------------------
(***************************************************************************)
(* Inductive invariants of Streaming, each for a kind of network: what the *)
(* datagrams in flight amount to, as long as the network does not meddle   *)
(* with them.                                                              *)
(***************************************************************************)
EXTENDS StreamingInv

(* The sequence number after a packet's last.                              *)
After(p) == p.seq + Span(p.length)

LastPlayed == IF Len(pushed) <= 1 THEN 0 ELSE pushed[Len(pushed)].n

(* Any network.  Each payload goes with its flags, the end of the stream   *)
(* comes after its last chunk, and an error is either the refusal of a SYN *)
(* or one that ends the client; so a client that still runs has            *)
(* acknowledged what it has played.                                        *)
GoesWithFlags(p) ==
  /\ IsSet(p, "ERR") <=> p.body.kind = "err"
  /\ IsSet(p, "FIN") => p.seq = Position(NumChunks)
  /\ IsSet(p, "ERR") =>
       \/ p.seq = 0 /\ p.length = ErrLen /\ p.body.n \in Errnos
       \/ CfgAckLen <= p.seq /\ p.body.n = EIO

ContentInv ==
  /\ \A p \in c2s : IsSet(p, "SYN") \/ p.body.kind = "none"
  /\ \A p \in s2c : GoesWithFlags(p)
  /\ client.state = "FINISHED" => result # Running
  /\ result = Running /\ client.state = "SYN_SENT" => client.ack <= ErrLen
  /\ result = Running /\ client.state = "ESTABLSH" => client.ack = Position(LastPlayed)

(* A network that is not Delayed.  All that is in flight is of the session *)
(* there is: before there is one only SYNs and refusals are, and after it  *)
(* has expired nothing that anybody would answer.                          *)
BeforeSession ==
  /\ client.ack <= CfgAckLen
  /\ \A p \in c2s : p.flags = {"SYN"} /\ p.ack = 0
  /\ \A p \in s2c : IsSet(p, "RST") /\ After(p) <= CfgAckLen

AfterSession == c2s = {} /\ (s2c = {} \/ result # Running)

InSession ==
  /\ client.ack <= session.seq
  /\ \A p \in c2s : p.ack <= session.seq
  /\ \A p \in s2c : After(p) <= session.seq

UndelayedInv ==
  /\ session.state # "INITIAL"
  /\ IF session.state = "NONE" THEN BeforeSession \/ AfterSession ELSE InSession

(* One that moreover does not duplicate, and has not lost anything.  A     *)
(* client that runs is in no session only before its SYN is answered.  In  *)
(* one, the last datagram of either side is in flight or has been          *)
(* received, and not both of them have been: whoever received the later    *)
(* one has answered it, unless it was the end of the stream.               *)
SessionLasts ==
  session.state = "NONE" =>
    /\ pushed = <<>>
    /\ \A p, q \in c2s : p = q
    /\ c2s # {} => s2c = {} /\ client.ack = 0

AlwaysOneInFlight ==
  session.state \in Streams =>
    /\ session.ack = client.seq \/ \E p \in c2s : After(p) = client.seq
    /\ client.ack = session.seq \/ \E p \in s2c : After(p) = session.seq
    /\ session.ack # client.seq \/ client.ack # session.seq
    /\ ~session.open => client.ack # session.seq
    /\ \A p \in s2c :
         /\ IsSet(p, "RST") => CfgAckLen <= p.seq
         /\ ~session.open /\ After(p) = session.seq => IsSet(p, "RST")

NoneOverlap ==
  /\ \A p, q \in s2c : p.seq <= q.seq => p = q \/ After(p) <= q.seq
  /\ \A p \in s2c : p.seq < client.ack => After(p) <= client.ack

FlowInv == result = Running => SessionLasts /\ AlwaysOneInFlight /\ NoneOverlap

(* And one that keeps the order too: the packets in flight to the client   *)
(* follow each other without a gap from where it has acknowledged.         *)
NoGapInv ==
  result = Running =>
    \A p \in s2c :
      /\ client.ack <= p.seq
      /\ p.seq = client.ack \/ \E q \in s2c : After(q) = p.seq

ReliableInv == Ordered /\ ~Lossy => UndelayedInv /\ FlowInv /\ NoGapInv
=============================================================================
