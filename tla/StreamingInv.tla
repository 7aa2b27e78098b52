--------------------------- MODULE StreamingInv ----------------------------
(***************************************************************************)
(* An inductive invariant of Streaming, for every network.  It holds as    *)
(* long as neither sequence number wraps, which StreamFits says.           *)
(***************************************************************************)
EXTENDS Streaming

(* Where the server's byte stream ends, at the latest: with an error after *)
(* the last chunk.                                                         *)
StreamEnd == Position(NumChunks) + ErrLen

(* Where the client's does: the SYN, three ACKs and two for each chunk.    *)
ClientEnd == SynLen + 3 + 2 * NumChunks

ASSUME StreamFits == StreamEnd < SeqSpace /\ ClientEnd < SeqSpace

Streams == {"SACK_SENT", "ESTABLSH"}

(* The server's stream position is a function of the chunks it has read,   *)
(* each of which took a datagram after the SYN; a session that has not     *)
(* begun has only sent resets, one for each ACK.                           *)
SessionInv ==
  /\ session.ack <= client.seq
  /\ session.state = "NONE" => session = NoSession
  /\ session.open => session.state \in Streams /\ session.seq = Position(session.read)
  /\ session.state = "INITIAL" => session.read = 0
  /\ session.state = "INITIAL" => session.seq + SynLen <= session.ack
  /\ session.state \in Streams => SynLen + session.read <= session.ack

(* The client's is one of the packets it was pushed.                       *)
ClientInv ==
  /\ client.state = "INITIAL" =>
       client.seq = 0 /\ client.ack = 0 /\ pushed = <<>> /\ c2s = {} /\ s2c = {}
  /\ client.state = "SYN_SENT" => pushed = <<>>
  /\ client.state = "ESTABLSH" => pushed # <<>>
  /\ client.state # "INITIAL" =>
       client.seq = SynLen + (IF pushed = <<>> THEN 0 ELSE 1 + 2 * Len(pushed))
  /\ client.ack <= StreamEnd

(* What has been pushed is the configuration and then chunks, each later   *)
(* than the one before and all of them acknowledged.                       *)
PushedInv ==
  /\ pushed # <<>> => pushed[1].kind = "cfg_ack" /\ CfgAckLen <= client.ack
  /\ \A i \in 2..Len(pushed) :
       /\ pushed[i].kind = "chunk"
       /\ pushed[i].n \in (i - 1)..NumChunks
       /\ Position(pushed[i].n) <= client.ack
  /\ \A i, j \in 2..Len(pushed) : i < j => pushed[i].n < pushed[j].n

(* The client sends one SYN, and ACKs after it.                            *)
FromClient(p) ==
  \/ /\ p.flags = {"SYN"} /\ p.seq = 0 /\ p.length = SynLen
     /\ p.body = Cfg(0) /\ client.state # "INITIAL"
  \/ /\ p.flags = {"ACK"} /\ SynLen <= p.seq /\ p.seq < client.seq
     /\ p.length = 0

(* The server sends SYN-ACKs, which begin its stream, chunks, each at its  *)
(* own position and none before the client has its configuration, and      *)
(* resets.                                                                 *)
FromServer(p) ==
  /\ p.ack <= client.seq
  /\ \/ /\ p.flags = {"SYN", "ACK"} /\ p.body.kind = "cfg_ack"
        /\ p.seq = 0 /\ p.length = CfgAckLen
     \/ /\ p.flags = {} /\ p.body.kind = "chunk" /\ p.body.n \in 1..NumChunks
        /\ p.seq = Position(p.body.n - 1) /\ p.length = ChunkLen(p.body.n)
        /\ pushed # <<>>
     \/ /\ "RST" \in p.flags /\ p.body.kind \in {"none", "err"}
        /\ p.seq + Span(p.length) <= StreamEnd

InFlightInv ==
  /\ \A p \in c2s : FromClient(p)
  /\ \A p \in s2c : FromServer(p)

IInv ==
  /\ TypeOK
  /\ SessionInv
  /\ ClientInv
  /\ PushedInv
  /\ InFlightInv
=============================================================================
