--------------------------- MODULE ClientSession ---------------------------
(***************************************************************************)
(* The client: sas_client_receive and sas_client_session_state_machine     *)
(* (client.c), the source that turns demand into acknowledgements          *)
(* (source.c) and the sink that asks for one chunk at a time               *)
(* (drivers/ignore.c).                                                     *)
(*                                                                         *)
(* The client too is one thread that handles one datagram at a time; the   *)
(* pulls its sink makes run to completion inside the handler.              *)
(***************************************************************************)
EXTENDS Network, Sequences

CONSTANTS
  SizeSpace,     \* how many values a chunk's size has: 2^64 (size_t)
  SocketErrors   \* what send, select and recv may fail with

ASSUME ClientAssumption ==
  /\ SizeSpace \in Nat \ {0}
  /\ SocketErrors \subseteq Nat \ {EOK}

VARIABLES
  client,  \* client->session
  pushed,  \* what has been pushed to the sink: a history
  result   \* what sas_client_receive has returned, or Running

Running == -1

ClientInit ==
  /\ client = [state |-> "INITIAL", seq |-> 0, ack |-> 0, send_window |-> 0,
               receive_window |-> WindowSize]
  /\ pushed = <<>>
  /\ result = Running

(* A chunk is sized as if a cfg_ack came first in every packet.            *)
PushedChunk(p) ==
  [kind |-> p.body.kind, n |-> p.body.n, size |-> (p.length - CfgAckLen) % SizeSpace]

(* Sending an ACK for each of the two or three windows of a sequence.      *)
AckAt(c, i, window) ==
  Stamp([c EXCEPT !.seq = (c.seq + i) % SeqSpace, !.receive_window = window],
        {"ACK"}, 0, NoBody)

AfterAcks(c, n, window) ==
  [c EXCEPT !.seq = (c.seq + n) % SeqSpace, !.receive_window = window]

ClientAnswers(p, packets) ==
  /\ s2c' \in AfterReceive(s2c, p)
  /\ c2s' = c2s \cup packets

(* The SYN, for codec 0.                                                   *)
SynSent == [AfterSend(client, SynLen) EXCEPT !.state = "SYN_SENT"]

ClientConnects ==
  /\ result = Running
  /\ client.state = "INITIAL"
  /\ client' = SynSent
  /\ c2s' = c2s \cup {Stamp(client, {"SYN"}, SynLen, Cfg(0))}
  /\ UNCHANGED <<s2c, pushed, result>>

(* A datagram below the acknowledged position is dropped.                  *)
ClientDrops(p) ==
  /\ AlreadyAcked(client, p)
  /\ ClientAnswers(p, {})
  /\ UNCHANGED <<client, pushed, result>>

(* RST ends the client, with the error it carries, with success (FIN) or   *)
(* else with ECONNRESET.  An error code 0 does not: the state is not       *)
(* FINISHED and the value returned is not an error.                        *)
ClientIsReset(p) ==
  LET finished == ~IsSet(p, "ERR") /\ IsSet(p, "FIN")
      err == IF IsSet(p, "ERR") THEN p.body.n
             ELSE IF IsSet(p, "FIN") THEN EOK ELSE ECONNRESET
  IN /\ ~AlreadyAcked(client, p)
     /\ IsSet(p, "RST")
     /\ client' = [Accepted(client, p) EXCEPT
                     !.state = IF finished THEN "FINISHED" ELSE @]
     /\ result' = IF finished \/ err # EOK THEN err ELSE Running
     /\ ClientAnswers(p, {})
     /\ UNCHANGED pushed

(* The first other datagram is taken for the SYN-ACK, unseen its flags.    *)
(* It is answered three times: by the pull the sink makes when it is       *)
(* connected, by the state machine, and by the pull the sink makes when    *)
(* the configuration is pushed.                                            *)
(* Mutation: a reset is taken for a SYN-ACK.                               *)
ClientConfiguresAny(p) ==
  LET c == [Accepted(client, p) EXCEPT !.state = "ESTABLSH"]
  IN /\ ~AlreadyAcked(client, p)
     /\ client.state = "SYN_SENT"
     /\ client' = AfterAcks(c, 3, WindowSize)
     /\ pushed' = Append(pushed, PushedChunk(p))
     /\ ClientAnswers(p, {AckAt(c, i, WindowSize) : i \in 0..2})
     /\ UNCHANGED result

ClientConfigures(p) ==
  LET c == [Accepted(client, p) EXCEPT !.state = "ESTABLSH"]
  IN /\ ~AlreadyAcked(client, p)
     /\ ~IsSet(p, "RST")
     /\ client.state = "SYN_SENT"
     /\ client' = AfterAcks(c, 3, WindowSize)
     /\ pushed' = Append(pushed, PushedChunk(p))
     /\ ClientAnswers(p, {AckAt(c, i, WindowSize) : i \in 0..2})
     /\ UNCHANGED result

(* A chunk is pushed to the sink and answered twice: by the pull the sink  *)
(* makes, which opens the window, and by the state machine, which has      *)
(* closed it.                                                              *)
ClientPlays(p) ==
  LET c == Accepted(client, p)
  IN /\ ~AlreadyAcked(client, p)
     /\ ~IsSet(p, "RST")
     /\ client.state = "ESTABLSH"
     /\ client' = AfterAcks(c, 2, 0)
     /\ pushed' = Append(pushed, PushedChunk(p))
     /\ ClientAnswers(p, {AckAt(c, 0, WindowSize), AckAt(c, 1, 0)})
     /\ UNCHANGED result

(* One turn of the loop in which a datagram arrives.                       *)
ClientReceives ==
  /\ result = Running
  /\ client.state # "INITIAL"
  /\ \E p \in Receivable(s2c) :
       \/ ClientDrops(p)
       \/ ClientIsReset(p)
       \/ ClientConfigures(p)
       \/ ClientPlays(p)

(* One in which none arrived for 30 seconds.                               *)
(* Mutation: only the answer to the SYN is waited for with a timeout.      *)
ClientTimesOutOnSyn ==
  /\ result = Running
  /\ client.state = "SYN_SENT"
  /\ result' = ETIMEDOUT
  /\ UNCHANGED <<c2s, s2c, client, pushed>>

ClientTimesOut ==
  /\ result = Running
  /\ client.state # "INITIAL"
  /\ result' = ETIMEDOUT
  /\ UNCHANGED <<c2s, s2c, client, pushed>>

(* Failing to send the SYN, or to wait for and to receive a datagram.      *)
ClientFails ==
  /\ result = Running
  /\ result' \in SocketErrors
  /\ client' = IF client.state = "INITIAL" THEN SynSent ELSE client
  /\ UNCHANGED <<c2s, s2c, pushed>>
=============================================================================
