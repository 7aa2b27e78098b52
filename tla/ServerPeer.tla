---------------------------- MODULE ServerPeer -----------------------------
(***************************************************************************)
(* The server's session against any peer that speaks the packet format:    *)
(* one that may open with an ACK, ask for a codec there is not, send a     *)
(* second SYN or reset the session, whatever the server answers.  The      *)
(* server does not trust its client to be sas-client.                      *)
(*                                                                         *)
(* The peer never takes an answer from s2c: it is the log of all that the  *)
(* server has sent.                                                        *)
(***************************************************************************)
EXTENDS ServerSession

CONSTANT MaxPeerSeq   \* bound on the length of the peer's stream

ASSUME PeerAssumption == MaxPeerSeq \in Nat

VARIABLE peer  \* the next sequence number of the peer

vars == <<c2s, s2c, session, peer>>

Init ==
  /\ c2s = {}
  /\ s2c = {}
  /\ ServerInit
  /\ peer = 0

(* A SYN for codec 0 or another one, an ACK and a reset.                   *)
PeerPackets ==
  {[flags |-> {"SYN"}, length |-> SynLen, body |-> Cfg(0)],
   [flags |-> {"SYN"}, length |-> SynLen, body |-> Cfg(1)],
   [flags |-> {"ACK"}, length |-> 0, body |-> NoBody],
   [flags |-> {"RST"}, length |-> 0, body |-> NoBody]}

PeerSends ==
  \E q \in PeerPackets :
    /\ peer + Span(q.length) <= MaxPeerSeq
    /\ peer' = Advance(peer, q.length)
    /\ c2s' = c2s \cup {[seq |-> peer, ack |-> 0, flags |-> q.flags,
                         window |-> WindowSize, length |-> q.length, body |-> q.body]}
    /\ UNCHANGED <<s2c, session>>

ServerStep == ServerReceives /\ UNCHANGED peer

SessionExpires == ServerExpires /\ UNCHANGED peer

Next == PeerSends \/ ServerStep \/ SessionExpires

Spec == Init /\ [][Next]_vars

----------------------------------------------------------------------------
Sent(kind) == {p.body.n : p \in {q \in s2c : q.body.kind = kind}}

(* Whatever it is sent, the server does not begin in the middle of a file  *)
(* nor skip a part of it, and announces the stream before the first chunk  *)
(* (session.c:345, wav.c:50-92).                                           *)
NothingSkipped ==
  \A k \in Sent("chunk") : /\ 1..k \subseteq Sent("chunk")
                           /\ Sent("cfg_ack") # {}

(* FIN says that all of the file was sent (sink.c:29-34).                  *)
FinAfterLast ==
  (\E p \in s2c : IsSet(p, "FIN")) => Sent("chunk") = 1..NumChunks

(* A session goes by its peer's stream: it acknowledges what was sent to   *)
(* it and, however the stream began, never sends two packets at the same   *)
(* place of its own (session.c:181-186, 295).                              *)
StreamsAdvance ==
  [][\A p \in s2c' \ s2c : session'.state # "NONE" =>
       /\ p.seq = Get.seq
       /\ session'.seq > Get.seq
       /\ session'.ack <= peer /\ session'.ack > Get.ack]_vars
=============================================================================
