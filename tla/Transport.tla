----------------------------- MODULE Transport -----------------------------
(***************************************************************************)
(* The packet format and the sequence arithmetic shared by client and      *)
(* server (sas-core, and the two identical *_session_send functions).      *)
(*                                                                         *)
(* A header is a record; "flags" is the set of control bits; "body" stands *)
(* for the bytes after the header: what they are and the one number in     *)
(* them that matters (a codec, an error code, or which chunk of the file). *)
(***************************************************************************)
EXTENDS Integers

CONSTANTS
  SeqSpace,  \* how many sequence numbers there are: 2^32 (uint32_t seq, ack)
  NameLen    \* length of the name of the requested file

ASSUME SeqSpaceAssumption == SeqSpace \in Nat \ {0}
ASSUME NameLenAssumption == NameLen \in 0..32767    \* int16_t name_len

Flags == {"FIN", "SYN", "RST", "ACK", "ERR"}

(* SAS_TRANSPORT_STATE_*; "NONE" is an address without a session.          *)
States == {"NONE", "INITIAL", "SYN_SENT", "SACK_SENT", "ESTABLSH", "FINISHED"}

WindowSize == 1024   \* initial receive window of both sides
CfgLen == 1          \* sizeof(struct sas_transport_packet_cfg)
CfgAckLen == 8       \* sizeof(struct sas_transport_packet_cfg_ack), padded
ErrLen == 4          \* sizeof(struct sas_transport_packet_err)

SynLen == CfgLen + NameLen

(* The errno values that travel in packets or end the client.              *)
EOK == 0
ENOENT == 2
EIO == 5
EINVAL == 22
ECONNRESET == 104
ETIMEDOUT == 110
Errnos == {EOK, ENOENT, EIO, EINVAL}

Body == [kind : {"none", "cfg", "cfg_ack", "chunk", "err"}, n : Nat]
NoBody == [kind |-> "none", n |-> 0]
Cfg(codec) == [kind |-> "cfg", n |-> codec]
CfgAck(codec) == [kind |-> "cfg_ack", n |-> codec]
Chunk(k) == [kind |-> "chunk", n |-> k]
Err(code) == [kind |-> "err", n |-> code]

Header == [seq : Nat, ack : Nat, flags : SUBSET Flags, window : Nat,
           length : Nat, body : Body]

IsSet(p, flag) == flag \in p.flags

(* A packet without payload still takes one sequence number.               *)
Span(length) == IF length > 0 THEN length ELSE 1

Advance(seq, length) == (seq + Span(length)) % SeqSpace

(* Sending stamps the header from the session, and moves its seq.          *)
Stamp(s, flags, length, body) ==
  [seq |-> s.seq, ack |-> s.ack, flags |-> flags,
   window |-> s.receive_window, length |-> length, body |-> body]

AfterSend(s, length) == [s EXCEPT !.seq = Advance(s.seq, length)]

(* Mutations of the duplicate check: it lets the last packet pass a second *)
(* time; it drops all but the packet expected next.                        *)
AlreadyAckedButLast(s, p) == p.seq + Span(p.length) < s.ack
NotNext(s, p) == p.seq # s.ack

(* Mutation: one more byte is acknowledged than was received.              *)
AcceptedTooFar(s, p) ==
  [s EXCEPT !.send_window = p.window, !.ack = Advance(p.seq, p.length + 1)]

(* What is "already acked", and what receiving any other packet records.   *)
AlreadyAcked(s, p) == p.seq < s.ack

Accepted(s, p) ==
  [s EXCEPT !.send_window = p.window, !.ack = Advance(p.seq, p.length)]
=============================================================================
