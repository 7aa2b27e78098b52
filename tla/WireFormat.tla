----------------------------- MODULE WireFormat -----------------------------
(***************************************************************************)
(* The packets of a stream as bytes: the structures of transport.h in the  *)
(* memory of hosts of either byte order, and the functions of transport.c  *)
(* that convert their members in place.                                    *)
(*                                                                         *)
(* A structure in memory is a function from its members to their bytes.    *)
(***************************************************************************)
EXTENDS Streaming, SequencesExt

CONSTANTS
  SampleRate,  \* of the file that is streamed
  Garbage      \* the bytes that memory may hold where nothing was written

ASSUME SampleRateAssumption == SampleRate \in Nat
ASSUME GarbageAssumption == Garbage \subseteq 0..255 /\ Garbage # {}

Hosts == {"big", "little"}

(* The members of the header in the order of their addresses, those of the *)
(* payloads, and the width of each in bytes.  A structure that has members *)
(* of four bytes takes a multiple of four: the rest is padding, and sent.  *)
HeaderMembers == <<"seq", "ack", "reserved", "flags", "window", "length", "padding">>

PayloadMembers(kind) ==
  CASE kind = "cfg" -> {"codec"}
    [] kind = "cfg_ack" -> {"sample_rate", "sample_size", "channels", "codec", "cfg_padding"}
    [] kind = "err" -> {"err"}
    [] OTHER -> {}

Width ==
  [seq |-> 4, ack |-> 4, reserved |-> 1, flags |-> 1, window |-> 2, length |-> 2,
   padding |-> 2, codec |-> 1, sample_rate |-> 4, sample_size |-> 1, channels |-> 1,
   cfg_padding |-> 1, err |-> 4]

(* Padding is what was left in the memory of the packet.                   *)
Padding == {"padding", "cfg_padding"}

Left == [padding : [1..2 -> Garbage], cfg_padding : [1..1 -> Garbage]]

FlagBit == [FIN |-> 1, SYN |-> 2, RST |-> 4, ACK |-> 8, ERR |-> 16]

Bits(flags) ==
  LET bit(flag) == IF flag \in flags THEN FlagBit[flag] ELSE 0
  IN bit("FIN") + bit("SYN") + bit("RST") + bit("ACK") + bit("ERR")

(* What the senders assign to the members.                                 *)
Values(p) ==
  [seq |-> p.seq, ack |-> p.ack, reserved |-> 0,
   flags |-> Bits(p.flags), window |-> p.window, length |-> p.length, codec |-> p.body.n,
   sample_rate |-> SampleRate, sample_size |-> 16, channels |-> 2, err |-> p.body.n]

(* The bytes of a number, the most significant first, and how a host keeps *)
(* them.                                                                   *)
Bytes(n, width) == [i \in 1..width |-> (n \div 256 ^ (width - i)) % 256]

Kept(host, bytes) == IF host = "big" THEN bytes ELSE Reverse(bytes)

InMemory(host, p, left) ==
  [member \in ToSet(HeaderMembers) \cup PayloadMembers(p.body.kind) |->
     IF member \in Padding THEN left[member]
     ELSE Kept(host, Bytes(Values(p)[member], Width[member]))]

(* The members that the *_encode functions put into network order, and the *)
(* *_decode functions into that of the host.  Nothing is done to others.   *)
(* Mutations: the window is forgotten.                                     *)
HeaderEncodesNoWindow == {"seq", "ack", "length"}
HeaderDecodesNoWindow == {"seq", "ack", "length"}

HeaderEncodes == {"seq", "ack", "window", "length"}
HeaderDecodes == {"seq", "ack", "window", "length"}

PayloadEncodes(kind) ==
  CASE kind = "cfg_ack" -> {"sample_rate"} [] kind = "err" -> {"err"} [] OTHER -> {}

PayloadDecodes(kind) ==
  CASE kind = "cfg_ack" -> {"sample_rate"} [] kind = "err" -> {"err"} [] OTHER -> {}

(* htonl, htons and their inverses.                                        *)
Converted(host, structure, members) ==
  [member \in DOMAIN structure |->
     IF member \in members THEN Kept(host, structure[member]) ELSE structure[member]]

OnTheWire(from, p, left) ==
  Converted(from, InMemory(from, p, left), HeaderEncodes \cup PayloadEncodes(p.body.kind))

(* What a receiver takes the payload for, by the flags and its own state:  *)
(* nothing in the packet says.                                             *)
ClientReads(p) ==
  CASE IsSet(p, "RST") -> IF IsSet(p, "ERR") THEN "err" ELSE "none"
    [] ~IsSet(p, "RST") /\ client.state = "SYN_SENT" -> "cfg_ack"
    [] OTHER -> "chunk"

ServerReads(p) ==
  IF Get.state = "INITIAL" /\ IsSet(p, "SYN") /\ ~IsSet(p, "RST") THEN "cfg" ELSE "none"

Received(to, kind, wire) == Converted(to, wire, HeaderDecodes \cup PayloadDecodes(kind))

----------------------------------------------------------------------------
ReceivedAsSent(p, kind) ==
  /\ kind = p.body.kind
  /\ \A from, to \in Hosts, left \in Left :
       Received(to, kind, OnTheWire(from, p, left)) = InMemory(to, p, left)

(* Whatever the byte orders of the two hosts, each member of what is not   *)
(* dropped arrives as it was set, and each payload is taken for what it    *)
(* was sent as, at every moment it may arrive (transport.c:5-49).          *)
FieldsArrive ==
  /\ result = Running =>
       \A p \in Receivable(s2c) : AlreadyAcked(client, p) \/ ReceivedAsSent(p, ClientReads(p))
  /\ \A p \in Receivable(c2s) : AlreadyAcked(Get, p) \/ ReceivedAsSent(p, ServerReads(p))

(* The fields of PROTOCOL.txt:10-22.                                       *)
Drawn(p) ==
  Bytes(p.seq, 4) \o Bytes(p.ack, 4)
    \o Bytes(Values(p).flags, 2) \o Bytes(p.window, 2) \o Bytes(p.length, 2)

(* What is sent before the data, by hosts of either byte order: the fields *)
(* as PROTOCOL.txt:10-22 draws them, the reserved bits zero, and then two  *)
(* bytes that it does not draw, the structure's padding with whatever was  *)
(* in memory, where the diagram has the data begin (transport.h:27-58,     *)
(* transport.c:5-11, session.c:179, client.c:116).                         *)
PaddingFollowsFields ==
  \A p \in c2s \cup s2c, from \in Hosts, left \in Left :
    LET wire == OnTheWire(from, p, left)
    IN FlattenSeq([i \in DOMAIN HeaderMembers |-> wire[HeaderMembers[i]]])
         = Drawn(p) \o left.padding
=============================================================================
