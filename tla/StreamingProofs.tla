-------------------------- MODULE StreamingProofs --------------------------
(***************************************************************************)
(* Streaming is safe in every network: proofs of the invariants of         *)
(* Streaming from the inductive invariant of StreamingInv.                 *)
(***************************************************************************)
EXTENDS StreamingInv, TLAPS

USE DEF EOK, ENOENT, EIO, EINVAL, ECONNRESET, ETIMEDOUT, Running,
        ChunkSize, CfgLen, CfgAckLen, ErrLen

(***************************************************************************)
(* Stream positions.                                                       *)
(***************************************************************************)

(* The assumptions on the constants, in the form the proofs need them.     *)
LEMMA Constants ==
  /\ SeqSpace \in Nat /\ SeqSpace > 0
  /\ SizeSpace \in Nat /\ SizeSpace > 0
  /\ NumChunks \in Nat
  /\ LastLen \in Nat /\ 0 < LastLen /\ LastLen <= 1024
  /\ SynLen \in Nat /\ 0 < SynLen
  /\ WindowSize \in Nat
  /\ ClientEnd = SynLen + 3 + 2 * NumChunks
  /\ ClientEnd < SeqSpace /\ StreamEnd < SeqSpace
<1>1. SeqSpace \in Nat /\ SeqSpace > 0 /\ SizeSpace \in Nat /\ SizeSpace > 0
  BY SeqSpaceAssumption, ClientAssumption
<1>2. /\ NumChunks \in Nat
      /\ LastLen \in Nat /\ 0 < LastLen /\ LastLen <= 1024
  BY ServerAssumption
<1>3. SynLen \in Nat /\ 0 < SynLen
  <2>1. NameLen \in Nat
    BY NameLenAssumption
  <2> QED
    BY <2>1 DEF SynLen
<1>4. WindowSize \in Nat
  BY DEF WindowSize
<1>5. ClientEnd = SynLen + 3 + 2 * NumChunks
  BY DEF ClientEnd
<1> QED
  BY <1>1, <1>2, <1>3, <1>4, <1>5, StreamFits

(* read(2) returns between 1 and 1024 bytes for a chunk (wav.c:64).        *)
LEMMA ChunkLenType ==
  ASSUME NEW k \in Nat
  PROVE  ChunkLen(k) \in Nat /\ 0 < ChunkLen(k) /\ ChunkLen(k) <= 1024
  BY Constants DEF ChunkLen

(* No chunk begins before the configuration has ended (transport.h:104).   *)
LEMMA PositionType ==
  ASSUME NEW n \in Nat
  PROVE  Position(n) \in Nat /\ 8 <= Position(n)
  BY ChunkLenType DEF Position

(* A chunk begins where the one before it ends.                            *)
LEMMA PositionStep ==
  ASSUME NEW k \in 1..NumChunks
  PROVE  Position(k) = Position(k - 1) + ChunkLen(k)
<1>1. CASE k = 1
  BY <1>1, Constants, ChunkLenType DEF Position
<1>2. CASE k > 1
  <2>1. ChunkLen(k - 1) = 1024
    BY <1>2, Constants DEF ChunkLen
  <2> QED BY <1>2, <2>1, Constants, ChunkLenType DEF Position
<1> QED BY <1>1, <1>2, Constants

(* Each chunk takes at least one byte of the stream.                       *)
LEMMA PositionMonotone ==
  ASSUME NEW m \in 0..NumChunks, NEW n \in 0..NumChunks, m < n
  PROVE  Position(m) + n - m <= Position(n)
<1>1. ChunkLen(m) <= 1024 /\ ChunkLen(n) >= 1 /\ ChunkLen(m) \in Nat /\ ChunkLen(n) \in Nat
  BY Constants, ChunkLenType
<1>2. CASE m = 0
  BY <1>1, <1>2, Constants DEF Position
<1>3. CASE m > 0
  <2>1. Position(m) = 8 + 1024 * (m - 1) + ChunkLen(m)
    BY <1>3 DEF Position
  <2>2. Position(n) = 8 + 1024 * (n - 1) + ChunkLen(n)
    BY <1>3, Constants DEF Position
  <2> QED BY <1>1, <2>1, <2>2, Constants
<1> QED BY <1>2, <1>3, Constants

(* The server's stream has room for an error wherever it ends, and for a   *)
(* reset in answer to each of the client's datagrams.                      *)
LEMMA StreamEndType ==
  /\ StreamEnd \in Nat
  /\ \A n \in 0..NumChunks :
       Position(n) + 4 <= StreamEnd /\ 2 * n + 3 <= StreamEnd
<1>1. StreamEnd = Position(NumChunks) + 4 /\ StreamEnd \in Nat
  BY Constants, PositionType DEF StreamEnd
<1>2. ASSUME NEW n \in 0..NumChunks
      PROVE  Position(n) + 4 <= StreamEnd
  <2>1. CASE n = NumChunks
    BY <1>1, <2>1, PositionType, Constants
  <2>2. CASE n < NumChunks
    <3>1. Position(n) + NumChunks - n <= Position(NumChunks)
      BY <2>2, PositionMonotone, Constants
    <3> QED BY <1>1, <2>2, <3>1, PositionType, Constants
  <2> QED BY <2>1, <2>2, Constants
<1>3. 2 * NumChunks + 3 <= StreamEnd
  <2>1. CASE NumChunks = 0
    BY <1>1, <2>1, PositionType, Constants
  <2>2. CASE NumChunks > 0
    BY <1>1, <2>2, ChunkLenType, Constants DEF Position
  <2> QED BY <2>1, <2>2, Constants
<1> QED BY <1>1, <1>2, <1>3, Constants

(* Sequence numbers that stay below SeqSpace advance without wrapping.     *)
LEMMA AdvanceFits ==
  ASSUME NEW seq \in Nat, NEW length \in Nat, seq + Span(length) < SeqSpace
  PROVE  Advance(seq, length) = seq + Span(length)
  BY Constants DEF Advance, Span

(* A packet takes at least one sequence number (session.c:186,             *)
(* client.c:123).                                                          *)
LEMMA SpanType ==
  ASSUME NEW length \in Nat
  PROVE  Span(length) \in Nat /\ 0 < Span(length) /\ length <= Span(length)
  BY DEF Span

(***************************************************************************)
(* The two halves of a step: one program handles a datagram and answers it *)
(* with packets of the right form.                                         *)
(***************************************************************************)

(* Networks only ever forget datagrams or deliver them again.              *)
LEMMA Delivery ==
  ASSUME NEW channel, NEW channel2, NEW p \in channel,
         channel2 \in AfterReceive(channel, p)
  PROVE  channel2 \subseteq channel
  BY DEF AfterReceive

(* The server: a handler that leaves a session in order and answers with   *)
(* packets of the server keeps the invariant (session.c:272).              *)
LEMMA ServerAnswersInv ==
  ASSUME IInv,
         NEW p \in c2s, NEW packets \in SUBSET Header,
         ServerAnswers(p, packets),
         \A q \in packets : FromServer(q),
         UNCHANGED <<client, pushed, result>>,
         session' \in SessionType, SessionInv'
  PROVE  IInv'
<1> USE DEF IInv
<1>1. c2s' \subseteq c2s /\ s2c' = s2c \cup packets
  BY Delivery DEF ServerAnswers
<1>2. TypeOK'
  BY <1>1 DEF TypeOK
<1>3. ClientInv'
  BY <1>1 DEF ClientInv
<1>4. PushedInv'
  BY DEF PushedInv
<1>5. InFlightInv'
  <2>1. \A q \in c2s' : FromClient(q)'
    BY <1>1 DEF InFlightInv, FromClient
  <2>2. \A q \in s2c' : FromServer(q)'
    BY <1>1 DEF InFlightInv, FromServer
  <2> QED BY <2>1, <2>2 DEF InFlightInv
<1> QED BY <1>2, <1>3, <1>4, <1>5

(* The client: a handler that advances its stream, and answers with ACKs   *)
(* of the part it advanced over, keeps the invariant (client.c:178).       *)
LEMMA ClientAnswersInv ==
  ASSUME IInv,
         NEW p \in s2c, NEW packets \in SUBSET Header,
         ClientAnswers(p, packets),
         \A q \in packets :
           /\ q.flags = {"ACK"} /\ q.length = 0
           /\ SynLen <= q.seq /\ q.seq < client'.seq,
         UNCHANGED session,
         client' \in ClientType, client.seq <= client'.seq,
         client.state # "INITIAL", client'.state # "INITIAL",
         pushed' \in Seq([kind : {"cfg_ack", "chunk"}, n : Nat, size : Nat]),
         pushed # <<>> => pushed' # <<>>,
         result' \in Nat \cup {Running},
         ClientInv', PushedInv'
  PROVE  IInv'
<1> USE DEF IInv
<1>1. s2c' \subseteq s2c /\ c2s' = c2s \cup packets
  BY Delivery DEF ClientAnswers
<1>2. TypeOK'
  BY <1>1 DEF TypeOK
<1>3. SessionInv'
  BY <1>2 DEF SessionInv, TypeOK, ClientType, SessionType
<1>4. \A q \in c2s' : FromClient(q)'
  <2>0. \A q \in packets : FromClient(q)'
    BY DEF FromClient
  <2> SUFFICES ASSUME NEW q \in c2s PROVE FromClient(q)'
    BY <1>1, <2>0
  <2>1. FromClient(q) /\ q.seq \in Nat
    BY DEF InFlightInv, TypeOK, Header
  <2>2. client.seq \in Nat /\ client'.seq \in Nat
    BY DEF TypeOK, ClientType
  <2>3. CASE q.flags = {"ACK"} /\ SynLen <= q.seq /\ q.seq < client.seq /\ q.length = 0
    <3>1. q.seq < client'.seq
      BY <2>1, <2>2, <2>3
    <3> QED BY <2>3, <3>1 DEF FromClient
  <2>4. CASE q.flags = {"SYN"} /\ q.seq = 0 /\ q.length = SynLen /\ q.body = Cfg(0)
    BY <2>4 DEF FromClient
  <2> QED BY <2>1, <2>3, <2>4 DEF FromClient
<1>5. \A q \in s2c' : FromServer(q)'
  <2> SUFFICES ASSUME NEW q \in s2c PROVE FromServer(q)'
    BY <1>1
  <2>1. FromServer(q) /\ q.ack \in Nat
    BY DEF InFlightInv, TypeOK, Header
  <2>2. q.ack <= client'.seq
    BY <2>1 DEF TypeOK, ClientType, FromServer
  <2> QED BY <2>1, <2>2 DEF FromServer
<1> QED BY <1>2, <1>3, <1>4, <1>5 DEF InFlightInv

(***************************************************************************)
(* What the server may rely on when a datagram arrives.                    *)
(***************************************************************************)

(* The client's stream is too short to wrap: at most one ACK more than two *)
(* for each chunk.                                                         *)
LEMMA ClientSeqBounded ==
  ASSUME IInv
  PROVE  /\ client.seq \in Nat /\ client.seq <= ClientEnd
         /\ Len(pushed) \in Nat /\ Len(pushed) <= NumChunks + 1
<1>1. client \in ClientType /\ Len(pushed) \in Nat /\ (pushed = <<>> <=> Len(pushed) = 0)
  BY DEF IInv, TypeOK
<1>2. Len(pushed) <= NumChunks + 1
  <2>1. CASE Len(pushed) <= 1
    BY <1>1, <2>1, Constants
  <2>2. CASE Len(pushed) >= 2
    <3>1. Len(pushed) \in 2..Len(pushed)
      BY <1>1, <2>2
    <3>2. pushed[Len(pushed)].n \in (Len(pushed) - 1)..NumChunks
      BY <3>1 DEF IInv, PushedInv
    <3> QED BY <1>1, <3>2, Constants
  <2> QED BY <1>1, <2>1, <2>2
<1>3. client.seq \in Nat
  BY <1>1 DEF ClientType
<1>4. client.seq <= ClientEnd
  <2>1. CASE client.state = "INITIAL"
    BY <2>1, Constants DEF IInv, ClientInv
  <2>2. CASE client.state # "INITIAL"
    <3>1. client.seq = SynLen + (IF pushed = <<>> THEN 0 ELSE 1 + 2 * Len(pushed))
      BY <2>2 DEF IInv, ClientInv
    <3> QED BY <1>1, <1>2, <3>1, Constants
  <2> QED BY <2>1, <2>2
<1> QED BY <1>1, <1>2, <1>3, <1>4

(* What the server may rely on when a datagram arrives from sas-client.    *)
LEMMA ServerArrival ==
  ASSUME IInv, NEW p \in c2s
  PROVE  /\ p \in Header /\ FromClient(p)
         /\ ~IsSet(p, "RST")
         /\ client.state # "INITIAL"
         /\ p.seq + Span(p.length) <= client.seq
         /\ Advance(p.seq, p.length) = p.seq + Span(p.length)
<1>1. p \in Header /\ FromClient(p) /\ client.state # "INITIAL"
  BY DEF IInv, TypeOK, InFlightInv, ClientInv
<1>2. p.seq \in Nat /\ p.length \in Nat
  BY <1>1 DEF Header
<1>3. client.seq \in Nat /\ client.seq <= ClientEnd
  BY ClientSeqBounded
<1>4. SynLen <= client.seq
  <2>1. client.seq = SynLen + (IF pushed = <<>> THEN 0 ELSE 1 + 2 * Len(pushed))
    BY <1>1 DEF IInv, ClientInv
  <2> QED BY <2>1, ClientSeqBounded, Constants
<1>5. ~IsSet(p, "RST")
  BY <1>1 DEF FromClient, IsSet
<1>6. p.seq + Span(p.length) <= client.seq
  BY <1>1, <1>2, <1>3, <1>4, Constants DEF FromClient, Span
<1>7. p.seq + Span(p.length) < SeqSpace
  BY <1>2, <1>3, <1>6, SpanType, Constants
<1> QED BY <1>1, <1>2, <1>5, <1>6, <1>7, AdvanceFits

(* The session a datagram is handled in, found or new, has the invariants  *)
(* of the one there was.                                                   *)
LEMMA GetInv ==
  ASSUME IInv
  PROVE  /\ Get \in SessionType /\ Get.state # "NONE"
         /\ Get.ack <= client.seq
         /\ Get.open => Get.state \in Streams /\ Get.seq = Position(Get.read)
         /\ Get.state = "INITIAL" =>
              \/ session.state = "NONE" /\ Get.seq = 0 /\ Get.ack = 0
              \/ Get.seq + SynLen <= Get.ack
         /\ Get.state = "INITIAL" => ~Get.open /\ Get.read = 0
         /\ Get.state \in Streams => Get = session /\ SynLen + Get.read <= Get.ack
<1>1. session \in SessionType /\ client.seq \in Nat /\ SessionInv
  BY ClientSeqBounded DEF IInv, TypeOK
<1>2. CASE session.state = "NONE"
  <2>1. NoSession \in SessionType
    BY Constants DEF NoSession, SessionType
  <2>2. NoSession.seq = 0 /\ NoSession.ack = 0 /\ NoSession.open = FALSE /\ NoSession.read = 0
    BY DEF NoSession
  <2>3. Get = [NoSession EXCEPT !.state = "INITIAL"]
    BY <1>2 DEF Get
  <2>4. /\ Get \in SessionType /\ Get.state = "INITIAL"
        /\ Get.seq = 0 /\ Get.ack = 0 /\ Get.open = FALSE /\ Get.read = 0
    BY <2>1, <2>2, <2>3 DEF SessionType
  <2> QED BY <1>1, <1>2, <2>4 DEF Streams
<1>3. CASE session.state # "NONE"
  <2>1. Get = session
    BY <1>3 DEF Get
  <2> QED BY <1>1, <1>3, <2>1 DEF SessionInv, SessionType, Streams
<1> QED BY <1>2, <1>3

(* What accepting a datagram records, in a session of either side.         *)
LEMMA AcceptedSession ==
  ASSUME NEW s \in SessionType, NEW p, NEW a \in Nat,
         p.window \in Nat, Advance(p.seq, p.length) = a
  PROVE  /\ Accepted(s, p) \in SessionType
         /\ Accepted(s, p).ack = a
         /\ Accepted(s, p).state = s.state /\ Accepted(s, p).seq = s.seq
         /\ Accepted(s, p).read = s.read /\ Accepted(s, p).open = s.open
         /\ Accepted(s, p).receive_window = WindowSize
<1>1. Accepted(s, p) = [s EXCEPT !.send_window = p.window, !.ack = a]
  BY Zenon DEF Accepted
<1> QED BY <1>1 DEF SessionType

(* The same of the client's session.                                       *)
LEMMA AcceptedClient ==
  ASSUME NEW c \in ClientType, NEW p, NEW a \in Nat,
         p.window \in Nat, Advance(p.seq, p.length) = a
  PROVE  /\ Accepted(c, p) \in ClientType
         /\ Accepted(c, p).ack = a
         /\ Accepted(c, p).state = c.state /\ Accepted(c, p).seq = c.seq
         /\ Accepted(c, p).receive_window = c.receive_window
<1>1. Accepted(c, p) = [c EXCEPT !.send_window = p.window, !.ack = a]
  BY Zenon DEF Accepted
<1> QED BY <1>1 DEF ClientType

(* ... in the session the server found or made for it.                     *)
LEMMA AcceptedInv ==
  ASSUME IInv, NEW p \in c2s, ~AlreadyAcked(Get, p)
  PROVE  LET s == Accepted(Get, p)
         IN /\ s \in SessionType
            /\ s.ack = p.seq + Span(p.length)
            /\ Get.ack < s.ack /\ s.ack <= client.seq
            /\ s.state = Get.state /\ s.seq = Get.seq
            /\ s.read = Get.read /\ s.open = Get.open
            /\ s.receive_window = WindowSize
<1> DEFINE s == Accepted(Get, p)
<1>1. Get \in SessionType
  BY GetInv
<1>2. p.seq \in Nat /\ p.length \in Nat /\ p.window \in Nat
  BY ServerArrival DEF Header
<1>3. p.seq + Span(p.length) \in Nat /\ Advance(p.seq, p.length) = p.seq + Span(p.length)
  BY <1>2, SpanType, ServerArrival
<1>4. /\ s \in SessionType /\ s.ack = p.seq + Span(p.length)
      /\ s.state = Get.state /\ s.seq = Get.seq
      /\ s.read = Get.read /\ s.open = Get.open
      /\ s.receive_window = WindowSize
  BY <1>1, <1>2, <1>3, AcceptedSession
<1>5. Get.ack <= p.seq /\ Get.ack \in Nat
  BY <1>1, <1>2 DEF AlreadyAcked, SessionType
<1>6. Get.ack < s.ack /\ s.ack <= client.seq
  BY <1>2, <1>4, <1>5, SpanType, ServerArrival
<1> QED BY <1>4, <1>6

(***************************************************************************)
(* Sending.                                                                *)
(***************************************************************************)

(* A packet that is stamped from a session is one (session.c:181-183).     *)
LEMMA StampType ==
  ASSUME NEW s, s.seq \in Nat, s.ack \in Nat, s.receive_window \in Nat,
         NEW flags \in SUBSET Flags, NEW length \in Nat, NEW body \in Body
  PROVE  LET q == Stamp(s, flags, length, body)
         IN /\ q \in Header
            /\ q.seq = s.seq /\ q.ack = s.ack /\ q.flags = flags
            /\ q.length = length /\ q.body = body
  BY DEF Stamp, Header

(* Payloads are what their names say (transport.h:79-148).                 *)
LEMMA BodyType ==
  /\ NoBody \in Body /\ NoBody.kind = "none"
  /\ \A n \in Nat :
       /\ Cfg(n) \in Body
       /\ CfgAck(n) \in Body /\ CfgAck(n).kind = "cfg_ack"
       /\ Chunk(n) \in Body /\ Chunk(n).kind = "chunk" /\ Chunk(n).n = n
       /\ Err(n) \in Body /\ Err(n).kind = "err"
  BY DEF Body, NoBody, Cfg, CfgAck, Chunk, Err

(* Sending from a session whose stream has room advances it without        *)
(* wrapping (session.c:186).                                               *)
LEMMA AfterSendSession ==
  ASSUME NEW s \in SessionType, NEW length \in Nat,
         s.seq + Span(length) < SeqSpace
  PROVE  LET t == AfterSend(s, length)
         IN /\ t \in SessionType
            /\ t.seq = s.seq + Span(length)
            /\ t.ack = s.ack /\ t.state = s.state
            /\ t.read = s.read /\ t.open = s.open
<1>1. s.seq \in Nat /\ s.seq + Span(length) \in Nat
  BY SpanType DEF SessionType
<1>2. Advance(s.seq, length) = s.seq + Span(length)
  BY <1>1, AdvanceFits
<1>3. AfterSend(s, length) = [s EXCEPT !.seq = s.seq + Span(length)]
  BY <1>2, Zenon DEF AfterSend
<1> QED BY <1>1, <1>3 DEF SessionType

(***************************************************************************)
(* The server's actions.                                                   *)
(***************************************************************************)

(* A datagram below the acknowledged position changes nothing that was     *)
(* established (session.c:280-284).                                        *)
LEMMA ServerDropsInv ==
  ASSUME IInv, NEW p \in c2s, ServerDrops(p), UNCHANGED <<client, pushed, result>>
  PROVE  IInv'
<1>1. session' = Get /\ ServerAnswers(p, {})
  BY DEF ServerDrops
<1>2. session' \in SessionType /\ SessionInv'
  <2>1. p.seq \in Nat /\ p.seq < Get.ack
    BY ServerArrival DEF ServerDrops, AlreadyAcked, Header
  <2>2. Get.seq + SynLen <= Get.ack \/ Get.state # "INITIAL"
    BY <2>1, GetInv
  <2> QED BY <1>1, <2>2, GetInv DEF SessionInv, Streams
<1> QED BY <1>1, <1>2, ServerAnswersInv

(* A session that is deleted leaves nothing to be kept true                *)
(* (session.c:142).                                                        *)
LEMMA NoSessionInv ==
  ASSUME IInv, session' = NoSession, UNCHANGED client
  PROVE  session' \in SessionType /\ SessionInv'
<1>1. NoSession \in SessionType
  BY Constants DEF NoSession, SessionType
<1>2. NoSession.state = "NONE" /\ NoSession.ack = 0 /\ NoSession.open = FALSE
  BY DEF NoSession
<1> QED BY <1>1, <1>2, ClientSeqBounded DEF SessionInv, Streams

(* sas-client sends no RST, so that no session is deleted by one           *)
(* (session.c:298-301).                                                    *)
LEMMA ServerForgetsInv ==
  ASSUME IInv, NEW p \in c2s, ServerForgets(p), UNCHANGED <<client, pushed, result>>
  PROVE  IInv'
  BY ServerArrival DEF ServerForgets

(* An ACK that finds no session is answered by a reset; each takes one     *)
(* number of the new session's stream, and there are too few ACKs for it   *)
(* to pass StreamEnd (session.c:306-309).                                  *)
LEMMA ServerRejectsInv ==
  ASSUME IInv, NEW p \in c2s, ServerRejects(p), UNCHANGED <<client, pushed, result>>
  PROVE  IInv'
<1> DEFINE s == Accepted(Get, p)
           q == Stamp(s, {"RST"}, 0, NoBody)
<1>1. ~AlreadyAcked(Get, p) /\ Get.state = "INITIAL" /\ ~IsSet(p, "SYN")
  BY DEF ServerRejects, Handles
<1>2. session' = AfterSend(s, 0) /\ ServerAnswers(p, {q})
  BY DEF ServerRejects
<1>3. /\ s \in SessionType /\ s.ack = p.seq + Span(p.length) /\ s.ack <= client.seq
      /\ s.state = "INITIAL" /\ s.seq = Get.seq /\ s.open = Get.open /\ s.read = Get.read
  BY <1>1, AcceptedInv
<1>4. SynLen <= p.seq /\ p.seq \in Nat /\ p.length = 0
  BY <1>1, ServerArrival DEF FromClient, IsSet, Header
<1>5. s.ack = p.seq + 1
  BY <1>3, <1>4 DEF Span
<1>6. Get.seq \in Nat /\ Get.seq + SynLen <= p.seq
  <2>1. Get.seq \in Nat /\ Get.ack \in Nat
    BY GetInv DEF SessionType
  <2>2. Get.ack <= p.seq
    BY <1>1, <1>4, <2>1 DEF AlreadyAcked
  <2>3. Get.seq = 0 \/ Get.seq + SynLen <= Get.ack
    BY <1>1, GetInv
  <2> QED BY <1>4, <2>1, <2>2, <2>3, Constants
<1>7. client.seq <= SynLen + 3 + 2 * NumChunks /\ client.seq \in Nat
  BY ClientSeqBounded, Constants
<1>8. s.seq + Span(0) = Get.seq + 1
  BY <1>3 DEF Span
<1>9. s.seq + Span(0) < SeqSpace /\ s.seq + Span(0) <= StreamEnd
  BY <1>3, <1>4, <1>5, <1>6, <1>7, <1>8, Constants, StreamEndType
<1>10. /\ session' \in SessionType /\ session'.seq = Get.seq + 1
       /\ session'.ack = p.seq + 1 /\ session'.state = "INITIAL"
       /\ session'.open = Get.open /\ session'.read = Get.read
  BY <1>2, <1>3, <1>5, <1>8, <1>9, AfterSendSession
<1>11. SessionInv'
  <2>1. session'.ack <= client'.seq
    BY <1>3, <1>5, <1>10
  <2>2. session'.seq + SynLen <= session'.ack
    BY <1>4, <1>6, <1>10, Constants
  <2>3. ~session'.open /\ session'.read = 0
    BY <1>1, <1>10, GetInv
  <2> QED BY <1>10, <2>1, <2>2, <2>3 DEF SessionInv, Streams, SynLen
<1>12. q \in Header /\ FromServer(q)
  <2>1. s.seq \in Nat /\ s.ack \in Nat /\ s.receive_window \in Nat
    BY <1>3, Constants DEF SessionType
  <2>2. {"RST"} \in SUBSET Flags /\ NoBody \in Body /\ NoBody.kind = "none"
    BY BodyType DEF Flags
  <2>3. /\ q \in Header /\ q.seq = s.seq /\ q.ack = s.ack /\ q.flags = {"RST"}
        /\ q.length = 0 /\ q.body = NoBody
    BY <2>1, <2>2, StampType
  <2> QED BY <1>3, <1>9, <2>2, <2>3 DEF FromServer
<1> HIDE DEF q
<1> QED BY <1>2, <1>10, <1>11, <1>12, ServerAnswersInv

(* A SYN begins the client's stream, so it is only handled in a session    *)
(* that has received nothing and sent nothing.                             *)
LEMMA SynArrival ==
  ASSUME IInv, NEW p \in c2s, Handles(p, {"INITIAL"}), IsSet(p, "SYN")
  PROVE  LET s == Accepted(Get, p)
         IN /\ s \in SessionType /\ s.ack = SynLen /\ s.ack <= client.seq
            /\ s.state = "INITIAL" /\ s.seq = 0 /\ s.read = 0
            /\ s.receive_window = WindowSize
<1> DEFINE s == Accepted(Get, p)
<1>1. ~AlreadyAcked(Get, p) /\ Get.state = "INITIAL"
  BY DEF Handles
<1>2. p.seq = 0 /\ p.length = SynLen
  BY ServerArrival DEF FromClient, IsSet
<1>3. /\ s \in SessionType /\ s.ack = p.seq + Span(p.length) /\ s.ack <= client.seq
      /\ s.state = "INITIAL" /\ s.seq = Get.seq /\ s.read = Get.read
      /\ s.receive_window = WindowSize
  BY <1>1, AcceptedInv
<1>4. s.ack = SynLen
  BY <1>2, <1>3, Constants DEF Span
<1>5. Get.seq = 0 /\ Get.read = 0
  <2>1. Get.seq \in Nat /\ Get.ack \in Nat
    BY GetInv DEF SessionType
  <2>2. Get.ack <= 0
    BY <1>1, <1>2, <2>1 DEF AlreadyAcked
  <2>3. Get.seq = 0 \/ Get.seq + SynLen <= Get.ack
    BY <1>1, GetInv
  <2> QED BY <1>1, <2>1, <2>2, <2>3, Constants, GetInv
<1> QED BY <1>3, <1>4, <1>5

(* A refused SYN is answered by a reset at the beginning of the stream,    *)
(* and leaves no session (session.c:315-337).                              *)
LEMMA ServerRefusesInv ==
  ASSUME IInv, NEW p \in c2s, ServerRefuses(p), UNCHANGED <<client, pushed, result>>
  PROVE  IInv'
<1> DEFINE s == Accepted(Get, p)
<1>1. Handles(p, {"INITIAL"}) /\ IsSet(p, "SYN") /\ session' = NoSession
  BY DEF ServerRefuses
<1>2. PICK code \in Refusals(p.body.n) :
        ServerAnswers(p, {Stamp(s, {"RST", "ERR"}, ErrLen, Err(code))})
  BY Zenon DEF ServerRefuses
<1> DEFINE q == Stamp(s, {"RST", "ERR"}, ErrLen, Err(code))
<1>3. /\ s.seq = 0 /\ s.ack \in Nat /\ s.ack <= client.seq
      /\ s.receive_window \in Nat
  BY <1>1, SynArrival, Constants DEF SessionType
<1>4. code \in Nat
  BY ServerAssumption DEF Refusals, Errnos
<1>5. {"RST", "ERR"} \in SUBSET Flags /\ Err(code) \in Body /\ Err(code).kind = "err"
  BY <1>4, BodyType DEF Flags
<1>6. /\ q \in Header /\ q.seq = 0 /\ q.ack = s.ack /\ q.flags = {"RST", "ERR"}
      /\ q.length = ErrLen /\ q.body = Err(code)
  BY <1>3, <1>5, StampType
<1>7. 0 + Span(ErrLen) <= StreamEnd
  <2>1. Position(0) + 4 <= StreamEnd /\ Position(0) = 8
    BY StreamEndType, Constants DEF Position
  <2> QED BY <2>1, StreamEndType DEF Span
<1>8. FromServer(q)
  BY <1>3, <1>5, <1>6, <1>7 DEF FromServer
<1> HIDE DEF q
<1> QED BY <1>1, <1>2, <1>6, <1>8, NoSessionInv, ServerAnswersInv DEF q

(* An accepted SYN puts the session at the end of the configuration,       *)
(* before the first chunk (session.c:338-354).                             *)
LEMMA ServerOpensInv ==
  ASSUME IInv, NEW p \in c2s, ServerOpens(p), UNCHANGED <<client, pushed, result>>
  PROVE  IInv'
<1> DEFINE s == Accepted(Get, p)
           t == AfterSend(s, CfgAckLen)
<1>1. Handles(p, {"INITIAL"}) /\ IsSet(p, "SYN")
  BY DEF ServerOpens
<1>2. session' = [t EXCEPT !.state = "SACK_SENT", !.open = TRUE]
  BY Zenon DEF ServerOpens
<1>3. PICK codec \in GarbageCodecs :
        ServerAnswers(p, {Stamp(s, {"SYN", "ACK"}, CfgAckLen, CfgAck(codec))})
  BY Zenon DEF ServerOpens
<1> DEFINE q == Stamp(s, {"SYN", "ACK"}, CfgAckLen, CfgAck(codec))
<1>4. /\ s \in SessionType /\ s.seq = 0 /\ s.read = 0
      /\ s.ack = SynLen /\ s.ack <= client.seq
      /\ s.receive_window \in Nat
  BY <1>1, SynArrival, Constants
<1>5. s.seq + Span(CfgAckLen) = 8 /\ 8 < SeqSpace
  <2>1. Position(0) + 4 <= StreamEnd /\ Position(0) = 8
    BY StreamEndType, Constants DEF Position
  <2> QED BY <1>4, <2>1, StreamEndType, Constants DEF Span
<1>6. t \in SessionType /\ t.seq = 8 /\ t.ack = SynLen /\ t.read = 0
  BY <1>4, <1>5, AfterSendSession
<1> HIDE DEF t
<1>7. /\ session' \in SessionType /\ session'.seq = 8 /\ session'.ack = SynLen
      /\ session'.read = 0 /\ session'.state = "SACK_SENT"
  BY <1>2, <1>6 DEF SessionType
<1>8. SessionInv'
  <2>1. session'.ack <= client'.seq
    BY <1>4, <1>7
  <2>2. session'.seq = Position(session'.read)
    BY <1>7 DEF Position
  <2>3. SynLen + session'.read <= session'.ack
    BY <1>7, Constants
  <2> QED BY <1>7, <2>1, <2>2, <2>3 DEF SessionInv, Streams, SynLen
<1>9. codec \in Nat
  BY ServerAssumption
<1>10. /\ {"SYN", "ACK"} \in SUBSET Flags
       /\ CfgAck(codec) \in Body /\ CfgAck(codec).kind = "cfg_ack"
  BY <1>9, BodyType DEF Flags
<1>11. /\ q \in Header /\ q.seq = 0 /\ q.ack = s.ack /\ q.flags = {"SYN", "ACK"}
       /\ q.length = CfgAckLen /\ q.body = CfgAck(codec)
  BY <1>4, <1>10, StampType, Constants
<1>12. FromServer(q)
  BY <1>4, <1>10, <1>11 DEF FromServer
<1> HIDE DEF q
<1> QED BY <1>3, <1>7, <1>8, <1>11, <1>12, ServerAnswersInv DEF q

(* A pull needs a datagram after the SYN, which the client only sends when *)
(* it has its configuration.                                               *)
LEMMA PullArrival ==
  ASSUME IInv, NEW p \in c2s, Pulls(p)
  PROVE  /\ Get = session /\ pushed # <<>>
         /\ Pulling(p) \in SessionType /\ Pulling(p).state = "ESTABLSH"
         /\ SynLen + session.read < Pulling(p).ack /\ Pulling(p).ack <= client.seq
         /\ Pulling(p).seq = session.seq /\ Pulling(p).read = session.read
         /\ Pulling(p).open = session.open
<1> DEFINE s == Accepted(Get, p)
<1>1. ~AlreadyAcked(Get, p) /\ Get.state \in Streams
  BY DEF Pulls, Handles, Streams
<1>2. /\ Get = session /\ SynLen + Get.read <= Get.ack
      /\ Get.ack \in Nat /\ Get.read \in Nat
  BY <1>1, GetInv, Constants DEF SessionType
<1>3. /\ s \in SessionType /\ Get.ack < s.ack /\ s.ack <= client.seq
      /\ s.seq = session.seq /\ s.read = session.read /\ s.open = session.open
  BY <1>1, <1>2, AcceptedInv
<1>4. Pulling(p) = [s EXCEPT !.state = "ESTABLSH"]
  BY Zenon DEF Pulling
<1> HIDE DEF s
<1>5. /\ Pulling(p) \in SessionType /\ Pulling(p).state = "ESTABLSH"
      /\ Pulling(p).ack = s.ack /\ Pulling(p).seq = s.seq
      /\ Pulling(p).read = s.read /\ Pulling(p).open = s.open
  BY <1>3, <1>4 DEF SessionType
<1>6. s.ack \in Nat
  BY <1>3 DEF SessionType
<1>7. pushed # <<>>
  <2>1. p.seq \in Nat /\ FromClient(p) /\ client.state # "INITIAL"
    BY ServerArrival DEF Header
  <2>2. SynLen <= p.seq
    BY <1>1, <1>2, <2>1, Constants DEF AlreadyAcked
  <2>3. p.seq < client.seq
    BY <2>1, <2>2, Constants DEF FromClient
  <2>4. client.seq # SynLen
    BY <2>1, <2>2, <2>3, ClientSeqBounded, Constants
  <2>5. client.seq = SynLen + (IF pushed = <<>> THEN 0 ELSE 1 + 2 * Len(pushed))
    BY <2>1 DEF IInv, ClientInv
  <2> QED BY <2>4, <2>5, Constants
<1> QED BY <1>2, <1>3, <1>5, <1>6, <1>7, Constants, ClientSeqBounded

(* The invariant of a session that has been pulled.                        *)
LEMMA PulledInv ==
  ASSUME IInv, NEW p \in c2s, Pulls(p), UNCHANGED client,
         session' \in SessionType, session'.state = "ESTABLSH",
         session'.ack = Pulling(p).ack,
         session'.read <= session.read + 1,
         session'.open => session'.seq = Position(session'.read)
  PROVE  SessionInv'
<1>1. /\ SynLen + session.read < Pulling(p).ack /\ session'.ack <= client'.seq
      /\ Pulling(p).ack \in Nat /\ session.read \in Nat /\ session'.read \in Nat
  BY PullArrival, Constants DEF IInv, TypeOK, SessionType
<1>2. SynLen + session'.read <= session'.ack
  BY <1>1, Constants
<1> QED BY <1>1, <1>2 DEF SessionInv, Streams, SynLen

(* Stamping a packet in a pulled session.                                  *)
LEMMA PulledStamp ==
  ASSUME IInv, NEW p \in c2s, Pulls(p),
         NEW flags \in SUBSET Flags, NEW length \in Nat, NEW body \in Body
  PROVE  LET q == Stamp(Pulling(p), flags, length, body)
         IN /\ q \in Header /\ q.seq = session.seq /\ q.ack <= client.seq
            /\ q.flags = flags /\ q.length = length /\ q.body = body
<1>1. /\ Pulling(p).seq \in Nat /\ Pulling(p).ack \in Nat
      /\ Pulling(p).receive_window \in Nat
  BY PullArrival, Constants DEF SessionType
<1> QED BY <1>1, PullArrival, StampType

(* A chunk is sent at its own place, and the session moves to the next     *)
(* one's (session.c:356-362, sink.c:20-27).                                *)
LEMMA ServerSendsChunkInv ==
  ASSUME IInv, NEW p \in c2s, ServerSendsChunk(p), UNCHANGED <<client, pushed, result>>
  PROVE  IInv'
<1> DEFINE k == session.read + 1
           t == AfterSend(Pulling(p), ChunkLen(k))
           q == Stamp(Pulling(p), {}, ChunkLen(k), Chunk(k))
<1>1. Pulls(p) /\ session.open /\ k <= NumChunks
  BY DEF ServerSendsChunk
<1>2. session' = [t EXCEPT !.read = k] /\ ServerAnswers(p, {q})
  BY Zenon DEF ServerSendsChunk
<1>3. session.seq = Position(k - 1) /\ session.read \in Nat
  BY <1>1 DEF IInv, SessionInv, TypeOK, SessionType
<1>4. k \in 1..NumChunks /\ k \in Nat /\ k = session.read + 1
  BY <1>1, <1>3, Constants
<1> HIDE DEF k
<1>5. ChunkLen(k) \in Nat /\ Span(ChunkLen(k)) = ChunkLen(k)
  BY <1>4, ChunkLenType DEF Span
<1>6. session.seq + Span(ChunkLen(k)) = Position(k) /\ Position(k) < SeqSpace
  BY <1>3, <1>4, <1>5, PositionStep, PositionType, StreamEndType, Constants
<1>7. /\ t \in SessionType /\ t.seq = Position(k) /\ t.ack = Pulling(p).ack
      /\ t.state = "ESTABLSH" /\ t.open = session.open
  <2>1. /\ Pulling(p) \in SessionType /\ Pulling(p).state = "ESTABLSH"
        /\ Pulling(p).seq = session.seq /\ Pulling(p).open = session.open
    BY <1>1, PullArrival
  <2>2. Pulling(p).seq + Span(ChunkLen(k)) = Position(k)
    BY <1>6, <2>1
  <2> QED BY <1>5, <1>6, <2>1, <2>2, AfterSendSession
<1> HIDE DEF t
<1>8. /\ session' \in SessionType /\ session'.seq = Position(k)
      /\ session'.ack = Pulling(p).ack /\ session'.state = "ESTABLSH"
      /\ session'.read = k
  BY <1>2, <1>4, <1>7 DEF SessionType
<1>9. SessionInv'
  <2>1. session'.read <= session.read + 1
    BY <1>3, <1>4, <1>8
  <2> QED BY <1>1, <1>8, <2>1, PulledInv
<1>10. {} \in SUBSET Flags /\ Chunk(k) \in Body
       /\ Chunk(k).kind = "chunk" /\ Chunk(k).n = k
  BY <1>4, BodyType
<1>11. /\ q \in Header /\ q.seq = session.seq /\ q.ack <= client.seq
       /\ q.flags = {} /\ q.length = ChunkLen(k) /\ q.body = Chunk(k)
  BY <1>1, <1>5, <1>10, PulledStamp
<1>12. pushed # <<>>
  BY <1>1, PullArrival
<1>13. FromServer(q)
  BY <1>3, <1>4, <1>10, <1>11, <1>12 DEF FromServer
<1> HIDE DEF q
<1> QED BY <1>2, <1>8, <1>9, <1>11, <1>13, ServerAnswersInv

(* The end of the file is told by a reset after the last chunk             *)
(* (sink.c:29-34).                                                         *)
LEMMA ServerFinishesInv ==
  ASSUME IInv, NEW p \in c2s, ServerFinishes(p), UNCHANGED <<client, pushed, result>>
  PROVE  IInv'
<1> DEFINE t == AfterSend(Pulling(p), 0)
           q == Stamp(Pulling(p), {"RST", "FIN"}, 0, NoBody)
<1>1. Pulls(p) /\ session.open /\ session.read = NumChunks
  BY DEF ServerFinishes
<1>2. session' = [t EXCEPT !.open = FALSE] /\ ServerAnswers(p, {q})
  BY Zenon DEF ServerFinishes
<1>3. session.seq = Position(NumChunks)
  BY <1>1 DEF IInv, SessionInv
<1>4. session.seq + Span(0) <= StreamEnd /\ session.seq + Span(0) < SeqSpace
  BY <1>3, PositionType, StreamEndType, Constants DEF Span
<1>5. /\ t \in SessionType /\ t.ack = Pulling(p).ack /\ t.state = "ESTABLSH"
      /\ t.read = session.read
  BY <1>1, <1>4, PullArrival, AfterSendSession
<1> HIDE DEF t
<1>6. /\ session' \in SessionType /\ session'.ack = Pulling(p).ack
      /\ session'.state = "ESTABLSH" /\ session'.open = FALSE
      /\ session'.read = session.read
  BY <1>2, <1>5 DEF SessionType
<1>7. SessionInv'
  <2>1. session.read \in Nat
    BY Constants DEF IInv, TypeOK, SessionType
  <2> QED BY <1>1, <1>6, <2>1, PulledInv
<1>8. {"RST", "FIN"} \in SUBSET Flags /\ NoBody \in Body /\ NoBody.kind = "none"
  BY BodyType DEF Flags
<1>9. /\ q \in Header /\ q.seq = session.seq /\ q.ack <= client.seq
      /\ q.flags = {"RST", "FIN"} /\ q.length = 0 /\ q.body = NoBody
  BY <1>1, <1>8, PulledStamp
<1>10. FromServer(q)
  BY <1>4, <1>8, <1>9 DEF FromServer
<1> HIDE DEF q
<1>11. {q} \in SUBSET Header /\ \A x \in {q} : FromServer(x)
  BY <1>9, <1>10
<1> QED BY <1>2, <1>6, <1>7, <1>11, ServerAnswersInv

(* A failure is told by a reset wherever the stream is (sink.c:36-41).     *)
LEMMA ServerFailsInv ==
  ASSUME IInv, NEW p \in c2s, ServerFails(p), UNCHANGED <<client, pushed, result>>
  PROVE  IInv'
<1> DEFINE t == AfterSend(Pulling(p), ErrLen)
           q == Stamp(Pulling(p), {"RST", "ERR"}, ErrLen, Err(EIO))
<1>1. Pulls(p) /\ session.open
  BY DEF ServerFails
<1>2. session' = [t EXCEPT !.open = FALSE] /\ ServerAnswers(p, {q})
  BY Zenon DEF ServerFails
<1>3. session.seq = Position(session.read) /\ session.read \in 0..NumChunks
  BY <1>1 DEF IInv, SessionInv, TypeOK, SessionType
<1>4. session.seq + Span(ErrLen) <= StreamEnd /\ session.seq + Span(ErrLen) < SeqSpace
  <2>1. Span(ErrLen) = 4
    BY DEF Span
  <2>2. session.seq \in Nat /\ session.seq + 4 <= StreamEnd /\ StreamEnd \in Nat
    BY <1>3, PositionType, StreamEndType, Constants
  <2> QED
    BY <2>1, <2>2, Constants
<1>5. /\ t \in SessionType /\ t.ack = Pulling(p).ack /\ t.state = "ESTABLSH"
      /\ t.read = session.read
  BY <1>1, <1>4, PullArrival, AfterSendSession
<1> HIDE DEF t
<1>6. /\ session' \in SessionType /\ session'.ack = Pulling(p).ack
      /\ session'.state = "ESTABLSH" /\ session'.open = FALSE
      /\ session'.read = session.read
  BY <1>2, <1>5 DEF SessionType
<1>7. SessionInv'
  <2>1. session.read \in Nat
    BY Constants DEF IInv, TypeOK, SessionType
  <2> QED BY <1>1, <1>6, <2>1, PulledInv
<1>8. {"RST", "ERR"} \in SUBSET Flags /\ Err(EIO) \in Body /\ Err(EIO).kind = "err"
  BY BodyType DEF Flags
<1>9. /\ q \in Header /\ q.seq = session.seq /\ q.ack <= client.seq
      /\ q.flags = {"RST", "ERR"} /\ q.length = ErrLen /\ q.body = Err(EIO)
  BY <1>1, <1>8, PulledStamp
<1>10. FromServer(q)
  BY <1>4, <1>8, <1>9 DEF FromServer
<1> HIDE DEF q
<1>11. {q} \in SUBSET Header /\ \A x \in {q} : FromServer(x)
  BY <1>9, <1>10
<1> QED BY <1>2, <1>6, <1>7, <1>11, ServerAnswersInv

(* A pull on a connection that has ended only acknowledges (logic.c:28).   *)
LEMMA ServerIgnoresInv ==
  ASSUME IInv, NEW p \in c2s, ServerIgnores(p), UNCHANGED <<client, pushed, result>>
  PROVE  IInv'
<1>1. Pulls(p) /\ ~session.open /\ session' = Pulling(p) /\ ServerAnswers(p, {})
  BY DEF ServerIgnores
<1>2. /\ session' \in SessionType /\ session'.state = "ESTABLSH" /\ ~session'.open
      /\ session'.read = session.read
  BY <1>1, PullArrival
<1>3. SessionInv'
  <2>1. session.read \in Nat
    BY Constants DEF IInv, TypeOK, SessionType
  <2> QED BY <1>1, <1>2, <2>1, PulledInv
<1> QED BY <1>1, <1>2, <1>3, ServerAnswersInv

(***************************************************************************)
(* What the client may rely on when a datagram arrives.                    *)
(***************************************************************************)

(* Whatever packet of the server arrives, it ends within the stream.       *)
LEMMA ClientArrival ==
  ASSUME IInv, NEW p \in s2c
  PROVE  /\ p \in Header /\ FromServer(p) /\ client.state # "INITIAL"
         /\ p.seq + Span(p.length) <= StreamEnd
         /\ Advance(p.seq, p.length) = p.seq + Span(p.length)
<1>1. p \in Header /\ FromServer(p) /\ client.state # "INITIAL"
  BY DEF IInv, TypeOK, InFlightInv, ClientInv
<1>2. p.seq \in Nat /\ p.length \in Nat
  BY <1>1 DEF Header
<1>3. p.seq + Span(p.length) <= StreamEnd
  <2>1. CASE p.seq = 0 /\ p.length = CfgAckLen
    <3>1. Position(0) + 4 <= StreamEnd /\ Position(0) = 8
      BY StreamEndType, Constants DEF Position
    <3> QED BY <2>1, <3>1, StreamEndType DEF Span
  <2>2. CASE /\ p.body.n \in 1..NumChunks
             /\ p.seq = Position(p.body.n - 1) /\ p.length = ChunkLen(p.body.n)
    <3>1. p.seq + p.length = Position(p.body.n)
      BY <2>2, PositionStep
    <3>2. Span(p.length) = p.length
      BY <2>2, ChunkLenType DEF Span
    <3>3. Position(p.body.n) + 4 <= StreamEnd /\ Position(p.body.n) \in Nat
      BY <2>2, StreamEndType, PositionType
    <3> QED BY <3>1, <3>2, <3>3, StreamEndType
  <2> QED BY <1>1, <2>1, <2>2 DEF FromServer
<1>4. p.seq + Span(p.length) < SeqSpace
  BY <1>2, <1>3, SpanType, StreamEndType, Constants
<1> QED BY <1>1, <1>2, <1>3, <1>4, AdvanceFits

(* What accepting a datagram records.                                      *)
LEMMA ClientAcceptedInv ==
  ASSUME IInv, NEW p \in s2c, ~AlreadyAcked(client, p)
  PROVE  LET c == Accepted(client, p)
         IN /\ c \in ClientType /\ c.ack = p.seq + Span(p.length)
            /\ client.ack \in Nat /\ client.ack <= p.seq
            /\ client.ack < c.ack /\ c.ack <= StreamEnd
            /\ c.seq = client.seq /\ c.state = client.state
            /\ c.receive_window = client.receive_window
<1> DEFINE c == Accepted(client, p)
<1>1. client \in ClientType
  BY DEF IInv, TypeOK
<1>2. p.seq \in Nat /\ p.length \in Nat /\ p.window \in Nat
  BY ClientArrival DEF Header
<1>3. /\ p.seq + Span(p.length) \in Nat /\ p.seq < p.seq + Span(p.length)
      /\ Advance(p.seq, p.length) = p.seq + Span(p.length)
  BY <1>2, SpanType, ClientArrival
<1>4. /\ c \in ClientType /\ c.ack = p.seq + Span(p.length)
      /\ c.seq = client.seq /\ c.state = client.state
      /\ c.receive_window = client.receive_window
  BY <1>1, <1>2, <1>3, AcceptedClient
<1>5. client.ack \in Nat /\ client.ack <= p.seq
  BY <1>1, <1>2 DEF AlreadyAcked, ClientType
<1>6. client.ack < c.ack /\ c.ack <= StreamEnd
  BY <1>2, <1>3, <1>4, <1>5, ClientArrival
<1> QED BY <1>4, <1>5, <1>6

(* Sending a number of ACKs after another.                                 *)
LEMMA AckType ==
  ASSUME NEW c \in ClientType, NEW i \in Nat, NEW window \in {0, WindowSize},
         c.seq + i < SeqSpace
  PROVE  /\ AckAt(c, i, window) \in Header
         /\ AckAt(c, i, window).seq = c.seq + i
         /\ AckAt(c, i, window).flags = {"ACK"}
         /\ AckAt(c, i, window).length = 0
<1> DEFINE d == [c EXCEPT !.seq = c.seq + i, !.receive_window = window]
<1>1. c.seq \in Nat /\ c.seq + i \in Nat /\ (c.seq + i) % SeqSpace = c.seq + i
  BY Constants DEF ClientType
<1>2. AckAt(c, i, window) = Stamp(d, {"ACK"}, 0, NoBody)
  BY <1>1, Zenon DEF AckAt
<1>3. d.seq = c.seq + i /\ d.ack \in Nat /\ d.receive_window \in Nat
  BY <1>1, Constants DEF ClientType
<1>4. {"ACK"} \in SUBSET Flags /\ NoBody \in Body
  BY BodyType DEF Flags
<1> HIDE DEF d
<1>5. LET q == Stamp(d, {"ACK"}, 0, NoBody)
      IN q \in Header /\ q.seq = d.seq /\ q.flags = {"ACK"} /\ q.length = 0
  BY <1>1, <1>3, <1>4, StampType
<1> QED BY <1>2, <1>3, <1>5

(* ACKs advance the client's stream by one number each (client.c:123).     *)
LEMMA AfterAcksType ==
  ASSUME NEW c \in ClientType, NEW n \in Nat, NEW window \in {0, WindowSize},
         c.seq + n < SeqSpace
  PROVE  LET d == AfterAcks(c, n, window)
         IN /\ d \in ClientType /\ d.seq = c.seq + n
            /\ d.ack = c.ack /\ d.state = c.state
<1>1. c.seq \in Nat /\ c.seq + n \in Nat /\ (c.seq + n) % SeqSpace = c.seq + n
  BY Constants DEF ClientType
<1>2. AfterAcks(c, n, window) = [c EXCEPT !.seq = c.seq + n, !.receive_window = window]
  BY <1>1, Zenon DEF AfterAcks
<1> QED BY <1>1, <1>2 DEF ClientType

(***************************************************************************)
(* The client's actions.                                                   *)
(***************************************************************************)

(* A datagram below the acknowledged position is dropped                   *)
(* (client.c:184-188).                                                     *)
LEMMA ClientDropsInv ==
  ASSUME IInv, NEW p \in s2c, ClientDrops(p), UNCHANGED session
  PROVE  IInv'
<1>1. ClientAnswers(p, {}) /\ UNCHANGED <<client, pushed, result>>
  BY DEF ClientDrops
<1>2. client.state # "INITIAL"
  BY ClientArrival
<1>3. ClientInv' /\ PushedInv'
  BY <1>1, <1>2 DEF IInv, ClientInv, PushedInv
<1>4. /\ client \in ClientType /\ client.seq <= client.seq
      /\ result \in Nat \cup {Running}
      /\ pushed \in Seq([kind : {"cfg_ack", "chunk"}, n : Nat, size : Nat])
  BY ClientSeqBounded DEF IInv, TypeOK
<1> QED BY <1>1, <1>2, <1>3, <1>4, ClientAnswersInv

(* A reset ends the client, or is taken for no error and waited on;        *)
(* nothing is pushed (client.c:202-217).                                   *)
LEMMA ClientIsResetInv ==
  ASSUME IInv, NEW p \in s2c, ClientIsReset(p), UNCHANGED session
  PROVE  IInv'
<1> DEFINE c == Accepted(client, p)
           finished == ~IsSet(p, "ERR") /\ IsSet(p, "FIN")
<1>1. ~AlreadyAcked(client, p) /\ ClientAnswers(p, {}) /\ UNCHANGED pushed
  BY DEF ClientIsReset
<1>2. client' = [c EXCEPT !.state = IF finished THEN "FINISHED" ELSE @]
  BY Zenon DEF ClientIsReset
<1>3. p.body.n \in Nat /\ client.state # "INITIAL"
  BY ClientArrival DEF Header, Body
<1>4. result' \in Nat \cup {Running}
  BY <1>3 DEF ClientIsReset
<1>5. /\ c \in ClientType /\ client.ack < c.ack /\ c.ack <= StreamEnd
      /\ client.ack \in Nat
      /\ c.seq = client.seq /\ c.state = client.state
  BY <1>1, ClientAcceptedInv
<1> HIDE DEF c, finished
<1>6. /\ client' \in ClientType /\ client'.seq = client.seq
      /\ client.ack <= client'.ack /\ client'.ack <= StreamEnd
      /\ client'.state \in {"FINISHED", client.state} /\ client'.ack \in Nat
  BY <1>2, <1>5 DEF ClientType
<1>7. ClientInv'
  BY <1>1, <1>3, <1>6 DEF IInv, ClientInv, StreamEnd, Position, ChunkLen, SynLen
<1>8. PushedInv'
  <2>1. ASSUME NEW i \in 2..Len(pushed)
        PROVE  Position(pushed[i].n) \in Nat
    <3>1. pushed[i].n \in (i - 1)..NumChunks
      BY DEF IInv, PushedInv
    <3>2. pushed[i].n \in Nat
      BY <3>1, ClientSeqBounded, Constants
    <3> QED BY <3>2, PositionType
  <2>2. \A i \in 2..Len(pushed) : Position(pushed[i].n) <= client'.ack
    BY <1>5, <1>6, <2>1 DEF IInv, PushedInv
  <2>3. pushed # <<>> => CfgAckLen <= client'.ack
    BY <1>5, <1>6 DEF IInv, PushedInv
  <2> QED BY <1>1, <2>2, <2>3 DEF IInv, PushedInv
<1>9. client'.state # "INITIAL" /\ client.seq <= client'.seq
  BY <1>3, <1>6, ClientSeqBounded
<1>10. pushed \in Seq([kind : {"cfg_ack", "chunk"}, n : Nat, size : Nat])
  BY DEF IInv, TypeOK
<1> QED BY <1>1, <1>3, <1>4, <1>6, <1>7, <1>8, <1>9, <1>10, ClientAnswersInv

(* The size of a pushed chunk has a type, though not the right value.      *)
LEMMA PushedChunkType ==
  ASSUME NEW p \in Header
  PROVE  /\ PushedChunk(p).kind = p.body.kind /\ PushedChunk(p).n = p.body.n
         /\ PushedChunk(p).n \in Nat /\ PushedChunk(p).size \in Nat
         /\ p.body.kind \in {"cfg_ack", "chunk"} =>
              PushedChunk(p) \in [kind : {"cfg_ack", "chunk"}, n : Nat, size : Nat]
<1>1. p.length \in Nat /\ p.body.n \in Nat
  BY DEF Header, Body
<1>2. (p.length - CfgAckLen) % SizeSpace \in Nat
  BY <1>1, Constants
<1> QED BY <1>1, <1>2 DEF PushedChunk

(* The first packet that is no reset is a SYN-ACK: chunks are sent in      *)
(* answer to ACKs, and none has been sent yet (client.c:220-249).          *)
LEMMA ClientConfiguresInv ==
  ASSUME IInv, NEW p \in s2c, ClientConfigures(p), UNCHANGED session
  PROVE  IInv'
<1> DEFINE c == [Accepted(client, p) EXCEPT !.state = "ESTABLSH"]
           acks == {AckAt(c, i, WindowSize) : i \in 0..2}
           e == PushedChunk(p)
<1>1. /\ ~AlreadyAcked(client, p) /\ ~IsSet(p, "RST") /\ client.state = "SYN_SENT"
      /\ UNCHANGED result
  BY DEF ClientConfigures
<1>2. client' = AfterAcks(c, 3, WindowSize) /\ ClientAnswers(p, acks)
  BY Zenon DEF ClientConfigures
<1>3. pushed = <<>> /\ pushed' = Append(pushed, e)
  BY <1>1 DEF IInv, ClientInv, ClientConfigures
<1>4. /\ p \in Header /\ p.body.kind = "cfg_ack"
      /\ p.seq = 0 /\ p.length = CfgAckLen
  BY <1>1, <1>3, ClientArrival DEF FromServer, IsSet
<1>5. client.seq = SynLen /\ SynLen + 3 <= ClientEnd /\ ClientEnd < SeqSpace
  BY <1>1, <1>3, Constants DEF IInv, ClientInv
<1>6. /\ Accepted(client, p) \in ClientType /\ Accepted(client, p).seq = SynLen
      /\ Accepted(client, p).ack = 8 /\ Accepted(client, p).ack <= StreamEnd
  BY <1>1, <1>4, <1>5, ClientAcceptedInv DEF Span
<1>7. c \in ClientType /\ c.seq = SynLen /\ c.ack = 8 /\ c.state = "ESTABLSH"
  BY <1>6 DEF ClientType
<1> HIDE DEF c
<1>8. /\ client' \in ClientType /\ client'.seq = SynLen + 3
      /\ client'.ack = 8 /\ client'.state = "ESTABLSH"
  BY <1>2, <1>5, <1>7, AfterAcksType, Constants
<1>9. ASSUME NEW i \in 0..2
      PROVE  LET q == AckAt(c, i, WindowSize)
             IN /\ q \in Header /\ q.flags = {"ACK"} /\ q.length = 0
                /\ SynLen <= q.seq /\ q.seq < client'.seq
  <2>1. c.seq + i < SeqSpace /\ i \in Nat /\ WindowSize \in {0, WindowSize}
    BY <1>5, <1>7, Constants
  <2>2. LET q == AckAt(c, i, WindowSize)
        IN q \in Header /\ q.seq = SynLen + i /\ q.flags = {"ACK"} /\ q.length = 0
    BY <1>7, <2>1, AckType
  <2> QED BY <1>8, <2>2, Constants
<1>10. acks \in SUBSET Header /\ \A q \in acks :
         /\ q.flags = {"ACK"} /\ q.length = 0
         /\ SynLen <= q.seq /\ q.seq < client'.seq
  BY <1>9
<1> HIDE DEF acks
<1>11. /\ e \in [kind : {"cfg_ack", "chunk"}, n : Nat, size : Nat]
       /\ e.kind = "cfg_ack"
  BY <1>4, PushedChunkType
<1> HIDE DEF e
<1>12. /\ pushed' \in Seq([kind : {"cfg_ack", "chunk"}, n : Nat, size : Nat])
       /\ Len(pushed') = 1 /\ pushed'[1] = e /\ pushed' # <<>>
  BY <1>3, <1>11
<1>13. ClientInv'
  <2>1. client'.seq = SynLen + 1 + 2 * Len(pushed')
    BY <1>8, <1>12, Constants
  <2>2. client'.ack <= StreamEnd
    BY <1>6, <1>8
  <2> QED BY <1>8, <1>12, <2>1, <2>2
       DEF ClientInv, StreamEnd, Position, ChunkLen, SynLen
<1>14. PushedInv'
  BY <1>8, <1>11, <1>12 DEF PushedInv
<1>15. client.seq <= client'.seq /\ result' \in Nat \cup {Running}
  BY <1>1, <1>5, <1>8, Constants DEF IInv, TypeOK
<1>16. client.state # "INITIAL" /\ client'.state # "INITIAL"
  BY <1>1, <1>8
<1> QED BY <1>2, <1>8, <1>10, <1>12, <1>13, <1>14, <1>15, <1>16, ClientAnswersInv

(* What a client that plays is given is the next chunk or a later one.     *)
LEMMA PlaysNext ==
  ASSUME IInv, NEW p \in s2c, ~AlreadyAcked(client, p), ~IsSet(p, "RST"),
         client.state = "ESTABLSH"
  PROVE  /\ p.body.kind = "chunk" /\ p.body.n \in Len(pushed)..NumChunks
         /\ Accepted(client, p).ack = Position(p.body.n)
         /\ \A i \in 2..Len(pushed) : pushed[i].n < p.body.n
<1>1. pushed # <<>> /\ 8 <= client.ack
  BY DEF IInv, ClientInv, PushedInv
<1>2. /\ client.ack \in Nat /\ client.ack <= p.seq
      /\ Accepted(client, p).ack = p.seq + Span(p.length)
  BY ClientAcceptedInv
<1>3. /\ p.body.kind = "chunk" /\ p.body.n \in 1..NumChunks
      /\ p.seq = Position(p.body.n - 1) /\ p.length = ChunkLen(p.body.n)
  BY <1>1, <1>2, ClientArrival DEF FromServer, IsSet
<1>4. Accepted(client, p).ack = Position(p.body.n)
  BY <1>2, <1>3, ChunkLenType, PositionStep DEF Span
<1>5. ASSUME NEW i \in 2..Len(pushed)
      PROVE  pushed[i].n \in (i - 1)..NumChunks /\ pushed[i].n < p.body.n
  <2>1. pushed[i].n \in (i - 1)..NumChunks /\ Position(pushed[i].n) <= client.ack
    BY DEF IInv, PushedInv
  <2>2. /\ pushed[i].n \in 0..NumChunks /\ p.body.n - 1 \in 0..NumChunks
        /\ pushed[i].n \in Nat /\ p.body.n - 1 \in Nat
    BY <1>3, <2>1, ClientSeqBounded, Constants
  <2>3. Position(pushed[i].n) \in Nat /\ Position(p.body.n - 1) \in Nat
    BY <2>2, PositionType
  <2>4. Position(pushed[i].n) <= Position(p.body.n - 1)
    BY <1>2, <1>3, <2>1, <2>3
  <2>5. ~(p.body.n - 1 < pushed[i].n)
    BY <2>2, <2>3, <2>4, PositionMonotone
  <2> QED BY <1>3, <2>1, <2>2, <2>5, Constants
<1> DEFINE L == Len(pushed)
<1>6. L \in Nat /\ L # 0
  BY <1>1 DEF IInv, TypeOK
<1>7. L >= 2 => pushed[L].n \in (L - 1)..NumChunks /\ pushed[L].n < p.body.n
  <2> SUFFICES ASSUME L >= 2
               PROVE  pushed[L].n \in (L - 1)..NumChunks /\ pushed[L].n < p.body.n
    OBVIOUS
  <2>1. L \in 2..Len(pushed)
    BY <1>6
  <2> QED BY <1>5, <2>1
<1>8. p.body.n \in L..NumChunks
  <2> HIDE DEF L
  <2>1. CASE L = 1
    BY <1>3, <2>1, Constants
  <2>2. CASE L >= 2
    BY <1>3, <1>6, <1>7, <2>2, Constants
  <2> QED BY <1>6, <2>1, <2>2
<1> QED BY <1>3, <1>4, <1>5, <1>8

(* A chunk that is not dropped lies at or above the acknowledged position, *)
(* and so after all that was pushed (client.c:250-259).                    *)
LEMMA ClientPlaysInv ==
  ASSUME IInv, NEW p \in s2c, ClientPlays(p), UNCHANGED session
  PROVE  IInv'
<1> DEFINE c == Accepted(client, p)
           acks == {AckAt(c, 0, WindowSize), AckAt(c, 1, 0)}
           e == PushedChunk(p)
           L == Len(pushed)
<1>1. /\ ~AlreadyAcked(client, p) /\ ~IsSet(p, "RST") /\ client.state = "ESTABLSH"
      /\ UNCHANGED result /\ pushed' = Append(pushed, e)
  BY DEF ClientPlays
<1>2. client' = AfterAcks(c, 2, 0) /\ ClientAnswers(p, acks)
  BY Zenon DEF ClientPlays
<1>3. /\ p.body.kind = "chunk" /\ p.body.n \in L..NumChunks
      /\ c.ack = Position(p.body.n)
      /\ \A i \in 2..L : pushed[i].n < p.body.n
  BY <1>1, PlaysNext
<1>4. L \in Nat /\ L # 0 /\ L <= NumChunks /\ pushed # <<>>
  BY <1>1, <1>3, ClientSeqBounded, Constants DEF IInv, ClientInv, TypeOK
<1>5. /\ client.seq = SynLen + 1 + 2 * L
      /\ client.seq + 2 <= ClientEnd /\ client.seq \in Nat
  BY <1>1, <1>4, Constants DEF IInv, ClientInv
<1>6. /\ c \in ClientType /\ client.ack \in Nat /\ client.ack < c.ack
      /\ c.ack <= StreamEnd /\ c.seq = client.seq /\ c.state = "ESTABLSH"
  BY <1>1, ClientAcceptedInv
<1> HIDE DEF c
<1>7. /\ client' \in ClientType /\ client'.seq = client.seq + 2
      /\ client'.ack = c.ack /\ client'.state = "ESTABLSH"
  BY <1>2, <1>5, <1>6, AfterAcksType, Constants
<1>8. ASSUME NEW i \in 0..1, NEW w \in {0, WindowSize}
      PROVE  LET q == AckAt(c, i, w)
             IN /\ q \in Header /\ q.flags = {"ACK"} /\ q.length = 0
                /\ SynLen <= q.seq /\ q.seq < client'.seq
  <2>1. c.seq + i < SeqSpace /\ i \in Nat
    BY <1>5, <1>6, Constants
  <2>2. LET q == AckAt(c, i, w)
        IN q \in Header /\ q.seq = client.seq + i /\ q.flags = {"ACK"} /\ q.length = 0
    BY <1>6, <2>1, AckType
  <2>3. SynLen <= client.seq + i /\ client.seq + i < client'.seq
    BY <1>4, <1>5, <1>7, Constants
  <2> QED BY <2>2, <2>3
<1>9. acks \in SUBSET Header /\ \A q \in acks :
        /\ q.flags = {"ACK"} /\ q.length = 0
        /\ SynLen <= q.seq /\ q.seq < client'.seq
  BY <1>8
<1> HIDE DEF acks
<1>10. /\ e \in [kind : {"cfg_ack", "chunk"}, n : Nat, size : Nat]
       /\ e.kind = "chunk" /\ e.n = p.body.n
  BY <1>3, ClientArrival, PushedChunkType
<1> HIDE DEF e
<1>11. /\ pushed' \in Seq([kind : {"cfg_ack", "chunk"}, n : Nat, size : Nat])
       /\ Len(pushed') = L + 1 /\ pushed' # <<>>
  BY <1>1, <1>10 DEF IInv, TypeOK
<1>12. pushed'[L + 1] = e /\ \A i \in 1..L : pushed'[i] = pushed[i]
  BY <1>1, <1>10 DEF IInv, TypeOK
<1>13. pushed[1].kind = "cfg_ack" /\ CfgAckLen <= client.ack
  BY <1>4 DEF IInv, PushedInv
<1>14. \A i \in 2..L : /\ pushed[i].kind = "chunk"
                       /\ pushed[i].n \in (i - 1)..NumChunks
                       /\ Position(pushed[i].n) <= client.ack
  BY DEF IInv, PushedInv
<1>15. \A i, j \in 2..L : i < j => pushed[i].n < pushed[j].n
  BY DEF IInv, PushedInv
<1> HIDE DEF L
<1>16. ClientInv'
  <2>1. client'.seq = SynLen + 1 + 2 * Len(pushed')
    BY <1>4, <1>5, <1>7, <1>11, Constants
  <2>2. client'.ack <= StreamEnd
    BY <1>6, <1>7
  <2>3. client'.seq = SynLen + (IF pushed' = <<>> THEN 0 ELSE 1 + 2 * Len(pushed'))
    BY <1>4, <1>11, <2>1, Constants
  <2> QED BY <1>7, <1>11, <2>2, <2>3
       DEF ClientInv, StreamEnd, Position, ChunkLen, SynLen
<1>17. PushedInv'
  <2>1. pushed'[1].kind = "cfg_ack" /\ CfgAckLen <= client'.ack
    <3>1. 1 \in 1..L /\ client'.ack \in Nat
      BY <1>4, <1>7 DEF ClientType
    <3> QED BY <1>6, <1>7, <1>12, <1>13, <3>1
  <2>2. ASSUME NEW i \in 2..Len(pushed')
        PROVE  /\ pushed'[i].kind = "chunk"
               /\ pushed'[i].n \in (i - 1)..NumChunks
               /\ Position(pushed'[i].n) <= client'.ack
    <3>1. CASE i = L + 1
      <4>1. Position(p.body.n) <= client'.ack
        <5>1. p.body.n \in Nat
          BY <1>3, <1>4, Constants
        <5>2. client'.ack = Position(p.body.n)
          BY <1>3, <1>7
        <5>3. Position(p.body.n) \in Nat
          BY <5>1, PositionType
        <5> QED BY <5>2, <5>3
      <4>2. pushed'[i].n = p.body.n /\ pushed'[i].kind = "chunk"
        BY <1>10, <1>12, <3>1
      <4> QED BY <1>3, <1>4, <3>1, <4>1, <4>2
    <3>2. CASE i \in 2..L
      <4>1. /\ pushed[i].kind = "chunk" /\ pushed[i].n \in (i - 1)..NumChunks
            /\ Position(pushed[i].n) <= client.ack
        BY <1>14, <3>2
      <4>2. pushed[i].n \in Nat
        BY <1>4, <3>2, <4>1, Constants
      <4>3. Position(pushed[i].n) \in Nat /\ c.ack \in Nat
        BY <1>6, <4>2, PositionType DEF ClientType
      <4>4. pushed'[i] = pushed[i]
        BY <1>4, <1>12, <3>2
      <4>5. Position(pushed[i].n) <= client'.ack
        BY <1>6, <1>7, <4>1, <4>3
      <4> QED BY <4>1, <4>4, <4>5
    <3> QED BY <1>4, <1>11, <3>1, <3>2
  <2>3. ASSUME NEW i \in 2..Len(pushed'), NEW j \in 2..Len(pushed'), i < j
        PROVE  pushed'[i].n < pushed'[j].n
    <3>1. i \in 2..L /\ pushed'[i] = pushed[i]
      BY <1>4, <1>11, <1>12, <2>3
    <3>2. CASE j = L + 1
      BY <1>3, <1>10, <1>12, <3>1, <3>2
    <3>3. CASE j \in 2..L
      <4>1. pushed'[j] = pushed[j]
        BY <1>4, <1>12, <3>3
      <4> QED BY <1>15, <2>3, <3>1, <3>3, <4>1
    <3> QED BY <1>4, <1>11, <3>2, <3>3
  <2> QED BY <2>1, <2>2, <2>3 DEF PushedInv, Position, ChunkLen
<1>18. client.seq <= client'.seq /\ result' \in Nat \cup {Running}
  BY <1>1, <1>5, <1>7 DEF IInv, TypeOK
<1>19. client.state # "INITIAL" /\ client'.state # "INITIAL"
  BY <1>1, <1>7
<1> QED BY <1>2, <1>7, <1>9, <1>11, <1>16, <1>17, <1>18, <1>19, ClientAnswersInv

(***************************************************************************)
(* The other steps: connecting, giving up, forgetting, losing.             *)
(***************************************************************************)

(* Sending the SYN, or failing to.                                         *)
LEMMA SynSentType ==
  ASSUME IInv, client.state = "INITIAL"
  PROVE  /\ SynSent \in ClientType /\ SynSent.state = "SYN_SENT"
         /\ SynSent.seq = SynLen /\ SynSent.ack = 0
         /\ client.seq = 0 /\ pushed = <<>> /\ c2s = {} /\ s2c = {}
<1>1. /\ client \in ClientType /\ client.seq = 0 /\ client.ack = 0
      /\ pushed = <<>> /\ c2s = {} /\ s2c = {}
  BY DEF IInv, TypeOK, ClientInv
<1>2. 0 + Span(SynLen) = SynLen /\ SynLen < SeqSpace
  BY Constants DEF Span
<1>3. Advance(client.seq, SynLen) = SynLen
  BY <1>1, <1>2, AdvanceFits, Constants
<1>4. SynSent = [client EXCEPT !.seq = SynLen, !.state = "SYN_SENT"]
  <2>1. AfterSend(client, SynLen) = [client EXCEPT !.seq = SynLen]
    BY <1>3, Zenon DEF AfterSend
  <2>2. SynSent = [[client EXCEPT !.seq = SynLen] EXCEPT !.state = "SYN_SENT"]
    BY <2>1, Zenon DEF SynSent
  <2> QED BY <1>1, <2>2 DEF ClientType
<1> QED BY <1>1, <1>4, Constants DEF ClientType

(* Nothing but the client's state changes: what the others rely on holds   *)
(* on.                                                                     *)
LEMMA SynSentInv ==
  ASSUME IInv, client.state = "INITIAL", client' = SynSent,
         UNCHANGED <<session, pushed, s2c>>
  PROVE  SessionInv' /\ ClientInv' /\ PushedInv'
<1>1. /\ SynSent.state = "SYN_SENT" /\ SynSent.seq = SynLen /\ SynSent.ack = 0
      /\ client.seq = 0 /\ pushed = <<>>
  BY SynSentType
<1>2. session.ack \in Nat /\ session.ack <= SynLen
  BY <1>1, Constants DEF IInv, TypeOK, SessionType, SessionInv
<1>3. SessionInv'
  BY <1>1, <1>2 DEF IInv, SessionInv
<1>4. ClientInv'
  <2>1. 0 <= StreamEnd /\ SynLen = SynLen + 0
    BY StreamEndType, Constants
  <2> QED BY <1>1, <2>1 DEF ClientInv, StreamEnd, Position, ChunkLen, SynLen
<1>5. PushedInv'
  BY <1>1 DEF PushedInv
<1> QED BY <1>3, <1>4, <1>5

(* The SYN is the first datagram of all (client.c:134-160).                *)
LEMMA ConnectStepInv ==
  ASSUME IInv, ConnectStep
  PROVE  IInv'
<1> DEFINE q == Stamp(client, {"SYN"}, SynLen, Cfg(0))
<1>1. /\ client.state = "INITIAL" /\ client' = SynSent
      /\ UNCHANGED <<session, s2c, pushed, result>>
  BY DEF ConnectStep, ClientConnects
<1>2. c2s' = c2s \cup {q}
  BY Zenon DEF ConnectStep, ClientConnects
<1>3. /\ SynSent \in ClientType /\ SynSent.state = "SYN_SENT" /\ SynSent.seq = SynLen
      /\ client.seq = 0 /\ c2s = {} /\ s2c = {}
  BY <1>1, SynSentType
<1>4. client.seq \in Nat /\ client.ack \in Nat /\ client.receive_window \in Nat
  BY Constants DEF IInv, TypeOK, ClientType
<1>5. {"SYN"} \in SUBSET Flags /\ Cfg(0) \in Body
  BY BodyType DEF Flags
<1>6. /\ q \in Header /\ q.seq = 0 /\ q.flags = {"SYN"}
      /\ q.length = SynLen /\ q.body = Cfg(0)
  BY <1>3, <1>4, <1>5, StampType, Constants
<1> HIDE DEF q
<1>7. TypeOK'
  BY <1>1, <1>2, <1>3, <1>6 DEF IInv, TypeOK
<1>8. SessionInv' /\ ClientInv' /\ PushedInv'
  BY <1>1, SynSentInv
<1>9. InFlightInv'
  <2> SUFFICES ASSUME NEW p \in c2s' PROVE FromClient(p)'
    BY <1>1, <1>3 DEF InFlightInv
  <2>1. p = q
    BY <1>2, <1>3
  <2>2. p.flags = {"SYN"} /\ p.seq = 0 /\ p.length = SynLen /\ p.body = Cfg(0)
    BY <1>6, <2>1
  <2> QED BY <1>1, <1>3, <2>2 DEF FromClient, SynLen, Cfg
<1> QED BY <1>7, <1>8, <1>9 DEF IInv

(* A client whose socket fails keeps its place, the SYN's included when    *)
(* that is what could not be sent (client.c:267-317).                      *)
LEMMA ClientStopsInv ==
  ASSUME IInv, ClientStops
  PROVE  IInv'
<1>1. UNCHANGED <<session, c2s, s2c, pushed>> /\ result' \in Nat
  BY ClientAssumption DEF ClientStops, ClientFails
<1>2. CASE client.state = "INITIAL"
  <2>1. client' = SynSent
    BY <1>2 DEF ClientStops, ClientFails
  <2>2. SessionInv' /\ ClientInv' /\ PushedInv'
    BY <1>1, <1>2, <2>1, SynSentInv
  <2>3. SynSent \in ClientType /\ c2s = {} /\ s2c = {}
    BY <1>2, SynSentType
  <2>4. TypeOK' /\ InFlightInv'
    BY <1>1, <2>1, <2>3 DEF IInv, TypeOK, InFlightInv
  <2> QED BY <2>2, <2>4 DEF IInv
<1>3. CASE client.state # "INITIAL"
  <2>1. UNCHANGED client
    BY <1>3 DEF ClientStops, ClientFails
  <2> QED BY <1>1, <2>1 DEF IInv, TypeOK, SessionInv, ClientInv, PushedInv,
                            InFlightInv, FromClient, FromServer
<1> QED BY <1>2, <1>3

(* A client that gives up changes nothing but its result                   *)
(* (client.c:294-296).                                                     *)
LEMMA ClientExpiresInv ==
  ASSUME IInv, ClientExpires
  PROVE  IInv'
<1>1. UNCHANGED <<session, c2s, s2c, client, pushed>> /\ result' \in Nat
  BY DEF ClientExpires, ClientTimesOut
<1> QED BY <1>1 DEF IInv, TypeOK, SessionInv, ClientInv, PushedInv,
                    InFlightInv, FromClient, FromServer

(* A session that is forgotten leaves its datagrams in flight, each of     *)
(* which still says where it belongs (timeout.c:16-21).                    *)
LEMMA SessionExpiresInv ==
  ASSUME IInv, SessionExpires
  PROVE  IInv'
<1>1. session' = NoSession /\ UNCHANGED <<c2s, s2c, client, pushed, result>>
  BY DEF SessionExpires, ServerExpires
<1>2. session' \in SessionType /\ SessionInv'
  BY <1>1, NoSessionInv
<1>3. TypeOK'
  BY <1>1, <1>2 DEF IInv, TypeOK
<1> QED BY <1>1, <1>2, <1>3 DEF IInv, ClientInv, PushedInv,
                                InFlightInv, FromClient, FromServer

(* What is lost breaks no promise of what is not.                          *)
LEMMA LossInv ==
  ASSUME IInv, Loss
  PROVE  IInv'
<1>1. /\ c2s' \subseteq c2s /\ s2c' \subseteq s2c
      /\ UNCHANGED <<session, client, pushed, result>>
  BY DEF Loss, Lose
<1> QED BY <1>1 DEF IInv, TypeOK, SessionInv, ClientInv, PushedInv,
                    InFlightInv, FromClient, FromServer

(***************************************************************************)
(* The invariant is inductive, and the safety properties follow from it.   *)
(***************************************************************************)

(* Nothing is in flight, and no session there, when the programs start.    *)
LEMMA InvInit == Init => IInv
<1> SUFFICES ASSUME Init PROVE IInv
  OBVIOUS
<1>1. session = NoSession /\ c2s = {} /\ s2c = {} /\ pushed = <<>> /\ result = Running
  BY DEF Init, ServerInit, ClientInit
<1>2. /\ client \in ClientType /\ client.state = "INITIAL"
      /\ client.seq = 0 /\ client.ack = 0
  BY Constants DEF Init, ClientInit, ClientType
<1>3. /\ session \in SessionType /\ session.state = "NONE"
      /\ session.ack = 0 /\ session.open = FALSE
  BY <1>1, Constants DEF NoSession, SessionType
<1>4. TypeOK
  BY <1>1, <1>2, <1>3 DEF TypeOK
<1>5. SessionInv
  BY <1>1, <1>2, <1>3 DEF SessionInv, Streams
<1>6. ClientInv /\ PushedInv /\ InFlightInv
  BY <1>1, <1>2, StreamEndType DEF ClientInv, PushedInv, InFlightInv
<1> QED BY <1>4, <1>5, <1>6 DEF IInv

(* Each step of either program or of the network keeps the invariant.      *)
LEMMA InvNext == IInv /\ [Next]_vars => IInv'
<1> SUFFICES ASSUME IInv, [Next]_vars PROVE IInv'
  OBVIOUS
<1>1. CASE ConnectStep
  BY <1>1, ConnectStepInv
<1>2. CASE ClientStep
  <2>1. UNCHANGED session
    BY <1>2 DEF ClientStep
  <2>2. PICK p \in s2c : \/ ClientDrops(p) \/ ClientIsReset(p)
                         \/ ClientConfigures(p) \/ ClientPlays(p)
    BY <1>2 DEF ClientStep, ClientReceives, Receivable
  <2> QED BY <2>1, <2>2, ClientDropsInv, ClientIsResetInv, ClientConfiguresInv,
             ClientPlaysInv
<1>3. CASE ClientExpires
  BY <1>3, ClientExpiresInv
<1>4. CASE ClientStops
  BY <1>4, ClientStopsInv
<1>5. CASE ServerStep
  <2>1. UNCHANGED <<client, pushed, result>>
    BY <1>5 DEF ServerStep
  <2>2. PICK p \in c2s :
          \/ ServerDrops(p) \/ ServerForgets(p) \/ ServerRejects(p)
          \/ ServerRefuses(p) \/ ServerOpens(p) \/ ServerSendsChunk(p)
          \/ ServerFinishes(p) \/ ServerFails(p) \/ ServerIgnores(p)
    BY <1>5 DEF ServerStep, ServerReceives, Receivable
  <2> QED BY <2>1, <2>2, ServerDropsInv, ServerForgetsInv, ServerRejectsInv,
             ServerRefusesInv, ServerOpensInv, ServerSendsChunkInv,
             ServerFinishesInv, ServerFailsInv, ServerIgnoresInv
<1>6. CASE SessionExpires
  BY <1>6, SessionExpiresInv
<1>7. CASE Loss
  BY <1>7, LossInv
<1>8. CASE UNCHANGED vars
  BY <1>8 DEF vars, IInv, TypeOK, SessionInv, ClientInv, PushedInv,
              InFlightInv, FromClient, FromServer
<1> QED BY <1>1, <1>2, <1>3, <1>4, <1>5, <1>6, <1>7, <1>8 DEF Next, ProgramStep

(* The inductive invariant holds of every behaviour: whatever is lost,     *)
(* repeated, reordered or delayed.                                         *)
THEOREM Invariance == Spec => []IInv
  BY InvInit, InvNext, PTL DEF Spec

(* Type correctness of both programs' state and of all packets.            *)
THEOREM TypeCorrect == Spec => []TypeOK
<1>1. IInv => TypeOK
  BY DEF IInv
<1> QED BY <1>1, Invariance, PTL

(* The sink is given every chunk at most once, and in the file's order     *)
(* (client.c:184).                                                         *)
THEOREM OrderedPlayback == Spec => []PlayedInOrder
<1>1. IInv => PlayedInOrder
  <2> SUFFICES ASSUME IInv, NEW i \in 1..NumPlayed, NEW j \in 1..NumPlayed, i < j
               PROVE  Played[i] < Played[j]
    BY DEF PlayedInOrder
  <2>1. Len(pushed) \in Nat /\ NumPlayed <= Len(pushed) - 1 /\ NumPlayed \in Nat
    BY DEF IInv, TypeOK, NumPlayed
  <2>2. i + 1 \in 2..Len(pushed) /\ j + 1 \in 2..Len(pushed) /\ i + 1 < j + 1
    BY <2>1
  <2>3. pushed[i + 1].n < pushed[j + 1].n
    BY <2>2 DEF IInv, PushedInv
  <2> QED BY <2>3 DEF Played
<1> QED BY <1>1, Invariance, PTL

(* Audio is never taken for the configuration, nor the reverse             *)
(* (client.c:219, 250).                                                    *)
THEOREM ConfigurationComesFirst == Spec => []ConfigurationFirst
<1>1. IInv => ConfigurationFirst
  <2> SUFFICES ASSUME IInv, NEW i \in 1..Len(pushed)
               PROVE  pushed[i].kind = (IF i = 1 THEN "cfg_ack" ELSE "chunk")
    BY DEF ConfigurationFirst
  <2>1. Len(pushed) \in Nat /\ pushed # <<>>
    BY DEF IInv, TypeOK
  <2>2. i = 1 \/ i \in 2..Len(pushed)
    BY <2>1
  <2> QED BY <2>1, <2>2 DEF IInv, PushedInv
<1> QED BY <1>1, Invariance, PTL

(* A chunk's sequence number is its place in the server's byte stream      *)
(* (session.c:181).                                                        *)
THEOREM ChunksAtTheirPlace == Spec => []StreamIndex
<1>1. IInv => StreamIndex
  <2> SUFFICES ASSUME IInv, NEW p \in s2c, p.body.kind = "chunk"
               PROVE  p.seq = Position(p.body.n - 1) /\ p.length = ChunkLen(p.body.n)
    BY DEF StreamIndex
  <2>1. FromServer(p)
    BY DEF IInv, InFlightInv
  <2> QED BY <2>1 DEF FromServer
<1> QED BY <1>1, Invariance, PTL

(* A chunk costs the client a datagram of its own, however often that is   *)
(* delivered (session.c:280).                                              *)
THEOREM OneChunkPerDatagram == Spec => []ChunksAreAsked
<1>1. IInv => ChunksAreAsked
  <2> SUFFICES ASSUME IInv, session.open PROVE SynLen + session.read <= client.seq
    BY DEF ChunksAreAsked
  <2>1. SynLen + session.read <= session.ack /\ session.ack <= client.seq
    BY DEF IInv, SessionInv
  <2>2. /\ session.read \in Nat /\ session.ack \in Nat /\ client.seq \in Nat
    BY Constants DEF IInv, TypeOK, SessionType, ClientType
  <2> QED BY <2>1, <2>2, Constants
<1> QED BY <1>1, Invariance, PTL

(* Neither side acknowledges what the other has not sent (session.c:295,   *)
(* client.c:199).                                                          *)
THEOREM OnlySentIsAcked == Spec => []AcksAreOfSent
<1>1. IInv => AcksAreOfSent
  BY DEF IInv, SessionInv, ClientInv, InFlightInv, FromServer, AcksAreOfSent, StreamEnd
<1> QED BY <1>1, Invariance, PTL

(* What was rejected is after the SYN, so that a SYN is below it however   *)
(* late it comes, and a stream that has ended is not pulled from: once it  *)
(* has sent a reset a session sends nothing else (session.c:280-309,       *)
(* logic.c:28).                                                            *)
THEOREM ResetSessionsStayReset == Spec => OnlyResetsAfterReset
<1>1. ASSUME IInv, [Next]_vars, HasSentReset, session'.state # "NONE"
      PROVE  SendsResets
  <2> USE DEF SendsResets
  <2>1. CASE ServerStep
    <3>1. PICK p \in c2s :
            \/ ServerDrops(p) \/ ServerForgets(p) \/ ServerIgnores(p)
            \/ ServerRejects(p) \/ ServerRefuses(p) \/ ServerOpens(p)
            \/ ServerSendsChunk(p) \/ ServerFinishes(p) \/ ServerFails(p)
      BY <2>1 DEF ServerStep, ServerReceives, Receivable
    <3>2. Get = session /\ session.state \in {"INITIAL", "ESTABLSH"}
      BY <1>1 DEF HasSentReset, Get
    <3>3. ~ServerRefuses(p) /\ ~ServerOpens(p)
      <4>1. SUFFICES ASSUME Handles(p, {"INITIAL"}), IsSet(p, "SYN") PROVE FALSE
        BY DEF ServerRefuses, ServerOpens
      <4>2. p.seq = 0 /\ p.seq >= session.ack
        <5>1. p.seq = 0
          BY <1>1, <4>1 DEF IInv, InFlightInv, FromClient, IsSet
        <5>2. session.ack \in Nat
          BY <1>1 DEF IInv, TypeOK, SessionType
        <5> QED
          BY <3>2, <4>1, <5>1, <5>2 DEF Handles, AlreadyAcked
      <4>3. session.seq \in Nat /\ session.seq + SynLen <= session.ack
        BY <1>1, <3>2, <4>1 DEF IInv, TypeOK, SessionType, SessionInv, Handles
      <4>4. session.ack \in Nat /\ SynLen \in Nat /\ SynLen > 0
        BY <1>1, Constants DEF IInv, TypeOK, SessionType, SynLen, CfgLen
      <4> QED
        BY <4>2, <4>3, <4>4
    <3>4. ~ServerSendsChunk(p) /\ ~ServerFinishes(p) /\ ~ServerFails(p)
      <4>1. CASE session.state = "INITIAL"
        BY <3>2, <4>1 DEF ServerSendsChunk, ServerFinishes, ServerFails, Pulls, Handles
      <4>2. CASE ~session.open
        BY <4>2 DEF ServerSendsChunk, ServerFinishes, ServerFails
      <4> QED
        BY <1>1, <4>1, <4>2 DEF HasSentReset
    <3>5. CASE ServerDrops(p) \/ ServerForgets(p) \/ ServerIgnores(p)
      BY <3>5 DEF ServerDrops, ServerForgets, ServerIgnores, ServerAnswers
    <3>6. CASE ServerRejects(p)
      BY <3>6 DEF ServerRejects, ServerAnswers, Stamp, IsSet
    <3> QED
      BY <3>1, <3>3, <3>4, <3>5, <3>6
  <2>2. CASE ClientStep
    <3>1. PICK p \in s2c :
            ClientDrops(p) \/ ClientIsReset(p) \/ ClientConfigures(p) \/ ClientPlays(p)
      BY <2>2 DEF ClientStep, ClientReceives, Receivable
    <3> QED
      BY <3>1 DEF ClientDrops, ClientIsReset, ClientConfigures, ClientPlays,
                  ClientAnswers, AfterReceive
  <2>3. CASE ConnectStep \/ ClientExpires \/ ClientStops \/ SessionExpires \/ UNCHANGED vars
    BY <2>3 DEF ConnectStep, ClientConnects, ClientExpires, ClientTimesOut, ClientStops,
                ClientFails, SessionExpires, ServerExpires, vars
  <2>4. CASE Loss
    BY <2>4 DEF Loss, Lose
  <2> QED
    BY <1>1, <2>1, <2>2, <2>3, <2>4 DEF Next, ProgramStep
<1> QED
  BY <1>1, Invariance, PTL DEF Spec, OnlyResetsAfterReset
=============================================================================
