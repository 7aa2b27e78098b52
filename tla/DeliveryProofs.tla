-------------------------- MODULE DeliveryProofs ---------------------------
(***************************************************************************)
(* What a stream owes to the network: proofs about Streaming in networks   *)
(* that do not delay, lose or reorder, from the invariants of DeliveryInv; *)
(* and in all of them, of its abstract specification and of the packets    *)
(* as bytes.                                                               *)
(***************************************************************************)
EXTENDS StreamingProofs, MCLossyLink, SequenceTheorems

USE DEF EOK, ENOENT, EIO, EINVAL, ECONNRESET, ETIMEDOUT, Running,
        ChunkSize, CfgLen, CfgAckLen, ErrLen

(***************************************************************************)
(* What the server's handlers send, and what becomes of the session.       *)
(***************************************************************************)

(* Datagrams have a sequence number after their last one.                  *)
LEMMA AfterType ==
  ASSUME NEW p \in Header PROVE After(p) \in Nat /\ p.seq < After(p) /\ p.seq \in Nat
<1>1. p.seq \in Nat /\ p.length \in Nat
  BY DEF Header
<1> QED
  BY <1>1, SpanType DEF After

(* A datagram that is pulled for is the newest that the session has seen.  *)
LEMMA PullIsNew ==
  ASSUME IInv, NEW p \in c2s, Pulls(p)
  PROVE  /\ session.state \in Streams /\ Get = session
         /\ session.ack \in Nat /\ session.seq \in Nat /\ session.ack <= p.seq
         /\ Pulling(p).ack = After(p)
<1>1. ~AlreadyAcked(Get, p) /\ Get.state \in Streams /\ Get = session
  BY PullArrival DEF Pulls, Handles, Streams
<1>2. session.ack \in Nat /\ session.seq \in Nat /\ p.seq \in Nat
  BY ServerArrival DEF IInv, TypeOK, SessionType, Header
<1>3. Accepted(Get, p) \in SessionType /\ Accepted(Get, p).ack = After(p)
  BY <1>1, AcceptedInv DEF After
<1>4. Pulling(p).ack = After(p)
  <2>1. Pulling(p) = [Accepted(Get, p) EXCEPT !.state = "ESTABLSH"]
    BY Zenon DEF Pulling
  <2> HIDE DEF Accepted
  <2> QED
    BY <1>3, <2>1 DEF SessionType
<1> QED
  BY <1>1, <1>2, <1>4 DEF AlreadyAcked

(* A pull on an open connection sends one packet at the session's place in *)
(* its stream, and moves that to the packet's end (session.c:186,          *)
(* sink.c:20-41).                                                          *)
Emitted(p, q) ==
  /\ ServerAnswers(p, {q})
  /\ q.seq = session.seq /\ After(q) = session'.seq
  /\ ~session'.open => IsSet(q, "RST")
  /\ GoesWithFlags(q)

LEMMA PulledSends ==
  ASSUME IInv, NEW p \in c2s, Pulls(p), session.open,
         NEW flags \in SUBSET Flags, NEW length \in Nat, NEW body \in Body,
         session.seq + Span(length) < SeqSpace
  PROVE  LET t == AfterSend(Pulling(p), length)
             q == Stamp(Pulling(p), flags, length, body)
         IN /\ t \in SessionType /\ t.state = "ESTABLSH" /\ t.ack = After(p)
            /\ t.open
            /\ q \in Header /\ q.seq = session.seq /\ After(q) = t.seq
            /\ q.flags = flags /\ q.length = length /\ q.body = body
<1> DEFINE t == AfterSend(Pulling(p), length)
           q == Stamp(Pulling(p), flags, length, body)
<1>1. /\ Pulling(p) \in SessionType /\ Pulling(p).state = "ESTABLSH"
      /\ Pulling(p).seq = session.seq /\ Pulling(p).ack = After(p)
      /\ Pulling(p).open
  BY PullArrival, PullIsNew
<1>2. t \in SessionType /\ t.seq = session.seq + Span(length)
      /\ t.ack = After(p) /\ t.state = "ESTABLSH" /\ t.open
  BY <1>1, AfterSendSession
<1>3. /\ q \in Header /\ q.seq = session.seq
      /\ q.flags = flags /\ q.length = length /\ q.body = body
  BY PulledStamp
<1> HIDE DEF q, t
<1>4. After(q) = t.seq
  BY <1>2, <1>3 DEF After
<1> QED
  BY <1>2, <1>3, <1>4 DEF q, t

LEMMA Emits ==
  ASSUME IInv, NEW p \in c2s, ServerSendsChunk(p) \/ ServerFinishes(p) \/ ServerFails(p)
  PROVE  /\ Pulls(p) /\ session.open
         /\ session'.state = "ESTABLSH" /\ session'.ack = After(p)
         /\ \E q \in Header : Emitted(p, q)
<1>1. Pulls(p) /\ session.open
  BY DEF ServerSendsChunk, ServerFinishes, ServerFails
<1>2. session.seq = Position(session.read) /\ session.read \in 0..NumChunks
  BY <1>1 DEF IInv, SessionInv, TypeOK, SessionType
<1>3. CfgAckLen <= session.seq /\ session.seq \in Nat /\ session.seq + 4 < SeqSpace
  <2>1. session.read \in Nat
    BY <1>2, Constants
  <2> QED
    BY <1>2, <2>1, PositionType, StreamEndType, Constants
<1>4. CASE ServerSendsChunk(p)
  <2> DEFINE k == session.read + 1
             none == {}
             t == AfterSend(Pulling(p), ChunkLen(k))
             q == Stamp(Pulling(p), none, ChunkLen(k), Chunk(k))
  <2>1. k <= NumChunks /\ session' = [t EXCEPT !.read = k] /\ ServerAnswers(p, {q})
    BY <1>4, Zenon DEF ServerSendsChunk
  <2>2. k \in 1..NumChunks /\ k \in Nat /\ session.seq = Position(k - 1)
    BY <1>2, <2>1, Constants
  <2> HIDE DEF k
  <2>3. ChunkLen(k) \in Nat /\ Span(ChunkLen(k)) = ChunkLen(k)
    BY <2>2, ChunkLenType DEF Span
  <2>4. session.seq + Span(ChunkLen(k)) < SeqSpace
    BY <2>2, <2>3, PositionStep, PositionType, StreamEndType, Constants
  <2>5. none \in SUBSET Flags /\ Chunk(k) \in Body /\ Chunk(k).kind = "chunk"
    BY <2>2, BodyType
  <2> HIDE DEF none
  <2>6. /\ t \in SessionType /\ t.state = "ESTABLSH" /\ t.ack = After(p)
        /\ t.open
        /\ q \in Header /\ q.seq = session.seq /\ After(q) = t.seq
        /\ q.flags = none /\ q.length = ChunkLen(k) /\ q.body = Chunk(k)
    BY <1>1, <2>3, <2>4, <2>5, PulledSends
  <2> HIDE DEF t, q
  <2>7. /\ session'.state = "ESTABLSH" /\ session'.ack = After(p)
        /\ session'.seq = t.seq /\ session'.open
    BY <2>1, <2>6 DEF SessionType
  <2>8. GoesWithFlags(q)
    BY <2>5, <2>6 DEF GoesWithFlags, IsSet, none
  <2> QED
    BY <1>1, <2>1, <2>6, <2>7, <2>8 DEF Emitted
<1>5. CASE ServerFinishes(p)
  <2> DEFINE t == AfterSend(Pulling(p), 0)
             q == Stamp(Pulling(p), {"RST", "FIN"}, 0, NoBody)
  <2>1. session' = [t EXCEPT !.open = FALSE] /\ ServerAnswers(p, {q})
    BY <1>5, Zenon DEF ServerFinishes
  <2>2. session.seq = Position(NumChunks)
    BY <1>2, <1>5 DEF ServerFinishes
  <2>3. session.seq + Span(0) < SeqSpace
    BY <1>3, Constants DEF Span
  <2>4. {"RST", "FIN"} \in SUBSET Flags /\ NoBody \in Body /\ NoBody.kind = "none"
    BY BodyType DEF Flags
  <2>5. /\ t \in SessionType /\ t.state = "ESTABLSH" /\ t.ack = After(p)
        /\ q \in Header /\ q.seq = session.seq /\ After(q) = t.seq
        /\ q.flags = {"RST", "FIN"} /\ q.length = 0 /\ q.body = NoBody
    BY <1>1, <2>3, <2>4, PulledSends
  <2> HIDE DEF t, q
  <2>6. /\ session'.state = "ESTABLSH" /\ session'.ack = After(p)
        /\ session'.seq = t.seq
    BY <2>1, <2>5 DEF SessionType
  <2>7. GoesWithFlags(q) /\ IsSet(q, "RST")
    BY <2>2, <2>4, <2>5 DEF GoesWithFlags, IsSet
  <2> QED
    BY <1>1, <2>1, <2>5, <2>6, <2>7 DEF Emitted
<1>6. CASE ServerFails(p)
  <2> DEFINE t == AfterSend(Pulling(p), ErrLen)
             q == Stamp(Pulling(p), {"RST", "ERR"}, ErrLen, Err(EIO))
  <2>1. session' = [t EXCEPT !.open = FALSE] /\ ServerAnswers(p, {q})
    BY <1>6, Zenon DEF ServerFails
  <2>2. session.seq + Span(ErrLen) < SeqSpace
    BY <1>3, Constants DEF Span
  <2>3. {"RST", "ERR"} \in SUBSET Flags /\ Err(EIO) \in Body
        /\ Err(EIO).kind = "err" /\ Err(EIO).n = EIO
    BY BodyType DEF Flags, Err
  <2>4. /\ t \in SessionType /\ t.state = "ESTABLSH" /\ t.ack = After(p)
        /\ q \in Header /\ q.seq = session.seq /\ After(q) = t.seq
        /\ q.flags = {"RST", "ERR"} /\ q.length = ErrLen /\ q.body = Err(EIO)
    BY <1>1, <2>2, <2>3, PulledSends
  <2> HIDE DEF t, q
  <2>5. /\ session'.state = "ESTABLSH" /\ session'.ack = After(p)
        /\ session'.seq = t.seq
    BY <2>1, <2>4 DEF SessionType
  <2>6. GoesWithFlags(q) /\ IsSet(q, "RST")
    BY <1>3, <2>3, <2>4 DEF GoesWithFlags, IsSet
  <2> QED
    BY <1>1, <2>1, <2>4, <2>5, <2>6 DEF Emitted
<1> QED
  BY <1>4, <1>5, <1>6

(* A SYN is answered by the configuration, at the beginning of the stream  *)
(* (session.c:338-354).                                                    *)
LEMMA Opens ==
  ASSUME IInv, NEW p \in c2s, ServerOpens(p)
  PROVE  /\ Handles(p, {"INITIAL"}) /\ IsSet(p, "SYN")
         /\ session'.state = "SACK_SENT" /\ session'.open
         /\ session'.seq = CfgAckLen /\ session'.ack = SynLen
         /\ \E q \in Header :
              /\ ServerAnswers(p, {q})
              /\ q.seq = 0 /\ After(q) = CfgAckLen
              /\ q.flags = {"SYN", "ACK"} /\ GoesWithFlags(q)
<1> DEFINE s == Accepted(Get, p)
           t == AfterSend(s, CfgAckLen)
<1>1. Handles(p, {"INITIAL"}) /\ IsSet(p, "SYN")
  BY DEF ServerOpens
<1>2. session' = [t EXCEPT !.state = "SACK_SENT", !.open = TRUE]
  BY Zenon DEF ServerOpens
<1>3. PICK codec \in GarbageCodecs :
        ServerAnswers(p, {Stamp(s, {"SYN", "ACK"}, CfgAckLen, CfgAck(codec))})
  BY Zenon DEF ServerOpens
<1> DEFINE q == Stamp(s, {"SYN", "ACK"}, CfgAckLen, CfgAck(codec))
<1>4. s \in SessionType /\ s.seq = 0 /\ s.ack = SynLen /\ s.receive_window \in Nat
  BY <1>1, SynArrival, Constants
<1>5. s.seq + Span(CfgAckLen) = CfgAckLen /\ CfgAckLen < SeqSpace
  <2>1. Position(0) + 4 <= StreamEnd /\ Position(0) = 8
    BY StreamEndType, Constants DEF Position
  <2> QED
    BY <1>4, <2>1, StreamEndType, Constants DEF Span
<1>6. t \in SessionType /\ t.seq = CfgAckLen /\ t.ack = SynLen
  BY <1>4, <1>5, AfterSendSession
<1>7. codec \in Nat
  BY ServerAssumption
<1>8. {"SYN", "ACK"} \in SUBSET Flags /\ CfgAck(codec) \in Body
      /\ CfgAck(codec).kind = "cfg_ack"
  BY <1>7, BodyType DEF Flags
<1>9. /\ q \in Header /\ q.seq = 0 /\ q.flags = {"SYN", "ACK"}
      /\ q.length = CfgAckLen /\ q.body = CfgAck(codec)
  BY <1>4, <1>8, StampType, Constants
<1> HIDE DEF t, q
<1>10. /\ session'.state = "SACK_SENT" /\ session'.open
       /\ session'.seq = CfgAckLen /\ session'.ack = SynLen
  BY <1>2, <1>6 DEF SessionType
<1>11. GoesWithFlags(q) /\ After(q) = CfgAckLen
  BY <1>8, <1>9 DEF GoesWithFlags, IsSet, After, Span
<1>12. ServerAnswers(p, {q})
  BY <1>3 DEF q
<1> QED
  BY <1>1, <1>9, <1>10, <1>11, <1>12

(* ... or by an error there, and leaves no session (session.c:315-337).    *)
LEMMA Refuses ==
  ASSUME IInv, NEW p \in c2s, ServerRefuses(p)
  PROVE  /\ Handles(p, {"INITIAL"}) /\ IsSet(p, "SYN")
         /\ session' = NoSession
         /\ \E q \in Header :
              /\ ServerAnswers(p, {q})
              /\ q.seq = 0 /\ After(q) = ErrLen
              /\ q.flags = {"RST", "ERR"} /\ GoesWithFlags(q)
<1> DEFINE s == Accepted(Get, p)
<1>1. Handles(p, {"INITIAL"}) /\ IsSet(p, "SYN") /\ session' = NoSession
  BY DEF ServerRefuses
<1>2. PICK code \in Refusals(p.body.n) :
        ServerAnswers(p, {Stamp(s, {"RST", "ERR"}, ErrLen, Err(code))})
  BY Zenon DEF ServerRefuses
<1> DEFINE q == Stamp(s, {"RST", "ERR"}, ErrLen, Err(code))
<1>3. s.seq = 0 /\ s.ack \in Nat /\ s.receive_window \in Nat
  BY <1>1, SynArrival, Constants DEF SessionType
<1>4. code \in Errnos /\ code \in Nat
  BY ServerAssumption DEF Refusals, Errnos
<1>5. {"RST", "ERR"} \in SUBSET Flags /\ Err(code) \in Body
      /\ Err(code).kind = "err" /\ Err(code).n = code
  BY <1>4, BodyType DEF Flags, Err
<1>6. /\ q \in Header /\ q.seq = 0 /\ q.flags = {"RST", "ERR"}
      /\ q.length = ErrLen /\ q.body = Err(code)
  BY <1>3, <1>5, StampType
<1> HIDE DEF q
<1>7. GoesWithFlags(q) /\ After(q) = ErrLen
  BY <1>4, <1>5, <1>6 DEF GoesWithFlags, IsSet, After, Span
<1>8. ServerAnswers(p, {q})
  BY <1>2 DEF q
<1> QED
  BY <1>1, <1>6, <1>7, <1>8

(* An ACK that finds no session is answered by a bare reset                *)
(* (session.c:306-309).                                                    *)
LEMMA Rejects ==
  ASSUME IInv, NEW p \in c2s, ServerRejects(p)
  PROVE  \E q \in Header : ServerAnswers(p, {q}) /\ q.flags = {"RST"} /\ GoesWithFlags(q)
<1> DEFINE s == Accepted(Get, p)
           q == Stamp(s, {"RST"}, 0, NoBody)
<1>1. ~AlreadyAcked(Get, p) /\ ServerAnswers(p, {q})
  BY DEF ServerRejects, Handles
<1>2. s.seq \in Nat /\ s.ack \in Nat /\ s.receive_window \in Nat
  BY <1>1, AcceptedInv, Constants DEF SessionType
<1>3. {"RST"} \in SUBSET Flags /\ NoBody \in Body /\ NoBody.kind = "none"
  BY BodyType DEF Flags
<1>4. q \in Header /\ q.flags = {"RST"} /\ q.body = NoBody
  BY <1>2, <1>3, StampType
<1> HIDE DEF q
<1>5. GoesWithFlags(q)
  BY <1>3, <1>4 DEF GoesWithFlags, IsSet
<1> QED
  BY <1>1, <1>4, <1>5

(* A pull on a connection that has ended moves only the acknowledgement    *)
(* (session.c:295, logic.c:28).                                            *)
LEMMA Ignored ==
  ASSUME IInv, NEW p \in c2s, ServerIgnores(p)
  PROVE  /\ Pulls(p) /\ ~session.open /\ ~session'.open
         /\ session'.state = "ESTABLSH" /\ session'.seq = session.seq
         /\ session'.ack = After(p)
         /\ ServerAnswers(p, {})
<1>1. Pulls(p) /\ ~session.open /\ session' = Pulling(p) /\ ServerAnswers(p, {})
  BY DEF ServerIgnores
<1>2. /\ Pulling(p).state = "ESTABLSH" /\ Pulling(p).seq = session.seq
      /\ Pulling(p).open = session.open /\ Pulling(p).ack = After(p)
  BY <1>1, PullArrival, PullIsNew
<1> QED
  BY <1>1, <1>2

(***************************************************************************)
(* What the client's handlers send, and what becomes of the client.        *)
(***************************************************************************)

(* Taking a packet of the stream: it is acknowledged, by ACKs of which the *)
(* last uses up the last sequence number, and played (client.c:219-259).   *)
Taken(p) ==
  /\ ~IsSet(p, "RST") /\ client.ack <= p.seq
  /\ client.state \in {"SYN_SENT", "ESTABLSH"} /\ client'.state = "ESTABLSH"
  /\ client'.ack = After(p) /\ client'.ack = Position(LastPlayed')
  /\ client.seq < client'.seq
  /\ s2c' \in AfterReceive(s2c, p)
  /\ \E acks \in SUBSET Header :
       /\ c2s' = c2s \cup acks
       /\ \A q \in acks : q.flags = {"ACK"} /\ q.ack = After(p) /\ q.body.kind = "none"
       /\ \E q \in acks : After(q) = client'.seq
  /\ UNCHANGED result

(* An ACK of the client (source.c:20-41).                                  *)
LEMMA AckIs ==
  ASSUME NEW c \in ClientType, NEW i \in Nat, NEW window \in {0, WindowSize},
         c.seq + i < SeqSpace
  PROVE  LET q == AckAt(c, i, window)
         IN /\ q \in Header /\ q.flags = {"ACK"} /\ q.ack = c.ack /\ q.body.kind = "none"
            /\ After(q) = c.seq + i + 1
<1> DEFINE q == AckAt(c, i, window)
<1>1. q \in Header /\ q.seq = c.seq + i /\ q.flags = {"ACK"} /\ q.length = 0
  BY AckType
<1>2. q.ack = c.ack /\ q.body = NoBody
  <2>1. [c EXCEPT !.seq = (c.seq + i) % SeqSpace, !.receive_window = window].ack = c.ack
    BY DEF ClientType
  <2> QED
    BY <2>1 DEF AckAt, Stamp
<1> HIDE DEF q
<1>3. c.seq \in Nat
  BY DEF ClientType
<1>4. After(q) = c.seq + i + 1
  BY <1>1, <1>3 DEF After, Span
<1> QED
  BY <1>1, <1>2, <1>4, BodyType DEF q

LEMMA ConfiguresTakes ==
  ASSUME IInv, NEW p \in s2c, ClientConfigures(p)
  PROVE  Taken(p) /\ pushed = <<>> /\ Len(pushed') = 1 /\ p.body.kind = "cfg_ack"
<1> DEFINE c == [Accepted(client, p) EXCEPT !.state = "ESTABLSH"]
           acks == {AckAt(c, i, WindowSize) : i \in 0..2}
<1>1. /\ ~AlreadyAcked(client, p) /\ ~IsSet(p, "RST") /\ client.state = "SYN_SENT"
      /\ UNCHANGED result
  BY DEF ClientConfigures
<1>2. client' = AfterAcks(c, 3, WindowSize) /\ ClientAnswers(p, acks)
  BY Zenon DEF ClientConfigures
<1>3. pushed = <<>> /\ pushed' = Append(pushed, PushedChunk(p))
  BY <1>1 DEF IInv, ClientInv, ClientConfigures
<1>4. p.body.kind = "cfg_ack" /\ p.seq = 0 /\ p.length = CfgAckLen
  BY <1>1, <1>3, ClientArrival DEF FromServer, IsSet
<1>5. client.seq = SynLen /\ client.seq \in Nat /\ client.seq + 3 < SeqSpace
  BY <1>1, <1>3, Constants DEF IInv, ClientInv
<1>6. /\ Accepted(client, p) \in ClientType /\ Accepted(client, p).seq = client.seq
      /\ Accepted(client, p).ack = After(p) /\ client.ack <= p.seq
  BY <1>1, ClientAcceptedInv DEF After
<1>7. After(p) = 8 /\ Position(0) = 8
  BY <1>4 DEF After, Span, Position
<1>8. c \in ClientType /\ c.seq = client.seq /\ c.ack = After(p) /\ c.state = "ESTABLSH"
  BY <1>6 DEF ClientType
<1> HIDE DEF c
<1>9. /\ client'.seq = client.seq + 3 /\ client'.ack = After(p)
      /\ client'.state = "ESTABLSH"
  BY <1>2, <1>5, <1>8, AfterAcksType, Constants
<1>10. ASSUME NEW i \in 0..2
       PROVE  LET q == AckAt(c, i, WindowSize)
              IN /\ q \in Header /\ q.flags = {"ACK"} /\ q.ack = After(p)
                 /\ q.body.kind = "none" /\ After(q) = client.seq + i + 1
  <2>1. c.seq + i < SeqSpace /\ i \in Nat /\ WindowSize \in {0, WindowSize}
    BY <1>5, <1>8, Constants
  <2> QED
    BY <1>8, <2>1, AckIs
<1>11. \E q \in acks : After(q) = client'.seq
  <2>1. After(AckAt(c, 2, WindowSize)) = client.seq + 2 + 1
    BY <1>10
  <2>2. client.seq + 2 + 1 = client'.seq
    BY <1>5, <1>9
  <2>3. AckAt(c, 2, WindowSize) \in acks
    OBVIOUS
  <2> QED
    BY <2>1, <2>2, <2>3
<1>12. acks \in SUBSET Header /\ \A q \in acks :
         q.flags = {"ACK"} /\ q.ack = After(p) /\ q.body.kind = "none"
  BY <1>10
<1> HIDE DEF acks
<1>13. Len(pushed') = 1 /\ LastPlayed' = 0
  BY <1>3 DEF LastPlayed
<1>14. client.seq < client'.seq
  BY <1>5, <1>9
<1> QED
  BY <1>1, <1>2, <1>3, <1>4, <1>6, <1>7, <1>9, <1>11, <1>12, <1>13, <1>14
  DEF Taken, ClientAnswers

LEMMA PlaysTakes ==
  ASSUME IInv, NEW p \in s2c, ClientPlays(p)
  PROVE  /\ Taken(p) /\ pushed # <<>> /\ LastPlayed' = p.body.n
         /\ pushed' = Append(pushed, PushedChunk(p))
         /\ p.body.kind = "chunk"
<1> DEFINE c == Accepted(client, p)
           acks == {AckAt(c, 0, WindowSize), AckAt(c, 1, 0)}
           L == Len(pushed)
<1>1. /\ ~AlreadyAcked(client, p) /\ ~IsSet(p, "RST") /\ client.state = "ESTABLSH"
      /\ UNCHANGED result /\ pushed' = Append(pushed, PushedChunk(p))
  BY DEF ClientPlays
<1>2. client' = AfterAcks(c, 2, 0) /\ ClientAnswers(p, acks)
  BY Zenon DEF ClientPlays
<1>3. /\ p.body.kind = "chunk" /\ p.body.n \in L..NumChunks
      /\ c.ack = Position(p.body.n)
  BY <1>1, PlaysNext
<1>4. L \in Nat /\ L # 0 /\ L <= NumChunks /\ pushed # <<>>
  BY <1>1, <1>3, ClientSeqBounded, Constants DEF IInv, ClientInv, TypeOK
<1>5. client.seq \in Nat /\ client.seq + 2 < SeqSpace
  BY <1>1, <1>4, Constants DEF IInv, ClientInv
<1>6. /\ c \in ClientType /\ client.ack <= p.seq /\ c.ack = After(p)
      /\ c.seq = client.seq /\ c.state = "ESTABLSH"
  BY <1>1, ClientAcceptedInv DEF After
<1> HIDE DEF c
<1>7. /\ client'.seq = client.seq + 2 /\ client'.ack = After(p)
      /\ client'.state = "ESTABLSH"
  BY <1>2, <1>5, <1>6, AfterAcksType, Constants
<1>8. ASSUME NEW i \in 0..1, NEW w \in {0, WindowSize}
      PROVE  LET q == AckAt(c, i, w)
             IN /\ q \in Header /\ q.flags = {"ACK"} /\ q.ack = After(p)
                /\ q.body.kind = "none" /\ After(q) = client.seq + i + 1
  <2>1. c.seq + i < SeqSpace /\ i \in Nat
    BY <1>5, <1>6, Constants
  <2> QED
    BY <1>6, <2>1, AckIs
<1>9. \E q \in acks : After(q) = client'.seq
  <2>1. After(AckAt(c, 1, 0)) = client.seq + 1 + 1
    BY <1>8
  <2>2. client.seq + 1 + 1 = client'.seq
    BY <1>5, <1>7
  <2> QED
    BY <2>1, <2>2
<1>10. acks \in SUBSET Header /\ \A q \in acks :
         q.flags = {"ACK"} /\ q.ack = After(p) /\ q.body.kind = "none"
  BY <1>8
<1> HIDE DEF acks
<1>11. LastPlayed' = p.body.n
  <2>1. Len(pushed') = L + 1 /\ pushed'[L + 1] = PushedChunk(p)
    BY <1>1 DEF IInv, TypeOK
  <2>2. PushedChunk(p).n = p.body.n
    BY DEF PushedChunk
  <2> QED
    BY <1>4, <2>1, <2>2 DEF LastPlayed
<1>12. client.seq < client'.seq
  BY <1>5, <1>7
<1> QED
  BY <1>1, <1>2, <1>3, <1>4, <1>6, <1>7, <1>9, <1>10, <1>11, <1>12
  DEF Taken, ClientAnswers

(* A reset that goes with its flags ends the client, unless it is the      *)
(* refusal of a SYN with an error code 0 (client.c:202-217).               *)
LEMMA ResetEnds ==
  ASSUME IInv, NEW p \in s2c, ClientIsReset(p), GoesWithFlags(p)
  PROVE  /\ IsSet(p, "RST") /\ client.ack <= p.seq
         /\ client'.ack = After(p) /\ client'.seq = client.seq
         /\ client'.state = "FINISHED" =>
              \/ client.state = "FINISHED"
              \/ result' = EOK /\ p.seq = Position(NumChunks)
         /\ client'.state # "FINISHED" => client'.state = client.state
         /\ result' = EOK => p.seq = Position(NumChunks)
         /\ result' = Running \/ result' \in Errnos \cup {ECONNRESET}
         /\ result' = Running => p.seq = 0 /\ After(p) = ErrLen
         /\ s2c' \in AfterReceive(s2c, p) /\ c2s' = c2s /\ UNCHANGED pushed
<1> DEFINE c == Accepted(client, p)
           finished == ~IsSet(p, "ERR") /\ IsSet(p, "FIN")
           err == IF IsSet(p, "ERR") THEN p.body.n
                  ELSE IF IsSet(p, "FIN") THEN EOK ELSE ECONNRESET
<1>1. /\ ~AlreadyAcked(client, p) /\ IsSet(p, "RST")
      /\ ClientAnswers(p, {}) /\ UNCHANGED pushed
      /\ result' = IF finished \/ err # EOK THEN err ELSE Running
  BY DEF ClientIsReset
<1>2. client' = [c EXCEPT !.state = IF finished THEN "FINISHED" ELSE @]
  BY Zenon DEF ClientIsReset
<1>3. /\ c \in ClientType /\ c.ack = After(p) /\ client.ack <= p.seq
      /\ c.seq = client.seq /\ c.state = client.state
  BY <1>1, ClientAcceptedInv DEF After
<1>4. IsSet(p, "ERR") =>
        \/ p.seq = 0 /\ After(p) = ErrLen /\ p.body.n \in Errnos
        \/ CfgAckLen <= p.seq /\ p.body.n = EIO
  BY DEF GoesWithFlags, After, Span
<1>5. IsSet(p, "FIN") => p.seq = Position(NumChunks)
  BY DEF GoesWithFlags
<1> HIDE DEF c, finished
<1>6. /\ client'.ack = After(p) /\ client'.seq = client.seq
      /\ finished => client'.state = "FINISHED"
      /\ ~finished => client'.state = client.state
  BY <1>2, <1>3 DEF ClientType
<1>7. result' = EOK => finished
  BY <1>1
<1>8. result' = Running => IsSet(p, "ERR") /\ p.body.n = EOK
  <2>1. CASE ~IsSet(p, "ERR")
    BY <1>1, <2>1 DEF finished
  <2>2. CASE IsSet(p, "ERR")
    BY <1>1, <1>4, <2>2 DEF finished, Errnos
  <2> QED
    BY <2>1, <2>2
<1>9. result' = Running \/ result' \in Errnos \cup {ECONNRESET}
  BY <1>1, <1>4 DEF Errnos
<1>10. finished => result' = EOK /\ p.seq = Position(NumChunks)
  BY <1>1, <1>5 DEF finished
<1> QED
  BY <1>1, <1>3, <1>4, <1>6, <1>7, <1>8, <1>9, <1>10 DEF ClientAnswers

(***************************************************************************)
(* Any network.                                                            *)
(***************************************************************************)

LEMMA ContentInit == Init => ContentInv
<1> SUFFICES ASSUME Init PROVE ContentInv
  OBVIOUS
<1> QED
  BY DEF Init, ClientInit, ContentInv

(* The server only sends what goes with its flags.                         *)
LEMMA ServerContent ==
  ASSUME ContentInv, NEW p, c2s' \in AfterReceive(c2s, p),
         \A q \in s2c' : q \in s2c \/ GoesWithFlags(q),
         UNCHANGED <<client, pushed, result>>
  PROVE  ContentInv'
<1>1. c2s' \subseteq c2s
  BY DEF AfterReceive
<1> QED
  BY <1>1 DEF ContentInv, LastPlayed, GoesWithFlags

LEMMA ServerStepContent ==
  ASSUME IInv, ContentInv, ServerStep PROVE ContentInv'
<1>1. UNCHANGED <<client, pushed, result>>
  BY DEF ServerStep
<1>2. PICK p \in c2s :
        \/ ServerDrops(p) \/ ServerForgets(p) \/ ServerIgnores(p)
        \/ ServerRejects(p) \/ ServerRefuses(p) \/ ServerOpens(p)
        \/ ServerSendsChunk(p) \/ ServerFinishes(p) \/ ServerFails(p)
  BY DEF ServerStep, ServerReceives, Receivable
<1>3. c2s' \in AfterReceive(c2s, p) /\ \A q \in s2c' : q \in s2c \/ GoesWithFlags(q)
  <2>1. CASE ServerDrops(p) \/ ServerForgets(p) \/ ServerIgnores(p)
    BY <2>1 DEF ServerDrops, ServerForgets, ServerIgnores, ServerAnswers
  <2>2. CASE ServerRejects(p)
    BY <2>2, Rejects DEF ServerAnswers
  <2>3. CASE ServerRefuses(p)
    BY <2>3, Refuses DEF ServerAnswers
  <2>4. CASE ServerOpens(p)
    BY <2>4, Opens DEF ServerAnswers
  <2>5. CASE ServerSendsChunk(p) \/ ServerFinishes(p) \/ ServerFails(p)
    BY <2>5, Emits DEF Emitted, ServerAnswers
  <2> QED
    BY <1>2, <2>1, <2>2, <2>3, <2>4, <2>5
<1> QED
  BY <1>1, <1>3, ServerContent

LEMMA ClientStepContent ==
  ASSUME IInv, ContentInv, ClientStep PROVE ContentInv'
<1>1. result = Running
  BY DEF ClientStep, ClientReceives
<1>2. PICK p \in s2c :
        ClientDrops(p) \/ ClientIsReset(p) \/ ClientConfigures(p) \/ ClientPlays(p)
  BY DEF ClientStep, ClientReceives, Receivable
<1>3. s2c' \subseteq s2c
  BY <1>2 DEF ClientDrops, ClientIsReset, ClientConfigures, ClientPlays,
              ClientAnswers, AfterReceive
<1>4. \A q \in s2c' : GoesWithFlags(q)
  BY <1>3 DEF ContentInv
<1>5. CASE ClientDrops(p)
  <2>1. c2s' = c2s /\ UNCHANGED <<client, pushed, result>>
    BY <1>5 DEF ClientDrops, ClientAnswers
  <2> QED
    BY <1>4, <2>1 DEF ContentInv, LastPlayed, GoesWithFlags
<1>6. CASE ClientIsReset(p)
  <2>1. GoesWithFlags(p)
    BY DEF ContentInv
  <2>2. /\ client'.ack = After(p)
        /\ client'.state = "FINISHED" => client.state = "FINISHED" \/ result' = EOK
        /\ client'.state # "FINISHED" => client'.state = client.state
        /\ result' = Running => p.seq = 0 /\ After(p) = ErrLen /\ client.ack <= p.seq
        /\ c2s' = c2s /\ UNCHANGED pushed
    BY <1>6, <2>1, ResetEnds
  <2>3. client'.state = "FINISHED" => result' # Running
    BY <1>1, <2>2 DEF ContentInv
  <2>4. ~(result' = Running /\ client'.state = "ESTABLSH")
    <3> SUFFICES ASSUME result' = Running, client'.state = "ESTABLSH" PROVE FALSE
      OBVIOUS
    <3>1. client.state = "ESTABLSH" /\ client.ack <= 0
      BY <2>2
    <3>2. client.ack \in Nat /\ CfgAckLen <= client.ack
      BY <3>1 DEF IInv, TypeOK, ClientType, ClientInv, PushedInv
    <3> QED
      BY <3>1, <3>2
  <2>5. result' = Running => client'.ack <= ErrLen
    BY <2>2
  <2> QED
    BY <1>4, <2>2, <2>3, <2>4, <2>5 DEF ContentInv, GoesWithFlags
<1>7. CASE ClientConfigures(p) \/ ClientPlays(p)
  <2>1. Taken(p)
    BY <1>7, ConfiguresTakes, PlaysTakes
  <2>2. client'.state = "ESTABLSH" /\ client'.ack = Position(LastPlayed')
    BY <2>1 DEF Taken
  <2>3. \A q \in c2s' : IsSet(q, "SYN") \/ q.body.kind = "none"
    BY <2>1 DEF Taken, ContentInv
  <2> QED
    BY <1>4, <2>2, <2>3
    DEF ContentInv, GoesWithFlags, LastPlayed, Position, ChunkLen
<1> QED
  BY <1>2, <1>5, <1>6, <1>7

(* Starting, or giving up.                                                 *)
LEMMA ConnectStepIs ==
  ASSUME IInv, ConnectStep
  PROVE  /\ client.ack = 0 /\ c2s = {} /\ s2c = {} /\ pushed = <<>> /\ result = Running
         /\ client'.ack = 0 /\ client'.state = "SYN_SENT"
         /\ \E q \in Header : c2s' = {q} /\ q.flags = {"SYN"} /\ q.ack = 0
         /\ UNCHANGED <<s2c, pushed, result, session>>
<1>1. client.state = "INITIAL" /\ result = Running
      /\ client' = SynSent /\ UNCHANGED <<s2c, pushed, result, session>>
      /\ c2s' = c2s \cup {Stamp(client, {"SYN"}, SynLen, Cfg(0))}
  BY DEF ConnectStep, ClientConnects
<1>2. client.ack = 0 /\ client.seq = 0 /\ c2s = {} /\ s2c = {} /\ pushed = <<>>
  BY <1>1 DEF IInv, ClientInv
<1>3. client'.ack = 0 /\ client'.state = "SYN_SENT"
  BY <1>1, <1>2 DEF SynSent, AfterSend, IInv, TypeOK, ClientType
<1>4. {"SYN"} \in SUBSET Flags /\ Cfg(0) \in Body /\ SynLen \in Nat
  BY BodyType, Constants DEF Flags
<1>5. client.receive_window \in Nat
  BY Constants DEF IInv, TypeOK, ClientType
<1> DEFINE q == Stamp(client, {"SYN"}, SynLen, Cfg(0))
<1>6. q \in Header /\ q.flags = {"SYN"} /\ q.ack = 0
  BY <1>2, <1>4, <1>5, StampType
<1> HIDE DEF q
<1>7. c2s' = {q}
  BY <1>1, <1>2 DEF q
<1> QED
  BY <1>1, <1>2, <1>3, <1>6, <1>7

LEMMA ContentNext == IInv /\ ContentInv /\ [Next]_vars => ContentInv'
<1> SUFFICES ASSUME IInv, ContentInv, [Next]_vars PROVE ContentInv'
  OBVIOUS
<1>1. CASE ConnectStep
  BY <1>1, ConnectStepIs DEF ContentInv, IsSet
<1>2. CASE ClientStep
  BY <1>2, ClientStepContent
<1>3. CASE ClientExpires \/ ClientStops
  <2>1. /\ result' # Running /\ UNCHANGED <<c2s, s2c>>
    BY <1>3, ClientAssumption DEF ClientExpires, ClientStops, ClientTimesOut, ClientFails
  <2> QED
    BY <2>1 DEF ContentInv, GoesWithFlags
<1>4. CASE ServerStep
  BY <1>4, ServerStepContent
<1>5. CASE SessionExpires \/ Loss \/ UNCHANGED vars
  <2>1. /\ c2s' \subseteq c2s /\ s2c' \subseteq s2c
        /\ UNCHANGED <<client, pushed, result>>
    BY <1>5 DEF SessionExpires, ServerExpires, Loss, Lose, vars
  <2> QED
    BY <2>1 DEF ContentInv, LastPlayed, GoesWithFlags
<1> QED
  BY <1>1, <1>2, <1>3, <1>4, <1>5 DEF Next, ProgramStep

(***************************************************************************)
(* A network that is not delayed.                                          *)
(***************************************************************************)

LEMMA UndelayedInit == Init => UndelayedInv
<1> SUFFICES ASSUME Init PROVE UndelayedInv
  OBVIOUS
<1> QED
  BY DEF Init, ClientInit, ServerInit, NoSession, UndelayedInv, BeforeSession

(* Once there is a session the server does not begin another.              *)
LEMMA InitialOnly ==
  ASSUME NEW p, Handles(p, {"INITIAL"}), session.state # "INITIAL"
  PROVE  session.state = "NONE"
BY DEF Handles, Get

(* A handler that sends one packet, within the session.                    *)
LEMMA InSessionGrows ==
  ASSUME IInv, InSession, NEW p \in c2s, NEW q \in Header, ServerAnswers(p, {q}),
         q.seq = session.seq, After(q) = session'.seq,
         UNCHANGED client
  PROVE  InSession'
<1>1. c2s' \subseteq c2s /\ s2c' = s2c \cup {q}
  BY DEF ServerAnswers, AfterReceive
<1>2. session.seq \in Nat /\ session'.seq \in Nat /\ session.seq < session'.seq
  BY AfterType DEF IInv, TypeOK, SessionType
<1>3. client.ack \in Nat /\ \A r \in c2s : r.ack \in Nat
  BY DEF IInv, TypeOK, ClientType, Header
<1>4. \A r \in s2c : After(r) \in Nat
  BY AfterType DEF IInv, TypeOK
<1>5. client'.ack <= session'.seq
  BY <1>2, <1>3 DEF InSession
<1>6. \A r \in c2s' : r.ack <= session'.seq
  BY <1>1, <1>2, <1>3 DEF InSession
<1>7. \A r \in s2c' : After(r) <= session'.seq
  BY <1>1, <1>2, <1>4 DEF InSession
<1> QED
  BY <1>5, <1>6, <1>7 DEF InSession

LEMMA ServerStepUndelayed ==
  ASSUME IInv, UndelayedInv, ServerStep PROVE UndelayedInv'
<1>1. UNCHANGED <<client, pushed, result>>
  BY DEF ServerStep
<1>2. PICK p \in c2s :
        \/ ServerDrops(p) \/ ServerForgets(p) \/ ServerIgnores(p)
        \/ ServerRejects(p) \/ ServerRefuses(p) \/ ServerOpens(p)
        \/ ServerSendsChunk(p) \/ ServerFinishes(p) \/ ServerFails(p)
  BY DEF ServerStep, ServerReceives, Receivable
<1>3. c2s' \subseteq c2s
  BY <1>2 DEF ServerDrops, ServerForgets, ServerIgnores, ServerRejects, ServerRefuses,
       ServerOpens, ServerSendsChunk, ServerFinishes, ServerFails, ServerAnswers,
       AfterReceive
<1>4. ~ServerForgets(p)
  BY ServerArrival DEF ServerForgets
<1>5. CASE session.state = "NONE"
  <2>1. BeforeSession /\ p.flags = {"SYN"} /\ p.seq \in Nat
    BY <1>5, ServerArrival DEF UndelayedInv, BeforeSession, AfterSession, Header
  <2>2. ~ServerDrops(p)
    BY <1>5, <2>1 DEF ServerDrops, AlreadyAcked, Get, NoSession
  <2>3. ~ServerRejects(p)
    BY <2>1 DEF ServerRejects, IsSet
  <2>4. ~Pulls(p)
    BY <1>5 DEF Pulls, Handles, Get, NoSession
  <2>5. CASE ServerRefuses(p)
    <3>1. PICK q \in Header : /\ ServerAnswers(p, {q}) /\ After(q) = ErrLen
                              /\ q.flags = {"RST", "ERR"} /\ session' = NoSession
      BY <2>5, Refuses
    <3>2. BeforeSession'
      BY <1>1, <1>3, <2>1, <3>1 DEF BeforeSession, ServerAnswers, IsSet, After
    <3> QED
      BY <3>1, <3>2 DEF UndelayedInv, NoSession
  <2>6. CASE ServerOpens(p)
    <3>1. PICK q \in Header : /\ ServerAnswers(p, {q}) /\ After(q) = CfgAckLen
                              /\ session'.state = "SACK_SENT" /\ session'.seq = CfgAckLen
      BY <2>6, Opens
    <3>2. InSession'
      BY <1>1, <1>3, <2>1, <3>1 DEF InSession, BeforeSession, ServerAnswers, After
    <3> QED
      BY <3>1, <3>2 DEF UndelayedInv
  <2> QED
    BY <1>2, <1>4, <2>2, <2>3, <2>4, <2>5, <2>6
    DEF ServerIgnores, ServerSendsChunk, ServerFinishes, ServerFails
<1>6. CASE session.state # "NONE"
  <2>1. InSession /\ session.state # "INITIAL" /\ Get = session
    BY <1>6 DEF UndelayedInv, Get
  <2>2. ~ServerRejects(p) /\ ~ServerRefuses(p) /\ ~ServerOpens(p)
    BY <1>6, <2>1, InitialOnly DEF ServerRejects, ServerRefuses, ServerOpens
  <2>3. CASE ServerDrops(p)
    <3>1. session' = session /\ s2c' = s2c
      BY <2>1, <2>3 DEF ServerDrops, ServerAnswers
    <3> QED
      BY <1>1, <1>3, <1>6, <2>1, <3>1 DEF UndelayedInv, InSession, After
  <2>4. CASE ServerIgnores(p)
    <3>1. session'.state = "ESTABLSH" /\ session'.seq = session.seq /\ s2c' = s2c
      BY <2>4, Ignored DEF ServerAnswers
    <3> QED
      BY <1>1, <1>3, <2>1, <3>1 DEF UndelayedInv, InSession, After
  <2>5. CASE ServerSendsChunk(p) \/ ServerFinishes(p) \/ ServerFails(p)
    <3>1. PICK q \in Header : Emitted(p, q) /\ session'.state = "ESTABLSH"
      BY <2>5, Emits
    <3>2. InSession'
      BY <1>1, <2>1, <3>1, InSessionGrows DEF Emitted
    <3> QED
      BY <3>1, <3>2 DEF UndelayedInv
  <2> QED
    BY <1>2, <1>4, <2>2, <2>3, <2>4, <2>5
<1> QED
  BY <1>5, <1>6

LEMMA ClientStepUndelayed ==
  ASSUME IInv, ContentInv, UndelayedInv, ClientStep PROVE UndelayedInv'
<1>1. result = Running /\ UNCHANGED session
  BY DEF ClientStep, ClientReceives
<1>2. PICK p \in s2c :
        ClientDrops(p) \/ ClientIsReset(p) \/ ClientConfigures(p) \/ ClientPlays(p)
  BY DEF ClientStep, ClientReceives, Receivable
<1>3. s2c' \subseteq s2c
  BY <1>2 DEF ClientDrops, ClientIsReset, ClientConfigures, ClientPlays,
              ClientAnswers, AfterReceive
<1>4. session.state = "NONE" => BeforeSession
  BY <1>1, <1>2 DEF UndelayedInv, AfterSession
<1>5. CASE ClientDrops(p)
  <2>1. c2s' = c2s /\ UNCHANGED client
    BY <1>5 DEF ClientDrops, ClientAnswers
  <2> QED
    BY <1>1, <1>3, <1>4, <2>1 DEF UndelayedInv, BeforeSession, InSession, After
<1>6. CASE ClientIsReset(p)
  <2>1. GoesWithFlags(p)
    BY DEF ContentInv
  <2>2. client'.ack = After(p) /\ c2s' = c2s
    BY <1>6, <2>1, ResetEnds
  <2> QED
    BY <1>1, <1>3, <1>4, <2>2 DEF UndelayedInv, BeforeSession, InSession, After
<1>7. CASE ClientConfigures(p) \/ ClientPlays(p)
  <2>1. Taken(p)
    BY <1>7, ConfiguresTakes, PlaysTakes
  <2>2. session.state # "NONE" /\ InSession
    BY <1>4, <2>1 DEF BeforeSession, Taken, UndelayedInv
  <2>3. PICK acks \in SUBSET Header : c2s' = c2s \cup acks /\ \A q \in acks : q.ack = After(p)
    BY <2>1 DEF Taken
  <2>4. client'.ack = After(p) /\ After(p) <= session'.seq
    BY <1>1, <2>1, <2>2 DEF Taken, InSession
  <2>5. InSession'
    BY <1>1, <1>3, <2>2, <2>3, <2>4 DEF InSession, After
  <2> QED
    BY <1>1, <2>2, <2>5 DEF UndelayedInv
<1> QED
  BY <1>2, <1>5, <1>6, <1>7

(* A client that has not connected has no session.                         *)
LEMMA NoneBefore ==
  ASSUME IInv, client.state = "INITIAL", session.state # "INITIAL"
  PROVE  session.state = "NONE"
<1>1. session.ack <= 0 /\ session.ack \in Nat /\ session.read \in Nat
  BY Constants DEF IInv, SessionInv, ClientInv, TypeOK, SessionType
<1>2. session.state \in Streams => SynLen + session.read <= session.ack
  BY DEF IInv, SessionInv
<1> QED
  BY <1>1, <1>2, Constants DEF IInv, TypeOK, SessionType, Streams

LEMMA UndelayedNext ==
  ASSUME ~Delayed
  PROVE  IInv /\ ContentInv /\ UndelayedInv /\ [Next]_vars => UndelayedInv'
<1> SUFFICES ASSUME IInv, ContentInv, UndelayedInv, [Next]_vars PROVE UndelayedInv'
  OBVIOUS
<1>1. CASE ConnectStep
  <2>1. session.state = "NONE" /\ UNCHANGED session
    BY <1>1, NoneBefore DEF ConnectStep, ClientConnects, UndelayedInv
  <2>2. BeforeSession'
    BY <1>1, ConnectStepIs DEF BeforeSession
  <2> QED
    BY <2>1, <2>2 DEF UndelayedInv
<1>2. CASE ClientStep
  BY <1>2, ClientStepUndelayed
<1>3. CASE ClientExpires \/ ClientStops
  <2>1. result' # Running /\ UNCHANGED <<c2s, s2c, session>> /\ client'.ack = client.ack
    <3>1. CASE ClientExpires
      BY <3>1 DEF ClientExpires, ClientTimesOut
    <3>2. CASE ClientStops
      <4>1. SynSent.ack = client.ack
        BY DEF SynSent, AfterSend, IInv, TypeOK, ClientType
      <4> QED
        BY <3>2, <4>1, ClientAssumption DEF ClientStops, ClientFails
    <3> QED
      BY <1>3, <3>1, <3>2
  <2> QED
    BY <2>1 DEF UndelayedInv, BeforeSession, AfterSession, InSession, After
<1>4. CASE ServerStep
  BY <1>4, ServerStepUndelayed
<1>5. CASE SessionExpires
  <2>1. Quiet /\ session' = NoSession /\ UNCHANGED <<c2s, s2c, result>>
    BY <1>5 DEF SessionExpires, ServerExpires
  <2> QED
    BY <2>1 DEF UndelayedInv, AfterSession, Quiet, NoSession
<1>6. CASE Loss \/ UNCHANGED vars
  <2>1. /\ c2s' \subseteq c2s /\ s2c' \subseteq s2c
        /\ UNCHANGED <<client, session, result>>
    BY <1>6 DEF Loss, Lose, vars
  <2> QED
    BY <2>1 DEF UndelayedInv, BeforeSession, AfterSession, InSession, After
<1> QED
  BY <1>1, <1>2, <1>3, <1>4, <1>5, <1>6 DEF Next, ProgramStep

(* When no datagram outlives a session, the client does not acknowledge    *)
(* more than the running one has sent (client.c:199, session.c:186).       *)
THEOREM AcksBelongToSession ==
  ASSUME ~Delayed PROVE Spec => []ClientAcksSession
<1>1. Init => IInv /\ ContentInv /\ UndelayedInv
  BY InvInit, ContentInit, UndelayedInit
<1>2. IInv /\ ContentInv /\ UndelayedInv /\ [Next]_vars => (IInv /\ ContentInv /\ UndelayedInv)'
  BY InvNext, ContentNext, UndelayedNext
<1>3. UndelayedInv => ClientAcksSession
  BY DEF UndelayedInv, InSession, ClientAcksSession
<1> QED
  BY <1>1, <1>2, <1>3, PTL DEF Spec

(***************************************************************************)
(* A network that moreover does not duplicate, and has not lost anything   *)
(* yet: as long as the client runs, the flow of datagrams goes on.         *)
(***************************************************************************)

LEMMA FlowInit == Init => FlowInv
<1> SUFFICES ASSUME Init PROVE FlowInv
  OBVIOUS
<1> QED
  BY DEF Init, ClientInit, ServerInit, NoSession, Streams,
         FlowInv, SessionLasts, AlwaysOneInFlight, NoneOverlap

(* The types that the arguments below rest on.                             *)
LEMMA FlowTypes ==
  ASSUME IInv
  PROVE  /\ session.seq \in Nat /\ session.ack \in Nat
         /\ client.seq \in Nat /\ client.ack \in Nat
         /\ session.ack <= client.seq
         /\ \A p \in c2s : /\ p \in Header /\ p.seq \in Nat /\ After(p) \in Nat
                           /\ p.seq < After(p) /\ After(p) <= client.seq
         /\ \A p \in s2c : /\ p \in Header /\ p.seq \in Nat /\ After(p) \in Nat
                           /\ p.seq < After(p)
<1>1. /\ session.seq \in Nat /\ session.ack \in Nat
      /\ client.seq \in Nat /\ client.ack \in Nat
      /\ c2s \subseteq Header /\ s2c \subseteq Header
  BY DEF IInv, TypeOK, SessionType, ClientType
<1>2. session.ack <= client.seq
  BY DEF IInv, SessionInv
<1>3. \A p \in c2s : After(p) <= client.seq
  BY ServerArrival DEF After
<1> QED
  BY <1>1, <1>2, <1>3, AfterType

(* A pull: if p is not the last of the client's datagrams, that one is     *)
(* still to come.                                                          *)
LEMMA LastToCome ==
  ASSUME IInv, AlwaysOneInFlight, ~Duplicating, NEW p \in c2s, Pulls(p),
         NEW packets, ServerAnswers(p, packets), session'.ack = After(p),
         UNCHANGED client
  PROVE  session'.ack = client'.seq \/ \E r \in c2s' : After(r) = client'.seq
<1>1. session.state \in Streams /\ session.ack <= p.seq
  BY PullIsNew
<1>2. c2s' = c2s \ {p}
  BY DEF ServerAnswers, AfterReceive
<1>3. session.ack # client.seq
  BY <1>1, FlowTypes
<1>4. PICK r \in c2s : After(r) = client.seq
  BY <1>1, <1>3 DEF AlwaysOneInFlight
<1>5. CASE r = p
  BY <1>4, <1>5
<1>6. CASE r # p
  BY <1>2, <1>4, <1>6 DEF After
<1> QED
  BY <1>5, <1>6

LEMMA EmitKeepsFlow ==
  ASSUME IInv, InSession, AlwaysOneInFlight, NoneOverlap, ~Duplicating,
         NEW p \in c2s, ServerSendsChunk(p) \/ ServerFinishes(p) \/ ServerFails(p),
         UNCHANGED client
  PROVE  SessionLasts' /\ AlwaysOneInFlight' /\ NoneOverlap'
<1>1. Pulls(p) /\ session.open /\ session'.state = "ESTABLSH" /\ session'.ack = After(p)
  BY Emits
<1>2. PICK q \in Header : Emitted(p, q)
  BY Emits
<1>3. /\ ServerAnswers(p, {q}) /\ q.seq = session.seq /\ After(q) = session'.seq
      /\ ~session'.open => IsSet(q, "RST")
  BY <1>2 DEF Emitted
<1>4. session.state \in Streams /\ CfgAckLen <= session.seq
  <2>1. session.state \in Streams /\ session.seq = Position(session.read)
        /\ session.read \in 0..NumChunks
    BY <1>1 DEF IInv, SessionInv, TypeOK, SessionType
  <2> QED
    BY <2>1, PositionType, Constants
<1>5. session.seq \in Nat /\ session'.seq \in Nat /\ session.seq < session'.seq
      /\ client.ack \in Nat
  BY <1>3, AfterType, FlowTypes
<1>6. s2c' = s2c \cup {q} /\ q \in s2c'
  BY <1>3 DEF ServerAnswers
<1>7. \A r \in s2c : /\ r.seq \in Nat /\ After(r) \in Nat
                     /\ r.seq < After(r) /\ After(r) <= session.seq
  BY FlowTypes DEF InSession
<1>8. client.ack <= session.seq
  BY DEF InSession
<1>9. SessionLasts'
  BY <1>1 DEF SessionLasts
<1>10. AlwaysOneInFlight'
  <2>1. session'.ack = client'.seq \/ \E r \in c2s' : After(r) = client'.seq
    BY <1>1, <1>3, LastToCome
  <2>2. client'.ack # session'.seq
    BY <1>5, <1>8
  <2>3. \A r \in s2c' : IsSet(r, "RST") => CfgAckLen <= r.seq
    BY <1>3, <1>4, <1>6 DEF AlwaysOneInFlight
  <2>4. \A r \in s2c' : ~session'.open /\ After(r) = session'.seq => IsSet(r, "RST")
    BY <1>3, <1>5, <1>6, <1>7
  <2> QED
    BY <1>3, <1>6, <2>1, <2>2, <2>3, <2>4 DEF AlwaysOneInFlight, After
<1>11. NoneOverlap'
  <2>1. \A r1, r2 \in s2c' : r1.seq <= r2.seq => r1 = r2 \/ After(r1) <= r2.seq
    <3> SUFFICES ASSUME NEW r1 \in s2c', NEW r2 \in s2c', r1.seq <= r2.seq, r1 # r2
                 PROVE  After(r1) <= r2.seq
      OBVIOUS
    <3>1. CASE r1 \in s2c /\ r2 \in s2c
      BY <3>1 DEF NoneOverlap
    <3>2. CASE r1 \in s2c /\ r2 = q
      BY <1>3, <1>7, <3>2
    <3>3. CASE r1 = q /\ r2 \in s2c
      BY <1>3, <1>5, <1>7, <3>3
    <3> QED
      BY <1>6, <3>1, <3>2, <3>3
  <2>2. \A r \in s2c' : r.seq < client'.ack => After(r) <= client'.ack
    <3> SUFFICES ASSUME NEW r \in s2c', r.seq < client'.ack PROVE After(r) <= client'.ack
      OBVIOUS
    <3>1. r # q
      BY <1>3, <1>5, <1>8
    <3> QED
      BY <1>6, <3>1 DEF NoneOverlap
  <2> QED
    BY <2>1, <2>2 DEF NoneOverlap, After
<1> QED
  BY <1>9, <1>10, <1>11

LEMMA IgnoreKeepsFlow ==
  ASSUME IInv, AlwaysOneInFlight, NoneOverlap, ~Duplicating,
         NEW p \in c2s, ServerIgnores(p), UNCHANGED client
  PROVE  SessionLasts' /\ AlwaysOneInFlight' /\ NoneOverlap'
<1>1. /\ Pulls(p) /\ ~session.open /\ ~session'.open
      /\ session'.state = "ESTABLSH" /\ session'.seq = session.seq
      /\ session'.ack = After(p) /\ ServerAnswers(p, {})
  BY Ignored
<1>2. session.state \in Streams /\ s2c' = s2c
  BY <1>1, PullIsNew DEF ServerAnswers
<1>3. session'.ack = client'.seq \/ \E r \in c2s' : After(r) = client'.seq
  BY <1>1, LastToCome
<1>4. SessionLasts'
  BY <1>1 DEF SessionLasts
<1>5. AlwaysOneInFlight'
  BY <1>1, <1>2, <1>3 DEF AlwaysOneInFlight, After
<1>6. NoneOverlap'
  BY <1>2 DEF NoneOverlap, After
<1> QED
  BY <1>4, <1>5, <1>6

(* What the server drops it has answered.                                  *)
LEMMA DropKeepsFlow ==
  ASSUME IInv, AlwaysOneInFlight, NoneOverlap, ~Duplicating, session.state \in Streams,
         NEW p \in c2s, ServerDrops(p), UNCHANGED client
  PROVE  SessionLasts' /\ AlwaysOneInFlight' /\ NoneOverlap'
<1>1. Get = session
  BY DEF Get, Streams
<1>2. session' = session /\ p.seq < session.ack /\ s2c' = s2c /\ c2s' = c2s \ {p}
  BY <1>1 DEF ServerDrops, AlreadyAcked, ServerAnswers, AfterReceive
<1>3. After(p) <= session.ack
  <2>1. SynLen <= session.ack /\ p.seq \in Nat
    <3>1. session.read \in Nat /\ SynLen + session.read <= session.ack
      BY Constants DEF IInv, SessionInv, TypeOK, SessionType
    <3> QED
      BY <3>1, FlowTypes, Constants
  <2>2. (p.seq = 0 /\ p.length = SynLen) \/ p.length = 0
    BY DEF IInv, InFlightInv, FromClient
  <2> QED
    BY <1>2, <2>1, <2>2, FlowTypes, Constants DEF After, Span
<1>4. session.ack = client.seq \/ \E r \in c2s' : After(r) = client.seq
  <2>1. CASE session.ack = client.seq
    BY <2>1
  <2>2. CASE session.ack # client.seq
    <3>1. PICK r \in c2s : After(r) = client.seq
      BY <2>2 DEF AlwaysOneInFlight
    <3>2. r # p
      BY <1>3, <2>2, <3>1, FlowTypes
    <3> QED
      BY <1>2, <3>1, <3>2
  <2> QED
    BY <2>1, <2>2
<1>5. SessionLasts'
  BY <1>2 DEF SessionLasts, Streams
<1>6. AlwaysOneInFlight'
  BY <1>2, <1>4 DEF AlwaysOneInFlight, After
<1>7. NoneOverlap'
  BY <1>2 DEF NoneOverlap, After
<1> QED
  BY <1>5, <1>6, <1>7

(* The SYN is answered.                                                    *)
LEMMA OpenKeepsFlow ==
  ASSUME IInv, SessionLasts, ~Duplicating, session.state = "NONE",
         NEW p \in c2s, ServerOpens(p), UNCHANGED <<client, pushed>>
  PROVE  SessionLasts' /\ AlwaysOneInFlight' /\ NoneOverlap'
<1>1. pushed = <<>> /\ s2c = {} /\ client.ack = 0 /\ \A r \in c2s : r = p
  BY DEF SessionLasts
<1>2. client.seq = SynLen /\ client.seq \in Nat
  <2>1. client.state # "INITIAL"
    BY ServerArrival
  <2>2. client.seq = SynLen
    BY <1>1, <2>1, Constants DEF IInv, ClientInv
  <2> QED
    BY <2>2, Constants
<1>3. /\ session'.state = "SACK_SENT" /\ session'.open
      /\ session'.seq = CfgAckLen /\ session'.ack = SynLen
  BY Opens
<1>4. PICK q \in Header : /\ ServerAnswers(p, {q}) /\ q.seq = 0 /\ After(q) = CfgAckLen
                          /\ q.flags = {"SYN", "ACK"}
  BY Opens
<1>5. s2c' = {q}
  BY <1>1, <1>4 DEF ServerAnswers
<1>6. SessionLasts'
  BY <1>3 DEF SessionLasts
<1>7. AlwaysOneInFlight'
  BY <1>1, <1>2, <1>3, <1>4, <1>5 DEF AlwaysOneInFlight, After, IsSet
<1>8. NoneOverlap'
  BY <1>1, <1>4, <1>5 DEF NoneOverlap, After
<1> QED
  BY <1>6, <1>7, <1>8

LEMMA RefusalKeepsFlow ==
  ASSUME IInv, SessionLasts, ~Duplicating, session.state = "NONE",
         NEW p \in c2s, ServerRefuses(p), UNCHANGED <<client, pushed>>
  PROVE  SessionLasts' /\ AlwaysOneInFlight' /\ NoneOverlap'
<1>1. pushed = <<>> /\ s2c = {} /\ client.ack = 0 /\ \A r \in c2s : r = p
  BY DEF SessionLasts
<1>2. session' = NoSession
  BY Refuses
<1>3. PICK q \in Header : ServerAnswers(p, {q}) /\ q.seq = 0
  BY Refuses
<1>4. s2c' = {q} /\ c2s' = {}
  BY <1>1, <1>3 DEF ServerAnswers, AfterReceive
<1>5. SessionLasts'
  BY <1>1, <1>4 DEF SessionLasts
<1>6. AlwaysOneInFlight'
  BY <1>2 DEF AlwaysOneInFlight, NoSession, Streams
<1>7. NoneOverlap'
  BY <1>1, <1>3, <1>4 DEF NoneOverlap
<1> QED
  BY <1>5, <1>6, <1>7

LEMMA ServerStepFlow ==
  ASSUME ~Duplicating, IInv, UndelayedInv, FlowInv, ServerStep PROVE FlowInv'
<1> SUFFICES ASSUME result' = Running PROVE SessionLasts' /\ AlwaysOneInFlight' /\ NoneOverlap'
  BY DEF FlowInv
<1>1. UNCHANGED <<client, pushed, result>>
  BY DEF ServerStep
<1>2. SessionLasts /\ AlwaysOneInFlight /\ NoneOverlap
  BY <1>1 DEF FlowInv
<1>3. PICK p \in c2s :
        \/ ServerDrops(p) \/ ServerForgets(p) \/ ServerIgnores(p)
        \/ ServerRejects(p) \/ ServerRefuses(p) \/ ServerOpens(p)
        \/ ServerSendsChunk(p) \/ ServerFinishes(p) \/ ServerFails(p)
  BY DEF ServerStep, ServerReceives, Receivable
<1>4. ~ServerForgets(p)
  BY ServerArrival DEF ServerForgets
<1>5. CASE session.state = "NONE"
  <2>1. BeforeSession /\ p.flags = {"SYN"} /\ p.seq \in Nat
    BY <1>5, ServerArrival DEF UndelayedInv, BeforeSession, AfterSession, Header
  <2>2. ~ServerDrops(p)
    BY <1>5, <2>1 DEF ServerDrops, AlreadyAcked, Get, NoSession
  <2>3. ~ServerRejects(p)
    BY <2>1 DEF ServerRejects, IsSet
  <2>4. ~Pulls(p)
    BY <1>5 DEF Pulls, Handles, Get, NoSession
  <2>5. ServerRefuses(p) \/ ServerOpens(p)
    BY <1>3, <1>4, <2>2, <2>3, <2>4
    DEF ServerIgnores, ServerSendsChunk, ServerFinishes, ServerFails
  <2> QED
    BY <1>1, <1>2, <1>5, <2>5, RefusalKeepsFlow, OpenKeepsFlow
<1>6. CASE session.state # "NONE"
  <2>1. InSession /\ session.state # "INITIAL"
    BY <1>6 DEF UndelayedInv
  <2>2. Get = session /\ session.state \in Streams
    BY <1>6, <2>1 DEF Get, IInv, TypeOK, SessionType, Streams
  <2>3. ~ServerRejects(p) /\ ~ServerRefuses(p) /\ ~ServerOpens(p)
    BY <1>6, <2>1, InitialOnly DEF ServerRejects, ServerRefuses, ServerOpens
  <2>4. CASE ServerDrops(p)
    BY <1>1, <1>2, <2>2, <2>4, DropKeepsFlow
  <2>5. CASE ServerIgnores(p)
    BY <1>1, <1>2, <2>5, IgnoreKeepsFlow
  <2>6. CASE ServerSendsChunk(p) \/ ServerFinishes(p) \/ ServerFails(p)
    BY <1>1, <1>2, <2>1, <2>6, EmitKeepsFlow
  <2> QED
    BY <1>3, <1>4, <2>3, <2>4, <2>5, <2>6
<1> QED
  BY <1>5, <1>6

(* Nothing in flight to the client straddles the place it has come to.     *)
LEMMA TakenLeavesNoOverlap ==
  ASSUME IInv, NoneOverlap, ~Duplicating, NEW p \in s2c,
         s2c' \in AfterReceive(s2c, p), client'.ack = After(p)
  PROVE  NoneOverlap'
<1>1. s2c' = s2c \ {p}
  BY DEF AfterReceive
<1>2. ASSUME NEW r \in s2c', r.seq < client'.ack PROVE After(r) <= client'.ack
  <2>1. r \in s2c /\ r # p
    BY <1>1
  <2>2. /\ r.seq \in Nat /\ p.seq \in Nat /\ After(r) \in Nat /\ After(p) \in Nat
        /\ p.seq < After(p)
    BY <2>1, FlowTypes
  <2>3. ~(p.seq <= r.seq)
    BY <1>2, <2>1, <2>2 DEF NoneOverlap
  <2>4. After(r) <= p.seq
    BY <2>1, <2>2, <2>3 DEF NoneOverlap
  <2> QED
    BY <2>2, <2>4
<1> QED
  BY <1>1, <1>2 DEF NoneOverlap, After

LEMMA TakenKeepsFlow ==
  ASSUME IInv, InSession, AlwaysOneInFlight, NoneOverlap, ~Duplicating,
         session.state \in Streams, NEW p \in s2c, Taken(p), UNCHANGED session
  PROVE  SessionLasts' /\ AlwaysOneInFlight' /\ NoneOverlap'
<1>1. /\ ~IsSet(p, "RST") /\ client.ack <= p.seq /\ client'.ack = After(p)
      /\ client.seq < client'.seq /\ s2c' \in AfterReceive(s2c, p)
      /\ \E q \in c2s' : After(q) = client'.seq
  BY DEF Taken
<1>2. s2c' = s2c \ {p}
  BY <1>1 DEF AfterReceive
<1>3. /\ session.ack \in Nat /\ client.seq \in Nat /\ session.ack <= client.seq
      /\ p.seq \in Nat /\ After(p) \in Nat /\ p.seq < After(p)
      /\ client.ack \in Nat /\ session.seq \in Nat /\ After(p) <= session.seq
  BY FlowTypes DEF InSession
<1>4. client'.seq \in Nat
  <2>1. PICK q \in c2s' : After(q) = client'.seq
    BY <1>1
  <2>2. q \in Header
    BY FlowTypes DEF Taken
  <2> QED
    BY <2>1, <2>2, AfterType
<1>5. client'.ack = session.seq \/ \E r \in s2c' : After(r) = session.seq
  <2>1. PICK r \in s2c : After(r) = session.seq
    BY <1>1, <1>3 DEF AlwaysOneInFlight
  <2> QED
    BY <1>1, <1>2, <2>1
<1>6. ~session.open => client'.ack # session.seq
  BY <1>1 DEF AlwaysOneInFlight
<1>7. session.ack # client'.seq
  BY <1>1, <1>3, <1>4
<1>8. SessionLasts'
  BY DEF SessionLasts, Streams
<1>9. AlwaysOneInFlight'
  BY <1>1, <1>2, <1>5, <1>6, <1>7 DEF AlwaysOneInFlight, After
<1>10. NoneOverlap'
  BY <1>1, TakenLeavesNoOverlap
<1> QED
  BY <1>8, <1>9, <1>10

(* What the client drops it has acknowledged.                              *)
LEMMA ClientDropKeepsFlow ==
  ASSUME IInv, UndelayedInv, SessionLasts, AlwaysOneInFlight, NoneOverlap, ~Duplicating,
         NEW p \in s2c, ClientDrops(p), UNCHANGED session
  PROVE  SessionLasts' /\ AlwaysOneInFlight' /\ NoneOverlap'
<1>1. p.seq < client.ack /\ s2c' = s2c \ {p} /\ c2s' = c2s /\ UNCHANGED <<client, pushed>>
  BY DEF ClientDrops, AlreadyAcked, ClientAnswers, AfterReceive
<1>2. After(p) <= client.ack
  BY <1>1 DEF NoneOverlap
<1>3. SessionLasts'
  BY <1>1 DEF SessionLasts
<1>4. AlwaysOneInFlight'
  <2> SUFFICES ASSUME session.state \in Streams PROVE AlwaysOneInFlight'
    BY DEF AlwaysOneInFlight
  <2>1. client.ack <= session.seq
    BY DEF UndelayedInv, InSession, Streams
  <2>2. client.ack = session.seq \/ \E r \in s2c' : After(r) = session.seq
    <3>1. CASE client.ack = session.seq
      BY <3>1
    <3>2. CASE client.ack # session.seq
      <4>1. PICK r \in s2c : After(r) = session.seq
        BY <3>2 DEF AlwaysOneInFlight
      <4>2. r # p
        BY <1>2, <2>1, <3>2, <4>1, FlowTypes
      <4> QED
        BY <1>1, <4>1, <4>2
    <3> QED
      BY <3>1, <3>2
  <2> QED
    BY <1>1, <2>2 DEF AlwaysOneInFlight, After
<1>5. NoneOverlap'
  BY <1>1 DEF NoneOverlap, After
<1> QED
  BY <1>3, <1>4, <1>5

LEMMA ClientStepFlow ==
  ASSUME ~Duplicating, IInv, ContentInv, UndelayedInv, FlowInv, ClientStep PROVE FlowInv'
<1> SUFFICES ASSUME result' = Running PROVE SessionLasts' /\ AlwaysOneInFlight' /\ NoneOverlap'
  BY DEF FlowInv
<1>1. result = Running /\ UNCHANGED session
  BY DEF ClientStep, ClientReceives
<1>2. SessionLasts /\ AlwaysOneInFlight /\ NoneOverlap
  BY <1>1 DEF FlowInv
<1>3. PICK p \in s2c :
        ClientDrops(p) \/ ClientIsReset(p) \/ ClientConfigures(p) \/ ClientPlays(p)
  BY DEF ClientStep, ClientReceives, Receivable
<1>4. session.state = "NONE" => BeforeSession
  BY <1>1, <1>3 DEF UndelayedInv, AfterSession
<1>5. session.state # "NONE" => session.state \in Streams /\ InSession
  BY DEF UndelayedInv, IInv, TypeOK, SessionType, Streams
<1>6. CASE ClientDrops(p)
  BY <1>1, <1>2, <1>6, ClientDropKeepsFlow
<1>7. CASE ClientIsReset(p)
  <2>1. GoesWithFlags(p)
    BY DEF ContentInv
  <2>2. /\ IsSet(p, "RST") /\ client.ack <= p.seq /\ client'.ack = After(p)
        /\ p.seq = 0 /\ s2c' \in AfterReceive(s2c, p) /\ c2s' = c2s /\ UNCHANGED pushed
    BY <1>7, <2>1, ResetEnds
  <2>3. session.state = "NONE"
    BY <1>2, <1>5, <2>2 DEF AlwaysOneInFlight
  <2>4. c2s' = {} /\ SessionLasts'
    BY <1>1, <1>2, <2>2, <2>3 DEF SessionLasts
  <2>5. AlwaysOneInFlight'
    BY <1>1, <2>3 DEF AlwaysOneInFlight, Streams
  <2>6. NoneOverlap'
    BY <1>2, <2>2, TakenLeavesNoOverlap
  <2> QED
    BY <2>4, <2>5, <2>6
<1>8. CASE ClientConfigures(p) \/ ClientPlays(p)
  <2>1. Taken(p)
    BY <1>8, ConfiguresTakes, PlaysTakes
  <2>2. session.state # "NONE"
    BY <1>4, <2>1 DEF BeforeSession, Taken
  <2> QED
    BY <1>1, <1>2, <1>5, <2>1, <2>2, TakenKeepsFlow
<1> QED
  BY <1>3, <1>6, <1>7, <1>8

(* Neither a connection nor a timeout disturbs it: while the client runs   *)
(* no session that there is comes to wait for nothing.                     *)
LEMMA FlowNext ==
  ASSUME ~Delayed, ~Duplicating, IInv, ContentInv, UndelayedInv, FlowInv,
         [ProgramStep]_vars
  PROVE  FlowInv'
<1>1. CASE ConnectStep
  <2>1. session.state = "NONE"
    BY <1>1, NoneBefore DEF ConnectStep, ClientConnects, UndelayedInv
  <2>2. PICK q \in Header : c2s' = {q}
    BY <1>1, ConnectStepIs
  <2>3. /\ client'.ack = 0 /\ s2c = {} /\ pushed = <<>>
        /\ UNCHANGED <<s2c, pushed, result, session>>
    BY <1>1, ConnectStepIs
  <2> QED
    BY <2>1, <2>2, <2>3
    DEF FlowInv, SessionLasts, AlwaysOneInFlight, NoneOverlap, Streams
<1>2. CASE ClientStep
  BY <1>2, ClientStepFlow
<1>3. CASE ClientExpires \/ ClientStops
  <2>1. result' # Running
    BY <1>3, ClientAssumption DEF ClientExpires, ClientStops, ClientTimesOut, ClientFails
  <2> QED
    BY <2>1 DEF FlowInv
<1>4. CASE ServerStep
  BY <1>4, ServerStepFlow
<1>5. CASE SessionExpires
  <2> SUFFICES ASSUME result' = Running PROVE FALSE
    BY DEF FlowInv
  <2>1. c2s = {} /\ s2c = {} /\ session.state # "NONE" /\ result = Running
    BY <1>5 DEF SessionExpires, ServerExpires, Quiet
  <2>2. session.state \in Streams
    BY <2>1 DEF UndelayedInv, IInv, TypeOK, SessionType, Streams
  <2> QED
    BY <2>1, <2>2 DEF FlowInv, AlwaysOneInFlight
<1>6. CASE UNCHANGED vars
  BY <1>6 DEF vars, FlowInv, SessionLasts, AlwaysOneInFlight, NoneOverlap, After
<1> QED
  BY <1>1, <1>2, <1>3, <1>4, <1>5, <1>6 DEF ProgramStep

(***************************************************************************)
(* With the history of whether a datagram has been lost.                   *)
(***************************************************************************)

LEMMA LossyNextInv ==
  ASSUME ~Delayed, ~Duplicating, IInv, LossyInv, [LossyNext]_LossyVars
  PROVE  (IInv /\ LossyInv)'
<1>1. [Next]_vars
  BY DEF LossyNext, LossyVars, Next, vars
<1>2. IInv' /\ ContentInv' /\ UndelayedInv'
  BY <1>1, InvNext, ContentNext, UndelayedNext DEF LossyInv
<1>3. ~lost' => FlowInv'
  <2> SUFFICES ASSUME ~lost' PROVE FlowInv'
    OBVIOUS
  <2>1. [ProgramStep]_vars /\ ~lost
    BY DEF LossyNext, LossyVars, vars
  <2> QED
    BY <2>1, FlowNext DEF LossyInv
<1> QED
  BY <1>2, <1>3 DEF LossyInv

(* On a link that does not delay or duplicate, a packet of either side's   *)
(* stream is in flight, or the session is over, until one is lost: the     *)
(* client's and the server's duplicate check alone never drop the last     *)
(* one (session.c:280, client.c:184).                                      *)
THEOREM FlowIsKept ==
  ASSUME ~Delayed, ~Duplicating PROVE LossySpec => []LossyInv
<1>1. LossyInit => IInv /\ LossyInv
  BY InvInit, ContentInit, UndelayedInit, FlowInit DEF LossyInit, LossyInv
<1>2. IInv /\ LossyInv /\ [LossyNext]_LossyVars => (IInv /\ LossyInv)'
  BY LossyNextInv
<1> QED
  BY <1>1, <1>2, PTL DEF LossySpec

(* A client gives up waiting only when nothing is in flight; then there is *)
(* no session, and it has played nothing.                                  *)
LEMMA NeverStallsNext ==
  ASSUME ETIMEDOUT \notin SocketErrors, ~Delayed, IInv, LossyInv, StreamNeverStalls,
         [LossyNext]_LossyVars
  PROVE  StreamNeverStalls'
<1> SUFFICES ASSUME result' = ETIMEDOUT, ~lost' PROVE pushed' = <<>>
  BY DEF StreamNeverStalls
<1>1. ~lost
  BY DEF LossyNext, LossyVars
<1>2. CASE ClientStep
  <2>1. PICK p \in s2c :
          ClientDrops(p) \/ ClientIsReset(p) \/ ClientConfigures(p) \/ ClientPlays(p)
    BY <1>2 DEF ClientStep, ClientReceives, Receivable
  <2>2. result = Running
    BY <1>2 DEF ClientStep, ClientReceives
  <2>3. ~ClientIsReset(p)
    BY ResetEnds DEF LossyInv, ContentInv, Errnos
  <2> QED
    BY <2>1, <2>2, <2>3 DEF ClientDrops, ClientConfigures, ClientPlays
<1>3. CASE ClientExpires
  <2>1. result = Running /\ c2s = {} /\ s2c = {} /\ pushed' = pushed
    BY <1>3 DEF ClientExpires, ClientTimesOut, Quiet
  <2>2. FlowInv /\ UndelayedInv
    BY <1>1 DEF LossyInv
  <2>3. session.state \notin Streams
    BY <2>1, <2>2 DEF FlowInv, AlwaysOneInFlight
  <2>4. session.state = "NONE"
    BY <2>2, <2>3 DEF UndelayedInv, IInv, TypeOK, SessionType, Streams
  <2> QED
    BY <2>1, <2>2, <2>4 DEF FlowInv, SessionLasts
<1>4. CASE ClientStops
  BY <1>4 DEF ClientStops, ClientFails
<1>5. CASE ConnectStep \/ ServerStep \/ SessionExpires \/ UNCHANGED LossyVars
  <2>1. UNCHANGED <<pushed, result>>
    BY <1>5 DEF ConnectStep, ClientConnects, ServerStep, SessionExpires, LossyVars, vars
  <2> QED
    BY <1>1, <2>1 DEF StreamNeverStalls
<1> QED
  BY <1>2, <1>3, <1>4, <1>5 DEF LossyNext, ProgramStep

(* Reordering alone brings no stream to a halt that has begun: as long as  *)
(* nothing is lost, and no call fails with ETIMEDOUT itself, the client    *)
(* that has been configured does not run into its timeout                  *)
(* (session.c:280, client.c:184, 309).                                     *)
THEOREM NeverStalls ==
  ASSUME ~Delayed, ~Duplicating, ETIMEDOUT \notin SocketErrors
  PROVE  LossySpec => []StreamNeverStalls
<1>1. LossyInit => IInv /\ LossyInv /\ StreamNeverStalls
  <2>1. Init => result = Running
    BY DEF Init, ClientInit
  <2> QED
    BY <2>1, InvInit, ContentInit, UndelayedInit, FlowInit
    DEF LossyInit, LossyInv, StreamNeverStalls
<1>2. IInv /\ LossyInv /\ StreamNeverStalls /\ [LossyNext]_LossyVars
        => (IInv /\ LossyInv /\ StreamNeverStalls)'
  BY LossyNextInv, NeverStallsNext
<1> QED
  BY <1>1, <1>2, PTL DEF LossySpec

(***************************************************************************)
(* A network that keeps the order and loses nothing.                       *)
(***************************************************************************)

LEMMA ReliableInit == Init => ReliableInv
<1> SUFFICES ASSUME Init PROVE ReliableInv
  OBVIOUS
<1>1. NoGapInv
  BY DEF Init, NoGapInv
<1> QED
  BY <1>1, UndelayedInit, FlowInit DEF ReliableInv

LEMMA ServerStepNoGap ==
  ASSUME ~Duplicating, IInv, UndelayedInv, FlowInv, NoGapInv, ServerStep PROVE NoGapInv'
<1> SUFFICES ASSUME result' = Running PROVE NoGapInv'
  BY DEF NoGapInv
<1>1. UNCHANGED <<client, pushed, result>>
  BY DEF ServerStep
<1>2. SessionLasts /\ AlwaysOneInFlight /\ NoneOverlap
  BY <1>1 DEF FlowInv
<1>3. PICK p \in c2s :
        \/ ServerDrops(p) \/ ServerForgets(p) \/ ServerIgnores(p)
        \/ ServerRejects(p) \/ ServerRefuses(p) \/ ServerOpens(p)
        \/ ServerSendsChunk(p) \/ ServerFinishes(p) \/ ServerFails(p)
  BY DEF ServerStep, ServerReceives, Receivable
<1>4. CASE ServerDrops(p) \/ ServerForgets(p) \/ ServerIgnores(p)
  <2>1. s2c' = s2c
    BY <1>4 DEF ServerDrops, ServerForgets, ServerIgnores, ServerAnswers
  <2> QED
    BY <1>1, <2>1 DEF NoGapInv, After
<1>5. CASE ServerRejects(p)
  <2>1. session.state = "NONE" => p.flags = {"SYN"}
    BY <1>3 DEF UndelayedInv, BeforeSession, AfterSession
  <2>2. session.state = "NONE" /\ ~IsSet(p, "SYN")
    BY <1>5, InitialOnly DEF ServerRejects, UndelayedInv
  <2> QED
    BY <2>1, <2>2 DEF IsSet
<1>6. CASE ServerRefuses(p) \/ ServerOpens(p)
  <2>1. PICK q \in Header : ServerAnswers(p, {q}) /\ q.seq = 0
    BY <1>6, Refuses, Opens
  <2>2. session.state = "NONE"
    BY <1>6, InitialOnly DEF ServerRefuses, ServerOpens, UndelayedInv
  <2>3. s2c = {} /\ client.ack = 0
    BY <1>2, <2>2 DEF SessionLasts
  <2>4. s2c' = {q} /\ client'.ack = 0
    BY <1>1, <2>1, <2>3 DEF ServerAnswers
  <2> QED
    BY <2>1, <2>4 DEF NoGapInv
<1>7. CASE ServerSendsChunk(p) \/ ServerFinishes(p) \/ ServerFails(p)
  <2>1. PICK q \in Header : Emitted(p, q)
    BY <1>7, Emits
  <2>2. s2c' = s2c \cup {q} /\ q.seq = session.seq
    BY <2>1 DEF Emitted, ServerAnswers
  <2>3. session.state \in Streams
    BY <1>7, Emits, PullIsNew
  <2>4. client.ack <= q.seq
    BY <2>2, <2>3 DEF UndelayedInv, InSession, Streams
  <2>5. q.seq = client.ack \/ \E r \in s2c : After(r) = q.seq
    BY <1>2, <2>2, <2>3 DEF AlwaysOneInFlight
  <2> QED
    BY <1>1, <2>2, <2>4, <2>5 DEF NoGapInv, After
<1> QED
  BY <1>3, <1>4, <1>5, <1>6, <1>7

(* What the client receives is what comes next.                            *)
LEMMA NextReceived ==
  ASSUME IInv, NoGapInv, Ordered, result = Running, NEW p \in Receivable(s2c)
  PROVE  p \in s2c /\ p.seq = client.ack
<1>1. p \in s2c /\ \A q \in s2c : p.seq <= q.seq
  BY DEF Receivable
<1>2. ~(\E q \in s2c : After(q) = p.seq)
  <2> SUFFICES ASSUME NEW q \in s2c, After(q) = p.seq PROVE FALSE
    OBVIOUS
  <2>1. q.seq \in Nat /\ q.seq < p.seq /\ p.seq <= q.seq /\ p.seq \in Nat
    BY <1>1, FlowTypes
  <2> QED
    BY <2>1
<1> QED
  BY <1>1, <1>2 DEF NoGapInv

LEMMA ClientStepNoGap ==
  ASSUME Ordered, ~Duplicating, IInv, ContentInv, UndelayedInv, FlowInv, NoGapInv, ClientStep
  PROVE  NoGapInv'
<1>1. result = Running
  BY DEF ClientStep, ClientReceives
<1>2. PICK p \in Receivable(s2c) :
        ClientDrops(p) \/ ClientIsReset(p) \/ ClientConfigures(p) \/ ClientPlays(p)
  BY DEF ClientStep, ClientReceives
<1>3. p \in s2c /\ p.seq = client.ack /\ \A r \in s2c : p.seq <= r.seq
  BY <1>1, NextReceived DEF Receivable
<1>4. ~ClientDrops(p)
  BY <1>3, FlowTypes DEF ClientDrops, AlreadyAcked
<1>5. client'.ack = After(p) /\ s2c' \in AfterReceive(s2c, p)
  <2>1. CASE ClientIsReset(p)
    BY <1>3, <2>1, ResetEnds DEF ContentInv
  <2>2. CASE ClientConfigures(p) \/ ClientPlays(p)
    BY <1>3, <2>2, ConfiguresTakes, PlaysTakes DEF Taken
  <2> QED
    BY <1>2, <1>4, <2>1, <2>2
<1>6. s2c' = s2c \ {p}
  BY <1>5 DEF AfterReceive
<1>7. ASSUME NEW r \in s2c'
      PROVE  /\ client'.ack <= r.seq
             /\ r.seq = client'.ack \/ \E q \in s2c' : After(q) = r.seq
  <2>1. r \in s2c /\ r # p
    BY <1>6
  <2>2. After(p) <= r.seq
    BY <1>1, <1>3, <2>1 DEF FlowInv, NoneOverlap
  <2>3. r.seq # client.ack
    BY <1>3, <2>1, <2>2, FlowTypes
  <2>4. PICK q \in s2c : After(q) = r.seq
    BY <1>1, <2>1, <2>3 DEF NoGapInv
  <2> QED
    BY <1>5, <1>6, <2>2, <2>4
<1> QED
  BY <1>7 DEF NoGapInv, After

LEMMA ReliableNext ==
  ASSUME IInv, ContentInv, ReliableInv, [Next]_vars
  PROVE  ReliableInv'
<1> SUFFICES ASSUME Ordered, ~Lossy PROVE UndelayedInv' /\ FlowInv' /\ NoGapInv'
  BY DEF ReliableInv
<1>1. ~Duplicating /\ ~Delayed
  BY NetworkAssumption
<1>2. UndelayedInv /\ FlowInv /\ NoGapInv
  BY DEF ReliableInv
<1>3. [ProgramStep]_vars
  BY DEF Next, Loss, Lose
<1>4. UndelayedInv' /\ FlowInv'
  BY <1>1, <1>2, <1>3, UndelayedNext, FlowNext
<1>5. NoGapInv'
  <2>1. CASE ConnectStep
    BY <2>1, ConnectStepIs DEF NoGapInv
  <2>2. CASE ClientStep
    BY <1>1, <1>2, <2>2, ClientStepNoGap
  <2>3. CASE ClientExpires \/ ClientStops
    <3>1. result' # Running
      BY <2>3, ClientAssumption DEF ClientExpires, ClientStops, ClientTimesOut, ClientFails
    <3> QED
      BY <3>1 DEF NoGapInv
  <2>4. CASE ServerStep
    BY <1>1, <1>2, <2>4, ServerStepNoGap
  <2>5. CASE SessionExpires \/ UNCHANGED vars
    <3>1. UNCHANGED <<s2c, client, result>>
      BY <2>5 DEF SessionExpires, ServerExpires, vars
    <3> QED
      BY <1>2, <3>1 DEF NoGapInv, After
  <2> QED
    BY <1>3, <2>1, <2>2, <2>3, <2>4, <2>5 DEF ProgramStep
<1> QED
  BY <1>4, <1>5

(***************************************************************************)
(* The audio stream, by a step simulation: what a packet that passes the   *)
(* duplicate check may push is in the invariants.                          *)
(***************************************************************************)

(* The chunks heard, as a sequence.                                        *)
HeardInv ==
  /\ NumPlayed \in Nat /\ Played \in Seq(1..NumChunks) /\ Len(Played) = NumPlayed
  /\ \A i \in 1..NumPlayed : Played[i] = pushed[i + 1].n
  /\ NumPlayed = 0 => Played = <<>>

LEMMA PlayedIs == IInv => HeardInv
<1> SUFFICES ASSUME IInv PROVE HeardInv
  OBVIOUS
<1>1. Len(pushed) \in Nat /\ (pushed # <<>> => Len(pushed) >= 1)
  BY DEF IInv, TypeOK
<1>2. NumPlayed \in Nat /\ (pushed # <<>> => NumPlayed = Len(pushed) - 1)
      /\ (pushed = <<>> => NumPlayed = 0)
  BY <1>1 DEF NumPlayed
<1>3. ASSUME NEW i \in 1..NumPlayed PROVE pushed[i + 1].n \in 1..NumChunks
  <2>1. i + 1 \in 2..Len(pushed)
    BY <1>1, <1>2
  <2>2. pushed[i + 1].n \in ((i + 1) - 1)..NumChunks
    BY <2>1 DEF IInv, PushedInv
  <2> QED
    BY <1>2, <2>2, Constants
<1>4. Played \in [1..NumPlayed -> 1..NumChunks]
  BY <1>3 DEF Played
<1>5. Played \in Seq(1..NumChunks) /\ Len(Played) = NumPlayed
  <2>1. Played \in Seq(1..NumChunks)
    BY <1>2, <1>4, SeqDef
  <2>2. DOMAIN Played = 1..NumPlayed
    BY DEF Played
  <2> HIDE DEF Played
  <2> QED
    BY <1>2, <2>1, <2>2
<1>6. NumPlayed = 0 => Played = <<>>
  <2> HIDE DEF Played
  <2> QED
    BY <1>5
<1>7. \A i \in 1..NumPlayed : Played[i] = pushed[i + 1].n
  BY DEF Played
<1> QED
  BY <1>2, <1>5, <1>6, <1>7 DEF HeardInv

LEMMA HeardLast ==
  ASSUME IInv
  PROVE  /\ Stream!Last = LastPlayed /\ LastPlayed \in 0..NumChunks
<1>1. HeardInv
  BY PlayedIs
<1>2. Len(pushed) \in Nat /\ (pushed # <<>> <=> Len(pushed) >= 1)
  BY DEF IInv, TypeOK
<1>3. NumPlayed = IF Len(pushed) <= 1 THEN 0 ELSE Len(pushed) - 1
  BY <1>2 DEF NumPlayed
<1>4. CASE Len(pushed) <= 1
  BY <1>1, <1>3, <1>4, Constants DEF HeardInv, Stream!Last, LastPlayed
<1>5. CASE Len(pushed) > 1
  <2>1. NumPlayed \in 1..NumPlayed /\ NumPlayed + 1 = Len(pushed)
    BY <1>2, <1>3, <1>5
  <2>2. Played # <<>> /\ Played[NumPlayed] = pushed[Len(pushed)].n
    BY <1>1, <2>1 DEF HeardInv
  <2>3. Played[NumPlayed] \in 1..NumChunks
    BY <1>1, <2>1, ElementOfSeq DEF HeardInv
  <2> QED
    BY <1>1, <1>5, <2>2, <2>3, Constants DEF HeardInv, Stream!Last, LastPlayed
<1> QED
  BY <1>2, <1>4, <1>5

(* A position is that of one chunk only (PROTOCOL.txt:26).                 *)
LEMMA PositionInjective ==
  ASSUME NEW m \in 0..NumChunks, NEW n \in 0..NumChunks, Position(m) = Position(n)
  PROVE  m = n
<1>1. Position(m) \in Nat /\ m \in Nat /\ n \in Nat
  BY PositionType, Constants
<1>2. ~(m < n)
  <2> SUFFICES ASSUME m < n PROVE FALSE
    OBVIOUS
  <2>1. Position(m) + n - m <= Position(n)
    BY PositionMonotone
  <2> QED
    BY <1>1, <2>1
<1>3. ~(n < m)
  <2> SUFFICES ASSUME n < m PROVE FALSE
    OBVIOUS
  <2>1. Position(n) + m - n <= Position(m)
    BY PositionMonotone
  <2> QED
    BY <1>1, <2>1
<1> QED
  BY <1>1, <1>2, <1>3

(* A step that pushes nothing either is none for the listener or ends the  *)
(* stream.                                                                 *)
LEMMA NotHeard ==
  ASSUME UNCHANGED pushed, result' = result \/ result = Running,
         result = Running /\ result' = EOK =>
           (Ordered /\ ~Lossy => Stream!Last = NumChunks)
  PROVE  [Stream!Next]_(Stream!vars)
<1>1. Played' = Played
  BY DEF Played, NumPlayed
<1>2. CASE result' = result
  BY <1>1, <1>2 DEF Ending, Stream!vars
<1>3. CASE result = Running /\ result' = EOK
  <2>1. Ending = "none" /\ Ending' = "complete"
    BY <1>3 DEF Ending
  <2> QED
    BY <1>1, <1>3, <2>1 DEF Stream!Next, Stream!Complete
<1>4. CASE result = Running /\ result' # Running /\ result' # EOK
  <2>1. Ending = "none" /\ Ending' = "aborted"
    BY <1>4 DEF Ending
  <2> QED
    BY <1>1, <2>1 DEF Stream!Next, Stream!Abort
<1> QED
  BY <1>2, <1>3, <1>4

(* Nor does the listener hear the configuration.                           *)
LEMMA ConfigurationNotHeard ==
  ASSUME IInv, IInv', pushed = <<>>, Len(pushed') = 1, UNCHANGED result
  PROVE  [Stream!Next]_(Stream!vars)
<1>1. NumPlayed = 0 /\ NumPlayed' = 0
  BY DEF NumPlayed
<1>2. Played = <<>>
  BY <1>1, PlayedIs DEF HeardInv
<1>3. Played' = <<>>
  <2>1. HeardInv'
    BY PlayedIs, PTL
  <2> QED
    BY <1>1, <2>1 DEF HeardInv
<1> QED
  BY <1>2, <1>3 DEF Ending, Stream!vars

(* What the client plays is one of the chunks of the file, later than all  *)
(* those before.                                                           *)
LEMMA ChunkHeard ==
  ASSUME IInv, IInv', NEW c, pushed # <<>>, pushed' = Append(pushed, c),
         result = Running, UNCHANGED result,
         Ordered /\ ~Lossy => c.n = LastPlayed + 1
  PROVE  Stream!Hear
<1>1. /\ NumPlayed \in Nat /\ Played \in Seq(1..NumChunks) /\ Len(Played) = NumPlayed
      /\ \A i \in 1..NumPlayed : Played[i] = pushed[i + 1].n
  BY PlayedIs DEF HeardInv
<1>2. /\ NumPlayed' \in Nat /\ Played' \in Seq(1..NumChunks) /\ Len(Played') = NumPlayed'
      /\ \A i \in 1..NumPlayed' : Played'[i] = pushed'[i + 1].n
  <2>1. HeardInv'
    BY PlayedIs, PTL
  <2> QED
    BY <2>1 DEF HeardInv
<1>3. NumPlayed' = NumPlayed + 1 /\ NumPlayed = Len(pushed) - 1 /\ Len(pushed) >= 1
      /\ Len(pushed) \in Nat /\ Len(pushed') = Len(pushed) + 1
      /\ pushed'[Len(pushed) + 1] = c
  BY DEF IInv, TypeOK, NumPlayed
<1> DEFINE k == Played'[NumPlayed + 1]
<1>4. k \in 1..NumChunks
  <2>1. NumPlayed + 1 \in 1..Len(Played')
    BY <1>1, <1>2, <1>3
  <2>2. Played' \in Seq(1..NumChunks)
    BY <1>2
  <2> QED
    BY <2>1, <2>2, ElementOfSeq
<1>5. \A i \in 1..NumPlayed : Played'[i] = Played[i]
  <2>1. SUFFICES ASSUME NEW i \in 1..NumPlayed PROVE Played'[i] = Played[i]
    OBVIOUS
  <2>2. pushed'[i + 1] = pushed[i + 1]
    BY <1>1, <1>3 DEF IInv, TypeOK
  <2>3. i \in 1..NumPlayed'
    BY <1>1, <1>3
  <2>4. Played[i] = pushed[i + 1].n /\ Played'[i] = pushed'[i + 1].n
    BY <1>1, <1>2, <2>3
  <2> QED
    BY <2>2, <2>4
<1>6. Played' = Append(Played, k)
  <2> HIDE DEF k
  <2>1. Append(Played, k) \in Seq(1..NumChunks) /\ Len(Append(Played, k)) = NumPlayed + 1
        /\ Append(Played, k)[NumPlayed + 1] = k
        /\ \A i \in 1..NumPlayed : Append(Played, k)[i] = Played[i]
    BY <1>1, <1>4
  <2>2. \A i \in 1..(NumPlayed + 1) : Played'[i] = Append(Played, k)[i]
    BY <1>1, <1>5, <2>1 DEF k
  <2> QED
    BY <1>2, <1>3, <2>1, <2>2, SeqEqual
<1>7. k = c.n
  BY <1>1, <1>2, <1>3
<1>8. k > LastPlayed
  <2>1. CASE Len(pushed) = 1
    BY <1>4, <2>1, Constants DEF LastPlayed
  <2>2. CASE Len(pushed) > 1
    <3>1. Len(pushed) \in 2..Len(pushed') /\ Len(pushed) + 1 \in 2..Len(pushed')
      BY <1>3, <2>2
    <3>2. pushed'[Len(pushed)].n < pushed'[Len(pushed) + 1].n
      BY <1>3, <3>1 DEF IInv, PushedInv
    <3>3. pushed'[Len(pushed)] = pushed[Len(pushed)]
      BY <1>3, <2>2 DEF IInv, TypeOK
    <3> QED
      BY <1>3, <1>7, <2>2, <3>2, <3>3 DEF LastPlayed
  <2> QED
    BY <1>3, <2>1, <2>2
<1>9. Ending = "none" /\ UNCHANGED Ending
  BY DEF Ending
<1>10. Stream!Last = LastPlayed
  BY HeardLast
<1> HIDE DEF k
<1> QED
  BY <1>4, <1>6, <1>7, <1>8, <1>9, <1>10 DEF Stream!Hear

LEMMA InitSimulated == Init => Stream!Init
<1> SUFFICES ASSUME Init PROVE Stream!Init
  OBVIOUS
<1>1. NumPlayed = 0 /\ Ending = "none"
  BY DEF Init, ClientInit, NumPlayed, Ending
<1>2. Played = <<>>
  BY <1>1, InvInit, PlayedIs DEF HeardInv
<1> QED
  BY <1>1, <1>2 DEF Stream!Init

(* What comes next is the next chunk, or the end after the last one.       *)
LEMMA NextChunk ==
  ASSUME IInv, ContentInv, NoGapInv, Ordered, result = Running,
         NEW p \in Receivable(s2c), ClientPlays(p)
  PROVE  p.body.n = LastPlayed + 1
<1>1. p \in s2c /\ p.seq = client.ack
  BY NextReceived
<1>2. client.state = "ESTABLSH" /\ ~AlreadyAcked(client, p) /\ ~IsSet(p, "RST")
  BY DEF ClientPlays
<1>3. client.ack = Position(LastPlayed)
  BY <1>2 DEF ContentInv
<1>4. p.body.kind = "chunk"
  BY <1>1, PlaysTakes
<1>5. p.body.n \in 1..NumChunks /\ p.seq = Position(p.body.n - 1)
  BY <1>1, <1>2, <1>4 DEF IInv, InFlightInv, FromServer, IsSet
<1>6. p.body.n - 1 \in 0..NumChunks /\ LastPlayed \in 0..NumChunks
  BY <1>5, HeardLast, Constants
<1>7. p.body.n - 1 = LastPlayed
  BY <1>1, <1>3, <1>5, <1>6, PositionInjective
<1> QED
  BY <1>5, <1>6, <1>7, Constants

LEMMA NextEnd ==
  ASSUME IInv, ContentInv, NoGapInv, Ordered, result = Running,
         NEW p \in Receivable(s2c), ClientIsReset(p), result' = EOK,
         client.state # "INITIAL"
  PROVE  LastPlayed = NumChunks
<1>1. p \in s2c /\ p.seq = client.ack
  BY NextReceived
<1>2. p.seq = Position(NumChunks)
  BY <1>1, ResetEnds DEF ContentInv
<1>3. NumChunks \in 0..NumChunks /\ 8 <= Position(NumChunks) /\ Position(NumChunks) \in Nat
  BY PositionType, Constants
<1>4. client.state = "ESTABLSH"
  BY <1>1, <1>2, <1>3 DEF ContentInv, IInv, TypeOK, ClientType
<1>5. client.ack = Position(LastPlayed)
  BY <1>4 DEF ContentInv
<1>6. LastPlayed \in 0..NumChunks
  BY HeardLast
<1> QED
  BY <1>1, <1>2, <1>3, <1>5, <1>6, PositionInjective

LEMMA ClientStepSimulated ==
  ASSUME IInv, IInv', ContentInv, ReliableInv, ClientStep
  PROVE  [Stream!Next]_(Stream!vars)
<1>1. result = Running /\ client.state # "INITIAL"
  BY DEF ClientStep, ClientReceives
<1>2. PICK p \in Receivable(s2c) :
        ClientDrops(p) \/ ClientIsReset(p) \/ ClientConfigures(p) \/ ClientPlays(p)
  BY DEF ClientStep, ClientReceives
<1>3. p \in s2c
  BY DEF Receivable
<1>4. CASE ClientDrops(p)
  <2>1. UNCHANGED <<pushed, result>>
    BY <1>4 DEF ClientDrops
  <2> QED
    BY <2>1, <1>1, NotHeard
<1>5. CASE ClientIsReset(p)
  <2>1. UNCHANGED pushed
    BY <1>5 DEF ClientIsReset
  <2>2. result' = EOK => (Ordered /\ ~Lossy => Stream!Last = NumChunks)
    BY <1>1, <1>5, NextEnd, HeardLast DEF ReliableInv
  <2> QED
    BY <1>1, <2>1, <2>2, NotHeard
<1>6. CASE ClientConfigures(p)
  <2>1. pushed = <<>> /\ Len(pushed') = 1
    BY <1>3, <1>6, ConfiguresTakes
  <2>2. UNCHANGED result
    BY <1>6 DEF ClientConfigures
  <2> QED
    BY <2>1, <2>2, ConfigurationNotHeard
<1>7. CASE ClientPlays(p)
  <2>1. pushed # <<>> /\ pushed' = Append(pushed, PushedChunk(p)) /\ UNCHANGED result
    BY <1>3, <1>7, PlaysTakes DEF Taken
  <2>2. Ordered /\ ~Lossy => PushedChunk(p).n = LastPlayed + 1
    BY <1>1, <1>7, NextChunk DEF ReliableInv, PushedChunk
  <2>3. Stream!Hear
    BY <1>1, <2>1, <2>2, ChunkHeard
  <2> QED
    BY <2>3 DEF Stream!Next
<1> QED
  BY <1>2, <1>4, <1>5, <1>6, <1>7

LEMMA StepSimulated ==
  ASSUME IInv, IInv', ContentInv, ReliableInv, [Next]_vars
  PROVE  [Stream!Next]_(Stream!vars)
<1>1. CASE ClientStep
  BY <1>1, ClientStepSimulated
<1>2. CASE ConnectStep \/ ClientExpires \/ ClientStops
  <2>1. UNCHANGED pushed /\ (result' = result \/ result = Running)
    BY <1>2 DEF ConnectStep, ClientExpires, ClientStops, ClientConnects, ClientTimesOut, ClientFails
  <2>2. CASE ConnectStep
    BY <2>1, <2>2, NotHeard DEF ConnectStep, ClientConnects
  <2>3. CASE ClientExpires
    BY <2>1, <2>3, NotHeard DEF ClientExpires, ClientTimesOut
  <2>4. CASE ClientStops
    <3>1. result' # EOK
      BY <2>4, ClientAssumption DEF ClientStops, ClientFails
    <3> QED
      BY <2>1, <3>1, NotHeard
  <2> QED
    BY <1>2, <2>2, <2>3, <2>4
<1>3. CASE ServerStep \/ SessionExpires \/ Loss \/ UNCHANGED vars
  <2>1. UNCHANGED <<pushed, result>>
    BY <1>3 DEF ServerStep, SessionExpires, Loss, vars
  <2> QED
    BY <2>1, NotHeard
<1> QED
  BY <1>1, <1>2, <1>3 DEF Next, ProgramStep

(* The client's sink is an AudioStream's listener in any network.  What it *)
(* hears are chunks of the file in order, until sas_client_receive returns *)
(* (client.c:184-188, 202-217, 289-316); and if the network keeps the      *)
(* order and loses nothing, every chunk, and success is not reported       *)
(* before the last one was heard.                                          *)
THEOREM ImplementsReliableStream == Spec => ImplementsStream
<1>1. Init => IInv /\ ContentInv /\ ReliableInv /\ Stream!Init
  BY InvInit, ContentInit, ReliableInit, InitSimulated
<1>2. IInv /\ ContentInv /\ ReliableInv /\ [Next]_vars => (IInv /\ ContentInv /\ ReliableInv)'
  BY InvNext, ContentNext, ReliableNext
<1>3. IInv /\ IInv' /\ ContentInv /\ ReliableInv /\ [Next]_vars => [Stream!Next]_(Stream!vars)
  BY StepSimulated
<1> QED
  BY <1>1, <1>2, <1>3, PTL DEF Spec, ImplementsStream, Stream!Spec

(* So it is in every network that of an AudioStream that may leave chunks  *)
(* out.  This is what ClientProgram takes the network for.                 *)
THEOREM ImplementsAudioStream == Spec => ImplementsAnyStream
<1>1. Stream!Init => AnyStream!Init
  BY DEF Stream!Init, AnyStream!Init
<1>2. [Stream!Next]_(Stream!vars) => [AnyStream!Next]_(AnyStream!vars)
  <2>1. Stream!Hear => AnyStream!Hear
    BY DEF Stream!Hear, AnyStream!Hear, Stream!Last, AnyStream!Last
  <2>2. Stream!Complete => AnyStream!Complete
    BY DEF Stream!Complete, AnyStream!Complete
  <2>3. Stream!Abort => AnyStream!Abort
    BY DEF Stream!Abort, AnyStream!Abort
  <2> QED
    BY <2>1, <2>2, <2>3
    DEF Stream!Next, AnyStream!Next, Stream!vars, AnyStream!vars
<1> QED
  BY <1>1, <1>2, ImplementsReliableStream, PTL
  DEF ImplementsStream, ImplementsAnyStream, Stream!Spec, AnyStream!Spec

(***************************************************************************)
(* The packets as bytes.                                                   *)
(***************************************************************************)

(* Reversing the bytes of a member twice is the identity, and once when it *)
(* is one byte wide.                                                       *)
LEMMA Reversed ==
  ASSUME NEW w \in Nat, NEW S, NEW b \in [1..w -> S]
  PROVE  /\ Reverse(Reverse(b)) = b
         /\ w = 1 => Reverse(b) = b
<1>1. b \in Seq(S) /\ Len(b) = w
  <2>1. b \in Seq(S)
    BY SeqDef
  <2> QED
    BY <2>1
<1>2. Reverse(b) = [i \in 1..w |-> b[(w - i) + 1]]
  BY <1>1 DEF Reverse
<1>3. Reverse(b) \in [1..w -> S]
  <2>1. \A i \in 1..w : (w - i) + 1 \in 1..w
    OBVIOUS
  <2> QED
    BY <1>2, <2>1
<1>4. Reverse(b) \in Seq(S) /\ Len(Reverse(b)) = w
  <2>1. Reverse(b) \in Seq(S)
    BY <1>3, SeqDef
  <2> QED
    BY <1>3, <2>1
<1>5. Reverse(Reverse(b)) = [i \in 1..w |-> Reverse(b)[(w - i) + 1]]
  BY <1>4 DEF Reverse
<1>6. \A i \in 1..w : Reverse(b)[(w - i) + 1] = b[i]
  <2> SUFFICES ASSUME NEW i \in 1..w PROVE Reverse(b)[(w - i) + 1] = b[i]
    OBVIOUS
  <2>1. (w - i) + 1 \in 1..w /\ (w - ((w - i) + 1)) + 1 = i
    OBVIOUS
  <2> QED
    BY <1>2, <2>1
<1>7. Reverse(Reverse(b)) = b
  BY <1>5, <1>6
<1>8. w = 1 => Reverse(b) = b
  <2> SUFFICES ASSUME w = 1 PROVE Reverse(b) = b
    OBVIOUS
  <2>1. \A i \in 1..w : (w - i) + 1 = i
    OBVIOUS
  <2> QED
    BY <1>2, <2>1
<1> QED
  BY <1>7, <1>8

LEMMA BytesType ==
  ASSUME NEW n, NEW w
  PROVE  \E S : Bytes(n, w) \in [1..w -> S]
<1>1. Bytes(n, w) \in [1..w -> {Bytes(n, w)[i] : i \in 1..w}]
  BY DEF Bytes
<1> QED
  BY <1>1

(* What is converted by its sender and its receiver, or by neither of them *)
(* and is one byte wide, is the receiver's way to keep it.                 *)
LEMMA TwiceKept ==
  ASSUME NEW n, NEW w \in Nat, NEW from \in Hosts, NEW to \in Hosts
  PROVE  /\ Kept(to, Kept(from, Kept(from, Bytes(n, w)))) = Kept(to, Bytes(n, w))
         /\ w = 1 => Kept(from, Bytes(n, w)) = Kept(to, Bytes(n, w))
<1> DEFINE b == Bytes(n, w)
<1>1. PICK S : b \in [1..w -> S]
  BY BytesType
<1> HIDE DEF b
<1>2. Reverse(Reverse(b)) = b /\ (w = 1 => Reverse(b) = b)
  BY <1>1, Reversed
<1>3. Kept(from, Kept(from, b)) = b
  BY <1>2 DEF Kept
<1>4. w = 1 => Kept(from, b) = b /\ Kept(to, b) = b
  BY <1>2 DEF Kept
<1> QED
  BY <1>3, <1>4 DEF b

(* What is converted is no padding, and the other members that are not are *)
(* one byte wide (transport.h:85-112, transport.c:5-49).                   *)
LEMMA OthersAreBytes ==
  ASSUME NEW kind \in {"none", "cfg", "cfg_ack", "chunk", "err"},
         NEW member \in ToSet(HeaderMembers) \cup PayloadMembers(kind)
  PROVE  /\ Width[member] \in Nat
         /\ IF member \in HeaderEncodes \cup PayloadEncodes(kind) THEN member \notin Padding
            ELSE member \in Padding \/ Width[member] = 1
<1>1. ToSet(HeaderMembers)
        = {"seq", "ack", "reserved", "flags", "window", "length", "padding"}
  BY DEF ToSet, HeaderMembers
<1>2. CASE member \in ToSet(HeaderMembers)
  BY <1>1, <1>2 DEF Width, HeaderEncodes, PayloadEncodes, Padding
<1>3. CASE member \in PayloadMembers(kind)
  BY <1>3 DEF PayloadMembers, HeaderEncodes, PayloadEncodes, Width, Padding
<1> QED
  BY <1>2, <1>3

LEMMA Conversions ==
  ASSUME NEW p, p.body.kind \in {"none", "cfg", "cfg_ack", "chunk", "err"}
  PROVE  ReceivedAsSent(p, p.body.kind)
<1> DEFINE kind == p.body.kind
           members == ToSet(HeaderMembers) \cup PayloadMembers(kind)
           converted == HeaderEncodes \cup PayloadEncodes(kind)
<1> SUFFICES ASSUME NEW from \in Hosts, NEW to \in Hosts, NEW left \in Left
             PROVE  Received(to, kind, OnTheWire(from, p, left)) = InMemory(to, p, left)
  BY DEF ReceivedAsSent
<1>1. converted = HeaderDecodes \cup PayloadDecodes(kind)
  BY DEF HeaderEncodes, HeaderDecodes, PayloadEncodes, PayloadDecodes
<1> DEFINE b(member) == Bytes(Values(p)[member], Width[member])
           kept(host, member) ==
             IF member \in Padding THEN left[member] ELSE Kept(host, b(member))
           wire == OnTheWire(from, p, left)
<1>2. InMemory(from, p, left) = [member \in members |-> kept(from, member)]
  BY DEF InMemory
<1>3. InMemory(to, p, left) = [member \in members |-> kept(to, member)]
  BY DEF InMemory
<1> HIDE DEF members, converted, kept
<1>4. wire = [member \in members |->
                IF member \in converted THEN Kept(from, kept(from, member))
                ELSE kept(from, member)]
  BY <1>2 DEF OnTheWire, Converted, converted
<1>5. Received(to, kind, wire) =
        [member \in members |->
           IF member \in converted THEN Kept(to, wire[member]) ELSE wire[member]]
  <2>1. DOMAIN wire = members
    BY <1>4
  <2> QED
    BY <1>1, <2>1 DEF Received, Converted
<1>6. ASSUME NEW member \in members
      PROVE  (IF member \in converted THEN Kept(to, wire[member]) ELSE wire[member])
               = kept(to, member)
  <2>1. /\ Width[member] \in Nat
        /\ IF member \in converted THEN member \notin Padding
           ELSE member \in Padding \/ Width[member] = 1
    BY OthersAreBytes DEF members, converted
  <2>2. /\ Kept(to, Kept(from, Kept(from, b(member)))) = Kept(to, b(member))
        /\ Width[member] = 1 => Kept(from, b(member)) = Kept(to, b(member))
    BY <2>1, TwiceKept
  <2>3. wire[member] = IF member \in converted THEN Kept(from, kept(from, member))
                       ELSE kept(from, member)
    BY <1>4
  <2> HIDE DEF b, wire
  <2> QED
    BY <2>1, <2>2, <2>3 DEF kept
<1> HIDE DEF b
<1> QED
  BY <1>3, <1>5, <1>6

(* The client takes a packet that it has not acknowledged for what it was  *)
(* sent as, though only the flags and its own state say (client.c:202,     *)
(* 219, 250),                                                              *)
LEMMA ClientReadsRight ==
  ASSUME IInv, ContentInv, result = Running, NEW p \in s2c, ~AlreadyAcked(client, p)
  PROVE  ClientReads(p) = p.body.kind
<1>1. FromServer(p) /\ GoesWithFlags(p)
  BY DEF IInv, InFlightInv, ContentInv
<1>2. CASE IsSet(p, "RST")
  <2>1. p.body.kind \in {"none", "err"} /\ (IsSet(p, "ERR") <=> p.body.kind = "err")
    BY <1>1, <1>2 DEF FromServer, IsSet, GoesWithFlags
  <2> QED
    BY <1>2, <2>1 DEF ClientReads
<1>3. CASE ~IsSet(p, "RST") /\ client.state = "SYN_SENT"
  <2>1. pushed = <<>>
    BY <1>3 DEF IInv, ClientInv
  <2>2. p.body.kind = "cfg_ack"
    BY <1>1, <1>3, <2>1 DEF FromServer, IsSet
  <2> QED
    BY <1>3, <2>2 DEF ClientReads
<1>4. CASE ~IsSet(p, "RST") /\ client.state # "SYN_SENT"
  <2>1. client.state = "ESTABLSH"
    <3>1. client.state # "INITIAL" /\ client.state # "FINISHED"
      BY DEF IInv, ClientInv, ContentInv
    <3> QED
      BY <1>4, <3>1 DEF IInv, TypeOK, ClientType
  <2>2. CfgAckLen <= client.ack /\ client.ack \in Nat
    BY <2>1 DEF IInv, ClientInv, PushedInv, TypeOK, ClientType
  <2>3. p.seq # 0
    BY <2>2 DEF AlreadyAcked
  <2>4. p.body.kind = "chunk"
    BY <1>1, <1>4, <2>3 DEF FromServer, IsSet
  <2> QED
    BY <1>4, <2>4 DEF ClientReads
<1> QED
  BY <1>2, <1>3, <1>4

(* ... and so does the server, which opens a session only with a SYN       *)
(* (session.c:312-318).                                                    *)
LEMMA ServerReadsRight ==
  ASSUME IInv, ContentInv, NEW p \in c2s, ~AlreadyAcked(Get, p)
  PROVE  ServerReads(p) = p.body.kind
<1>1. FromClient(p) /\ ~IsSet(p, "RST")
  BY ServerArrival
<1>2. CASE IsSet(p, "SYN")
  <2>1. p.seq = 0 /\ p.body = Cfg(0)
    BY <1>1, <1>2 DEF FromClient, IsSet
  <2>2. Get.state = "INITIAL"
    <3>1. Get.state # "INITIAL" => session.state \in Streams /\ Get = session
      BY DEF Get, NoSession, IInv, TypeOK, SessionType, Streams
    <3>2. session.state \in Streams => 0 < session.ack
      <4>1. session.read \in Nat /\ session.ack \in Nat
        BY Constants DEF IInv, TypeOK, SessionType
      <4>2. session.state \in Streams => SynLen + session.read <= session.ack
        BY DEF IInv, SessionInv
      <4> QED
        BY <4>1, <4>2, Constants
    <3> QED
      BY <2>1, <3>1, <3>2 DEF AlreadyAcked
  <2> QED
    BY <1>1, <1>2, <2>1, <2>2 DEF ServerReads, Cfg
<1>3. CASE ~IsSet(p, "SYN")
  BY <1>3 DEF ContentInv, ServerReads
<1> QED
  BY <1>2, <1>3

(* Whatever the byte orders of the two hosts and whatever the network      *)
(* does, each member of what is not dropped arrives as it was set, and     *)
(* each payload is taken for what it was sent as (transport.c:5-49).       *)
THEOREM EveryFieldArrives == Spec => []FieldsArrive
<1>1. Init => IInv /\ ContentInv
  BY InvInit, ContentInit
<1>2. IInv /\ ContentInv /\ [Next]_vars => (IInv /\ ContentInv)'
  BY InvNext, ContentNext
<1>3. IInv /\ ContentInv => FieldsArrive
  <2> SUFFICES ASSUME IInv, ContentInv PROVE FieldsArrive
    OBVIOUS
  <2>1. \A p \in c2s \cup s2c : p.body.kind \in {"none", "cfg", "cfg_ack", "chunk", "err"}
    BY DEF IInv, TypeOK, Header, Body
  <2>2. ASSUME result = Running, NEW p \in Receivable(s2c), ~AlreadyAcked(client, p)
        PROVE  ReceivedAsSent(p, ClientReads(p))
    <3>1. p \in s2c
      BY DEF Receivable
    <3> QED
      BY <2>1, <2>2, <3>1, ClientReadsRight, Conversions
  <2>3. ASSUME NEW p \in Receivable(c2s), ~AlreadyAcked(Get, p)
        PROVE  ReceivedAsSent(p, ServerReads(p))
    <3>1. p \in c2s
      BY DEF Receivable
    <3> QED
      BY <2>1, <2>3, <3>1, ServerReadsRight, Conversions
  <2> QED
    BY <2>2, <2>3 DEF FieldsArrive
<1> QED
  BY <1>1, <1>2, <1>3, PTL DEF Spec


(***************************************************************************)
(* The header on the wire.                                                 *)
(***************************************************************************)
OneByOne(a, b, c, d, e, f, g) == (((((a \o b) \o c) \o d) \o e) \o f) \o g

LEMMA FlattenedSeven ==
  ASSUME NEW a, NEW b, NEW c, NEW d, NEW e, NEW f, NEW g
  PROVE  FlattenSeq(<<a, b, c, d, e, f, g>>) = OneByOne(a, b, c, d, e, f, g)
<1> DEFINE s == <<a, b, c, d, e, f, g>>
           Cat(x, y) == x \o y
           Turn(h) == [i \in 1..Len(s) |-> IF i = 1 THEN s[i] ELSE Cat(h[i - 1], s[i])]
           flatten == CHOOSE h : h = Turn(h)
           ab == Cat(a, b)
           abc == Cat(ab, c)
           abcd == Cat(abc, d)
           abcde == Cat(abcd, e)
           abcdef == Cat(abcde, f)
           abcdefg == Cat(abcdef, g)
           whole == <<a, ab, abc, abcd, abcde, abcdef, abcdefg>>
<1>1. FlattenSeq(s) = flatten[Len(s)]
  BY DEF FlattenSeq
<1>2. /\ Len(s) = 7 /\ s[1] = a /\ s[2] = b /\ s[3] = c /\ s[4] = d /\ s[5] = e /\ s[6] = f
      /\ s[7] = g
  OBVIOUS
<1>3. OneByOne(a, b, c, d, e, f, g) = abcdefg
  BY DEF OneByOne
<1> HIDE DEF s, Cat, ab, abc, abcd, abcde, abcdef, abcdefg
<1>4. /\ whole = [i \in 1..7 |-> whole[i]]
      /\ whole[1] = a /\ whole[2] = ab /\ whole[3] = abc
      /\ whole[4] = abcd /\ whole[5] = abcde /\ whole[6] = abcdef /\ whole[7] = abcdefg
  OBVIOUS
<1> HIDE DEF whole
<1>5. ASSUME NEW i \in 1..7 PROVE whole[i] = IF i = 1 THEN s[i] ELSE Cat(whole[i - 1], s[i])
  <2>1. CASE i = 1
    BY <1>2, <1>4, <2>1
  <2>2. CASE i = 2
    BY <1>2, <1>4, <2>2 DEF ab
  <2>3. CASE i = 3
    BY <1>2, <1>4, <2>3 DEF abc
  <2>4. CASE i = 4
    BY <1>2, <1>4, <2>4 DEF abcd
  <2>5. CASE i = 5
    BY <1>2, <1>4, <2>5 DEF abcde
  <2>6. CASE i = 6
    BY <1>2, <1>4, <2>6 DEF abcdef
  <2>7. CASE i = 7
    BY <1>2, <1>4, <2>7 DEF abcdefg
  <2>8. i = 1 \/ i = 2 \/ i = 3 \/ i = 4 \/ i = 5 \/ i = 6 \/ i = 7
    OBVIOUS
  <2> QED
    BY <2>1, <2>2, <2>3, <2>4, <2>5, <2>6, <2>7, <2>8
<1>6. whole = Turn(whole)
  <2>1. Turn(whole) = [i \in 1..7 |-> IF i = 1 THEN s[i] ELSE Cat(whole[i - 1], s[i])]
    BY <1>2
  <2> HIDE DEF Turn
  <2> QED
    BY <1>4, <1>5, <2>1
<1>7. flatten = Turn(flatten)
  <2> HIDE DEF Turn
  <2> QED
    BY <1>6
<1> HIDE DEF flatten
<1>8. \A i \in 1..7 : flatten[i] = IF i = 1 THEN s[i] ELSE Cat(flatten[i - 1], s[i])
  <2>1. flatten = [k \in 1..7 |-> IF k = 1 THEN s[k] ELSE Cat(flatten[k - 1], s[k])]
    BY <1>2, <1>7
  <2> QED
    BY <2>1
<1> HIDE DEF Turn
<1>9. flatten[1] = a
  BY <1>2, <1>8
<1>10. flatten[2] = ab
  BY <1>2, <1>8, <1>9 DEF ab
<1>11. flatten[3] = abc
  BY <1>2, <1>8, <1>10 DEF abc
<1>12. flatten[4] = abcd
  BY <1>2, <1>8, <1>11 DEF abcd
<1>13. flatten[5] = abcde
  BY <1>2, <1>8, <1>12 DEF abcde
<1>14. flatten[6] = abcdef
  BY <1>2, <1>8, <1>13 DEF abcdef
<1>15. flatten[7] = abcdefg
  BY <1>2, <1>8, <1>14 DEF abcdefg
<1> QED
  BY <1>1, <1>2, <1>3, <1>15 DEF s

LEMMA BytesSeq == ASSUME NEW n, NEW w \in Nat PROVE \E S : Bytes(n, w) \in Seq(S)
<1>1. PICK S : Bytes(n, w) \in [1..w -> S]
  BY BytesType
<1>2. Bytes(n, w) \in Seq(S)
  BY <1>1, SeqDef
<1> QED
  BY <1>2

(* The flags fill the second of the two bytes that the diagram calls       *)
(* reserved bits and flags.                                                *)
LEMMA FlagsAreAByte ==
  ASSUME NEW flags PROVE Bytes(Bits(flags), 2) = Bytes(0, 1) \o Bytes(Bits(flags), 1)
<1> DEFINE b == Bits(flags)
<1>1. b \in 0..31
  BY DEF Bits, FlagBit
<1> HIDE DEF b
<1>2. 256 ^ 0 = 1 /\ 256 ^ 1 = 256
  OBVIOUS
<1>3. (b \div 256) % 256 = 0 /\ (b \div 1) % 256 = b /\ (0 \div 1) % 256 = 0
  BY <1>1
<1>4. Bytes(0, 1) = <<0>>
  <2>1. Bytes(0, 1) = [i \in 1..1 |-> (0 \div 256 ^ (1 - i)) % 256]
    BY DEF Bytes
  <2>2. \A i \in 1..1 : 1 - i = 0
    OBVIOUS
  <2> QED
    BY <1>2, <1>3, <2>1, <2>2
<1>5. Bytes(b, 1) = <<b>>
  <2>1. Bytes(b, 1) = [i \in 1..1 |-> (b \div 256 ^ (1 - i)) % 256]
    BY DEF Bytes
  <2>2. \A i \in 1..1 : 1 - i = 0
    OBVIOUS
  <2> QED
    BY <1>2, <1>3, <2>1, <2>2
<1>6. Bytes(b, 2) = <<0, b>>
  <2>1. Bytes(b, 2) = [i \in 1..2 |-> (b \div 256 ^ (2 - i)) % 256]
    BY DEF Bytes
  <2>2. 2 - 1 = 1 /\ 2 - 2 = 0
    OBVIOUS
  <2>3. ASSUME NEW i \in 1..2
        PROVE  (b \div 256 ^ (2 - i)) % 256 = IF i = 1 THEN 0 ELSE b
    <3>1. CASE i = 1
      BY <1>2, <1>3, <2>2, <3>1
    <3>2. CASE i = 2
      BY <1>2, <1>3, <2>2, <3>2
    <3> QED
      BY <3>1, <3>2
  <2>4. <<0, b>> = [i \in 1..2 |-> IF i = 1 THEN 0 ELSE b]
    OBVIOUS
  <2> QED
    BY <2>1, <2>3, <2>4
<1>7. <<0, b>> = <<0>> \o <<b>>
  OBVIOUS
<1> QED
  BY <1>4, <1>5, <1>6, <1>7 DEF b

(* Each member of the header but the padding is on the wire with the most  *)
(* significant byte first, from a host of either byte order.               *)
LEMMA MembersOnTheWire ==
  ASSUME NEW p, NEW from \in Hosts, NEW left \in Left, NEW member \in ToSet(HeaderMembers)
  PROVE  OnTheWire(from, p, left)[member] =
           IF member = "padding" THEN left.padding
           ELSE Bytes(Values(p)[member], Width[member])
<1> DEFINE b == Bytes(Values(p)[member], Width[member])
           encoded == HeaderEncodes \cup PayloadEncodes(p.body.kind)
           kept == IF member \in Padding THEN left[member] ELSE Kept(from, b)
<1>1. ToSet(HeaderMembers)
        = {"seq", "ack", "reserved", "flags", "window", "length", "padding"}
  BY DEF ToSet, HeaderMembers
<1>2. /\ member \in Padding <=> member = "padding"
      /\ Width[member] \in Nat
      /\ member \notin encoded => member = "padding" \/ Width[member] = 1
  BY <1>1 DEF Width, HeaderEncodes, Padding
<1>3. "padding" \notin encoded
  BY DEF HeaderEncodes, PayloadEncodes
<1> HIDE DEF encoded, kept
<1>4. OnTheWire(from, p, left)[member] = IF member \in encoded THEN Kept(from, kept) ELSE kept
  BY DEF OnTheWire, Converted, InMemory, encoded, kept
<1>5. Kept(from, Kept(from, b)) = b /\ (Width[member] = 1 => Kept(from, b) = b)
  <2>1. PICK S : b \in [1..Width[member] -> S]
    BY BytesType
  <2> HIDE DEF b
  <2>2. Reverse(Reverse(b)) = b /\ (Width[member] = 1 => Reverse(b) = b)
    BY <1>2, <2>1, Reversed
  <2> QED
    BY <2>2 DEF Kept
<1> HIDE DEF b
<1>6. CASE member = "padding"
  BY <1>2, <1>3, <1>4, <1>6 DEF kept
<1>7. CASE member # "padding"
  BY <1>2, <1>4, <1>5, <1>7 DEF kept, b
<1> QED
  BY <1>6, <1>7

LEMMA HeaderOnTheWire ==
  ASSUME NEW p, NEW from \in Hosts, NEW left \in Left
  PROVE  LET wire == OnTheWire(from, p, left)
         IN FlattenSeq([i \in DOMAIN HeaderMembers |-> wire[HeaderMembers[i]]])
              = Drawn(p) \o left.padding
<1> DEFINE wire == OnTheWire(from, p, left)
           members == [i \in DOMAIN HeaderMembers |-> wire[HeaderMembers[i]]]
           seq == Bytes(p.seq, 4)
           ack == Bytes(p.ack, 4)
           reserved == Bytes(0, 1)
           flags == Bytes(Bits(p.flags), 1)
           window == Bytes(p.window, 2)
           length == Bytes(p.length, 2)
           padding == left.padding
<1>1. ToSet(HeaderMembers)
        = {"seq", "ack", "reserved", "flags", "window", "length", "padding"}
  BY DEF ToSet, HeaderMembers
<1>2. /\ wire["seq"] = seq /\ wire["ack"] = ack /\ wire["reserved"] = reserved
      /\ wire["flags"] = flags /\ wire["window"] = window /\ wire["length"] = length
      /\ wire["padding"] = padding
  <2>1. \A member \in ToSet(HeaderMembers) :
          wire[member] = IF member = "padding" THEN padding
                         ELSE Bytes(Values(p)[member], Width[member])
    BY MembersOnTheWire
  <2> HIDE DEF wire, padding
  <2> QED
    BY <1>1, <2>1 DEF Values, Width
<1> HIDE DEF wire, seq, ack, reserved, flags, window, length, padding
<1>3. members = <<seq, ack, reserved, flags, window, length, padding>>
  BY <1>2 DEF HeaderMembers
<1>4. FlattenSeq(members) = OneByOne(seq, ack, reserved, flags, window, length, padding)
  <2> HIDE DEF members
  <2> QED
    BY <1>3, FlattenedSeven
<1>5. ((seq \o ack) \o reserved) \o flags = (seq \o ack) \o (reserved \o flags)
  <2>1. PICK S1 : seq \in Seq(S1)
    BY BytesSeq DEF seq
  <2>2. PICK S2 : ack \in Seq(S2)
    BY BytesSeq DEF ack
  <2>3. PICK S3 : reserved \in Seq(S3)
    BY BytesSeq DEF reserved
  <2>4. PICK S4 : flags \in Seq(S4)
    BY BytesSeq DEF flags
  <2> DEFINE S == S1 \cup S2 \cup S3 \cup S4
  <2>5. seq \in Seq(S) /\ ack \in Seq(S) /\ reserved \in Seq(S) /\ flags \in Seq(S)
    BY <2>1, <2>2, <2>3, <2>4
  <2> HIDE DEF S
  <2> DEFINE Cat(x, y) == x \o y
  <2>6. \A x, y, z \in Seq(S) : Cat(Cat(x, y), z) = Cat(x, Cat(y, z))
    OBVIOUS
  <2>7. Cat(seq, ack) \in Seq(S)
    BY <2>5
  <2> HIDE DEF Cat
  <2>8. Cat(Cat(Cat(seq, ack), reserved), flags) = Cat(Cat(seq, ack), Cat(reserved, flags))
    BY <2>5, <2>6, <2>7
  <2> QED
    BY <2>8, Zenon DEF Cat
<1>6. Bytes(Values(p).flags, 2) = reserved \o flags
  BY FlagsAreAByte DEF Values, reserved, flags
<1> HIDE DEF members
<1>7. FlattenSeq(members)
        = (seq \o ack \o Bytes(Values(p).flags, 2) \o window \o length) \o padding
  <2> DEFINE four == ((seq \o ack) \o reserved) \o flags
  <2>1. OneByOne(seq, ack, reserved, flags, window, length, padding)
          = ((four \o window) \o length) \o padding
    BY DEF OneByOne
  <2>2. four = (seq \o ack) \o Bytes(Values(p).flags, 2)
    BY <1>5, <1>6
  <2> HIDE DEF four
  <2> QED
    BY <1>4, <2>1, <2>2
<1> QED
  BY <1>7 DEF Drawn, members, wire, seq, ack, window, length, padding

(* Whatever is sent, from a host of either byte order, its fields are laid *)
(* out on the wire as PROTOCOL.txt draws them, with the byte that nothing  *)
(* converts or uses zero; but the data does not follow them: two bytes of  *)
(* the sender's memory do (PROTOCOL.txt:10-22, transport.h:27-58,          *)
(* transport.c:5-11, session.c:179, client.c:116).                         *)
THEOREM FieldsThenPadding == Spec => []PaddingFollowsFields
<1>1. PaddingFollowsFields
  BY HeaderOnTheWire DEF PaddingFollowsFields
<1> QED
  BY <1>1, PTL
=============================================================================
