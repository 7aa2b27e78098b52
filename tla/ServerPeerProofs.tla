-------------------------- MODULE ServerPeerProofs --------------------------
(***************************************************************************)
(* What no peer can bring the server to do, for files of any length and    *)
(* streams of a peer of any length: what it sends and in which order, past *)
(* the end of the sequence numbers too, and before that, at which place.   *)
(***************************************************************************)
EXTENDS ServerPeer, TLAPS

(* The fields of a session, whatever is in them.                           *)
IsSession(s) ==
  \E state, seq, ack, send, receive, read, open :
    s = [state |-> state, seq |-> seq, ack |-> ack, send_window |-> send,
         receive_window |-> receive, read |-> read, open |-> open]

(* A session that streams has announced the stream and has sent all that   *)
(* its source has read - but perhaps not itself: what an earlier session   *)
(* of the peer has sent stays sent.                                        *)
SessionInv ==
  /\ IsSession(session)
  /\ session.read \in 0..NumChunks /\ session.open \in BOOLEAN
  /\ session.state \in {"NONE", "INITIAL"} => session.read = 0 /\ session.open = FALSE
  /\ session.open => 1..session.read \subseteq Sent("chunk") /\ Sent("cfg_ack") # {}

LogInv ==
  /\ Sent("chunk") \subseteq 1..NumChunks
  /\ NothingSkipped
  /\ FinAfterLast

Inv == SessionInv /\ LogInv

----------------------------------------------------------------------------
(* What the log is after an answer.                                        *)
LEMMA SentAfter ==
  ASSUME NEW q, s2c' = s2c \cup {q}, NEW kind
  PROVE  /\ Sent(kind) \subseteq Sent(kind)'
         /\ q.body.kind = kind => Sent(kind)' = Sent(kind) \cup {q.body.n}
         /\ q.body.kind # kind => Sent(kind)' = Sent(kind)
BY DEF Sent

LEMMA SilentLog == ASSUME LogInv, s2c' = s2c PROVE LogInv'
BY DEF LogInv, NothingSkipped, FinAfterLast, Sent, IsSet

LEMMA SilentSent == ASSUME s2c' = s2c, NEW kind PROVE Sent(kind)' = Sent(kind)
BY DEF Sent

(* Resets and SYN-ACKs are no chunks.                                      *)
LEMMA OtherLog ==
  ASSUME LogInv, NEW q, s2c' = s2c \cup {q}, q.body.kind # "chunk", ~IsSet(q, "FIN")
  PROVE  LogInv'
<1>1. Sent("chunk")' = Sent("chunk") /\ Sent("cfg_ack") \subseteq Sent("cfg_ack")'
  BY SentAfter
<1>2. NothingSkipped'
  BY <1>1 DEF LogInv, NothingSkipped
<1>3. FinAfterLast'
  BY <1>1 DEF LogInv, FinAfterLast, IsSet
<1> QED
  BY <1>1, <1>2, <1>3 DEF LogInv

(* The handler's updates keep the fields they do not name.                 *)
LEMMA Fields ==
  ASSUME NEW s, IsSession(s), NEW p, NEW length
  PROVE  /\ IsSession(Accepted(s, p)) /\ IsSession(AfterSend(s, length))
         /\ Accepted(s, p).state = s.state /\ AfterSend(s, length).state = s.state
         /\ Accepted(s, p).read = s.read /\ AfterSend(s, length).read = s.read
         /\ Accepted(s, p).open = s.open /\ AfterSend(s, length).open = s.open
<1>1. PICK state, seq, ack, send, receive, read, open :
        s = [state |-> state, seq |-> seq, ack |-> ack, send_window |-> send,
             receive_window |-> receive, read |-> read, open |-> open]
  BY DEF IsSession
<1> DEFINE next == Advance(p.seq, p.length)
           window == p.window
           after == Advance(s.seq, length)
<1>2. Accepted(s, p) =
        [state |-> state, seq |-> seq, ack |-> next, send_window |-> window,
         receive_window |-> receive, read |-> read, open |-> open]
  <2>1. Accepted(s, p) = [s EXCEPT !.send_window = window, !.ack = next]
    BY DEF Accepted
  <2> HIDE DEF next, window
  <2> QED
    BY <1>1, <2>1
<1>3. AfterSend(s, length) =
        [state |-> state, seq |-> after, ack |-> ack, send_window |-> send,
         receive_window |-> receive, read |-> read, open |-> open]
  <2>1. AfterSend(s, length) = [s EXCEPT !.seq = after]
    BY DEF AfterSend
  <2> HIDE DEF after
  <2> QED
    BY <1>1, <2>1
<1>4. IsSession(Accepted(s, p)) /\ IsSession(AfterSend(s, length))
  BY <1>2, <1>3 DEF IsSession
<1> QED
  BY <1>1, <1>2, <1>3, <1>4

LEMMA GetFields ==
  ASSUME Inv
  PROVE  /\ IsSession(Get) /\ Get.state # "NONE"
         /\ Get.read = session.read /\ Get.open = session.open
         /\ Get.state # "INITIAL" => Get = session
         /\ Get.state = "INITIAL" => Get.read = 0 /\ Get.open = FALSE
<1>1. CASE session.state = "NONE"
  <2>1. Get = [state |-> "INITIAL", seq |-> 0, ack |-> 0, send_window |-> 0,
               receive_window |-> WindowSize, read |-> 0, open |-> FALSE]
    BY <1>1 DEF Get, NoSession
  <2> QED
    BY <1>1, <2>1 DEF Inv, SessionInv, IsSession
<1>2. CASE session.state # "NONE"
  BY <1>2 DEF Get, Inv, SessionInv
<1> QED
  BY <1>1, <1>2

LEMMA NoSessionInv ==
  ASSUME session' = NoSession PROVE SessionInv'
<1>1. 0 \in 0..NumChunks
  BY ServerAssumption
<1> QED
  BY <1>1 DEF SessionInv, NoSession, IsSession

LEMMA PullingFields ==
  ASSUME Inv, NEW p
  PROVE  /\ IsSession(Pulling(p)) /\ Pulling(p).state = "ESTABLSH"
         /\ Pulling(p).read = session.read /\ Pulling(p).open = session.open
<1> DEFINE a == Accepted(Get, p)
<1>1. IsSession(a) /\ a.read = session.read /\ a.open = session.open
  BY GetFields, Fields
<1> HIDE DEF a
<1>2. PICK state, seq, ack, send, receive, read, open :
        a = [state |-> state, seq |-> seq, ack |-> ack, send_window |-> send,
             receive_window |-> receive, read |-> read, open |-> open]
  BY <1>1 DEF IsSession
<1>3. Pulling(p) = [a EXCEPT !.state = "ESTABLSH"]
  BY DEF Pulling, a
<1>4. Pulling(p) =
        [state |-> "ESTABLSH", seq |-> seq, ack |-> ack, send_window |-> send,
         receive_window |-> receive, read |-> read, open |-> open]
  BY <1>2, <1>3
<1>5. IsSession(Pulling(p))
  BY <1>4 DEF IsSession
<1>6. Pulling(p).state = "ESTABLSH" /\ Pulling(p).read = a.read /\ Pulling(p).open = a.open
  BY <1>2, <1>4
<1> QED
  BY <1>1, <1>5, <1>6

(* A session that is streaming and is only moved on keeps what it knows.   *)
LEMMA KeepsSession ==
  ASSUME Inv, IsSession(session'), session'.read = session.read,
         session'.open = session.open \/ session'.open = FALSE,
         session'.state \in {"NONE", "INITIAL"} => session.read = 0 /\ session'.open = FALSE,
         \A kind : Sent(kind) \subseteq Sent(kind)'
  PROVE  SessionInv'
BY DEF Inv, SessionInv

----------------------------------------------------------------------------
(* One lemma for each answer.                                              *)

LEMMA DropsInv == ASSUME Inv, NEW p, ServerDrops(p) PROVE Inv'
<1>1. session' = Get /\ s2c' = s2c
  BY DEF ServerDrops, ServerAnswers
<1>2. \A kind : Sent(kind) \subseteq Sent(kind)'
  BY <1>1, SilentSent
<1>3. SessionInv'
  BY <1>1, <1>2, GetFields, KeepsSession
<1> QED
  BY <1>1, <1>3, SilentLog DEF Inv

LEMMA ForgetsInv == ASSUME Inv, NEW p, ServerForgets(p) PROVE Inv'
<1>1. session' = NoSession /\ s2c' = s2c
  BY DEF ServerForgets, ServerAnswers
<1> QED
  BY <1>1, NoSessionInv, SilentLog DEF Inv

LEMMA RejectsInv == ASSUME Inv, NEW p, ServerRejects(p) PROVE Inv'
<1> DEFINE a == Accepted(Get, p)
           q == Stamp(a, {"RST"}, 0, NoBody)
<1>1. session' = AfterSend(a, 0) /\ s2c' = s2c \cup {q} /\ Get.state = "INITIAL"
  BY DEF ServerRejects, ServerAnswers, Handles
<1>2. q.body.kind = "none" /\ ~IsSet(q, "FIN")
  BY DEF Stamp, NoBody, IsSet
<1>3. /\ IsSession(a) /\ a.state = "INITIAL" /\ a.read = session.read
      /\ a.open = session.open /\ session.read = 0 /\ session.open = FALSE
  BY <1>1, GetFields, Fields
<1> HIDE DEF a, q
<1>4. /\ IsSession(session') /\ session'.state = "INITIAL"
      /\ session'.read = session.read /\ session'.open = session.open
  BY <1>1, <1>3, Fields
<1>5. \A kind : Sent(kind) \subseteq Sent(kind)'
  BY <1>1, SentAfter
<1>6. SessionInv'
  BY <1>3, <1>4, <1>5, KeepsSession
<1> QED
  BY <1>1, <1>2, <1>6, OtherLog DEF Inv

LEMMA RefusesInv == ASSUME Inv, NEW p, ServerRefuses(p) PROVE Inv'
<1>1. PICK code \in Refusals(p.body.n) :
        ServerAnswers(p, {Stamp(Accepted(Get, p), {"RST", "ERR"}, ErrLen, Err(code))})
  BY DEF ServerRefuses
<1> DEFINE q == Stamp(Accepted(Get, p), {"RST", "ERR"}, ErrLen, Err(code))
<1>2. session' = NoSession /\ s2c' = s2c \cup {q}
  BY <1>1 DEF ServerRefuses, ServerAnswers
<1>3. q.body.kind = "err" /\ ~IsSet(q, "FIN")
  BY DEF Stamp, Err, IsSet
<1> HIDE DEF q
<1> QED
  BY <1>2, <1>3, NoSessionInv, OtherLog DEF Inv

LEMMA OpensInv == ASSUME Inv, NEW p, ServerOpens(p) PROVE Inv'
<1> DEFINE a == Accepted(Get, p)
           b == AfterSend(a, CfgAckLen)
<1>1. PICK codec \in GarbageCodecs :
        ServerAnswers(p, {Stamp(a, {"SYN", "ACK"}, CfgAckLen, CfgAck(codec))})
  BY DEF ServerOpens
<1> DEFINE q == Stamp(a, {"SYN", "ACK"}, CfgAckLen, CfgAck(codec))
<1>2. /\ session' = [b EXCEPT !.state = "SACK_SENT", !.open = TRUE]
      /\ s2c' = s2c \cup {q} /\ Get.state = "INITIAL"
  BY <1>1 DEF ServerOpens, ServerAnswers, Handles
<1>3. q.body.kind = "cfg_ack" /\ ~IsSet(q, "FIN")
  BY DEF Stamp, CfgAck, IsSet
<1>4. IsSession(b) /\ b.read = 0
  BY <1>2, GetFields, Fields
<1> HIDE DEF a, b, q
<1>5. PICK state, seq, ack, send, receive, read, open :
        b = [state |-> state, seq |-> seq, ack |-> ack, send_window |-> send,
             receive_window |-> receive, read |-> read, open |-> open]
  BY <1>4 DEF IsSession
<1>6. session' = [state |-> "SACK_SENT", seq |-> seq, ack |-> ack, send_window |-> send,
                  receive_window |-> receive, read |-> read, open |-> TRUE]
  BY <1>2, <1>5
<1>7. IsSession(session')
  BY <1>6 DEF IsSession
<1>8. session'.state = "SACK_SENT" /\ session'.read = 0 /\ session'.open = TRUE
  BY <1>4, <1>5, <1>6
<1>9. Sent("cfg_ack")' # {}
  BY <1>2, <1>3, SentAfter
<1>10. SessionInv'
  <2>1. 0 \in 0..NumChunks /\ 1..0 = {}
    BY ServerAssumption
  <2> QED
    BY <1>7, <1>8, <1>9, <2>1 DEF SessionInv
<1> QED
  BY <1>2, <1>3, <1>10, OtherLog DEF Inv

(* A chunk: the source reads the next, and it is sent after the others.    *)
LEMMA SendsChunkInv == ASSUME Inv, NEW p, ServerSendsChunk(p) PROVE Inv'
<1> DEFINE k == session.read + 1
           b == AfterSend(Pulling(p), ChunkLen(k))
           q == Stamp(Pulling(p), {}, ChunkLen(k), Chunk(k))
<1>1. session.open /\ k <= NumChunks /\ session' = [b EXCEPT !.read = k] /\ s2c' = s2c \cup {q}
  BY DEF ServerSendsChunk, ServerAnswers
<1>2. q.body.kind = "chunk" /\ q.body.n = k /\ ~IsSet(q, "FIN")
  BY DEF Stamp, Chunk, IsSet
<1>3. IsSession(b) /\ b.state = "ESTABLSH" /\ b.open = session.open
  BY PullingFields, Fields
<1>4. /\ session.read \in 0..NumChunks /\ session.open \in BOOLEAN
      /\ 1..session.read \subseteq Sent("chunk") /\ Sent("cfg_ack") # {}
  BY <1>1 DEF Inv, SessionInv
<1>5. k \in 1..NumChunks /\ 1..k = 1..session.read \cup {k}
  BY <1>1, <1>4, ServerAssumption
<1> HIDE DEF b, k, q
<1>6. PICK state, seq, ack, send, receive, read, open :
        b = [state |-> state, seq |-> seq, ack |-> ack, send_window |-> send,
             receive_window |-> receive, read |-> read, open |-> open]
  BY <1>3 DEF IsSession
<1>7. session' = [state |-> state, seq |-> seq, ack |-> ack, send_window |-> send,
                  receive_window |-> receive, read |-> k, open |-> open]
  BY <1>1, <1>6
<1>8. IsSession(session')
  BY <1>7 DEF IsSession
<1>9. session'.state = "ESTABLSH" /\ session'.read = k /\ session'.open = session.open
  BY <1>3, <1>6, <1>7
<1>10. Sent("chunk")' = Sent("chunk") \cup {k} /\ Sent("cfg_ack")' = Sent("cfg_ack")
  BY <1>1, <1>2, SentAfter
<1>11. 1..k \subseteq Sent("chunk")'
  BY <1>4, <1>5, <1>10
<1>12. SessionInv'
  <2>1. k \in 0..NumChunks
    BY <1>5, ServerAssumption
  <2> QED
    BY <1>4, <1>8, <1>9, <1>10, <1>11, <2>1 DEF SessionInv
<1>13. Sent("chunk")' \subseteq 1..NumChunks
  BY <1>5, <1>10 DEF Inv, LogInv
<1>14. NothingSkipped'
  <2>1. SUFFICES ASSUME NEW c \in Sent("chunk")'
                 PROVE  1..c \subseteq Sent("chunk")' /\ Sent("cfg_ack")' # {}
    BY DEF NothingSkipped
  <2>2. CASE c = k
    BY <1>4, <1>10, <1>11, <2>2
  <2>3. CASE c \in Sent("chunk")
    BY <1>10, <2>3 DEF Inv, LogInv, NothingSkipped
  <2> QED
    BY <1>10, <2>1, <2>2, <2>3
<1>15. FinAfterLast'
  <2>1. SUFFICES ASSUME \E r \in s2c : IsSet(r, "FIN") PROVE Sent("chunk")' = 1..NumChunks
    BY <1>1, <1>2 DEF FinAfterLast, IsSet
  <2>2. Sent("chunk") = 1..NumChunks
    BY <2>1 DEF Inv, LogInv, FinAfterLast
  <2> QED
    BY <1>5, <1>10, <2>2
<1> QED
  BY <1>12, <1>13, <1>14, <1>15 DEF Inv, LogInv

(* The end of the file, when all of it was sent.                           *)
LEMMA FinishesInv == ASSUME Inv, NEW p, ServerFinishes(p) PROVE Inv'
<1> DEFINE b == AfterSend(Pulling(p), 0)
           q == Stamp(Pulling(p), {"RST", "FIN"}, 0, NoBody)
<1>1. /\ session.open /\ session.read = NumChunks
      /\ session' = [b EXCEPT !.open = FALSE] /\ s2c' = s2c \cup {q}
  BY DEF ServerFinishes, ServerAnswers
<1>2. q.body.kind = "none"
  BY DEF Stamp, NoBody
<1>3. IsSession(b) /\ b.state = "ESTABLSH" /\ b.read = session.read
  BY PullingFields, Fields
<1> HIDE DEF b, q
<1>4. PICK state, seq, ack, send, receive, read, open :
        b = [state |-> state, seq |-> seq, ack |-> ack, send_window |-> send,
             receive_window |-> receive, read |-> read, open |-> open]
  BY <1>3 DEF IsSession
<1>5. session' = [state |-> state, seq |-> seq, ack |-> ack, send_window |-> send,
                  receive_window |-> receive, read |-> read, open |-> FALSE]
  BY <1>1, <1>4
<1>6. IsSession(session')
  BY <1>5 DEF IsSession
<1>7. session'.state = "ESTABLSH" /\ session'.read = session.read /\ session'.open = FALSE
  BY <1>3, <1>4, <1>5
<1>8. \A kind : Sent(kind) \subseteq Sent(kind)'
  BY <1>1, SentAfter
<1>9. SessionInv'
  BY <1>6, <1>7, <1>8, KeepsSession
<1>10. Sent("chunk")' = Sent("chunk") /\ Sent("cfg_ack")' = Sent("cfg_ack")
  BY <1>1, <1>2, SentAfter
<1>11. Sent("chunk") = 1..NumChunks
  BY <1>1 DEF Inv, SessionInv, LogInv
<1>12. LogInv'
  BY <1>10, <1>11 DEF Inv, LogInv, NothingSkipped, FinAfterLast
<1> QED
  BY <1>9, <1>12 DEF Inv

LEMMA FailsInv == ASSUME Inv, NEW p, ServerFails(p) PROVE Inv'
<1> DEFINE b == AfterSend(Pulling(p), ErrLen)
           q == Stamp(Pulling(p), {"RST", "ERR"}, ErrLen, Err(EIO))
<1>1. session' = [b EXCEPT !.open = FALSE] /\ s2c' = s2c \cup {q}
  BY DEF ServerFails, ServerAnswers
<1>2. q.body.kind = "err" /\ ~IsSet(q, "FIN")
  BY DEF Stamp, Err, IsSet
<1>3. IsSession(b) /\ b.state = "ESTABLSH" /\ b.read = session.read
  BY PullingFields, Fields
<1> HIDE DEF b, q
<1>4. PICK state, seq, ack, send, receive, read, open :
        b = [state |-> state, seq |-> seq, ack |-> ack, send_window |-> send,
             receive_window |-> receive, read |-> read, open |-> open]
  BY <1>3 DEF IsSession
<1>5. session' = [state |-> state, seq |-> seq, ack |-> ack, send_window |-> send,
                  receive_window |-> receive, read |-> read, open |-> FALSE]
  BY <1>1, <1>4
<1>6. IsSession(session')
  BY <1>5 DEF IsSession
<1>7. session'.state = "ESTABLSH" /\ session'.read = session.read /\ session'.open = FALSE
  BY <1>3, <1>4, <1>5
<1>8. \A kind : Sent(kind) \subseteq Sent(kind)'
  BY <1>1, SentAfter
<1>9. SessionInv'
  BY <1>6, <1>7, <1>8, KeepsSession
<1> QED
  BY <1>1, <1>2, <1>9, OtherLog DEF Inv

LEMMA IgnoresInv == ASSUME Inv, NEW p, ServerIgnores(p) PROVE Inv'
<1>1. session' = Pulling(p) /\ s2c' = s2c
  BY DEF ServerIgnores, ServerAnswers
<1>2. \A kind : Sent(kind) \subseteq Sent(kind)'
  BY <1>1, SilentSent
<1>3. SessionInv'
  BY <1>1, <1>2, PullingFields, KeepsSession
<1> QED
  BY <1>1, <1>3, SilentLog DEF Inv

----------------------------------------------------------------------------
LEMMA InitInv == Init => Inv
<1> SUFFICES ASSUME Init PROVE Inv
  OBVIOUS
<1>1. session = NoSession /\ s2c = {}
  BY DEF Init, ServerInit
<1>2. 0 \in 0..NumChunks
  BY ServerAssumption
<1>3. SessionInv
  BY <1>1, <1>2 DEF SessionInv, NoSession, IsSession
<1>4. LogInv
  BY <1>1 DEF LogInv, NothingSkipped, FinAfterLast, Sent
<1> QED
  BY <1>3, <1>4 DEF Inv

LEMMA NextInv == Inv /\ [Next]_vars => Inv'
<1> SUFFICES ASSUME Inv, [Next]_vars PROVE Inv'
  OBVIOUS
<1>1. CASE PeerSends \/ UNCHANGED vars
  <2>1. UNCHANGED <<s2c, session>>
    BY <1>1 DEF PeerSends, vars
  <2> QED
    BY <2>1 DEF Inv, SessionInv, LogInv, NothingSkipped, FinAfterLast, Sent
<1>2. CASE ServerStep
  <2>1. PICK p : \/ ServerDrops(p) \/ ServerForgets(p) \/ ServerRejects(p) \/ ServerRefuses(p)
                 \/ ServerOpens(p) \/ ServerSendsChunk(p) \/ ServerFinishes(p)
                 \/ ServerFails(p) \/ ServerIgnores(p)
    BY <1>2 DEF ServerStep, ServerReceives
  <2> QED
    BY <2>1, DropsInv, ForgetsInv, RejectsInv, RefusesInv, OpensInv, SendsChunkInv,
       FinishesInv, FailsInv, IgnoresInv
<1>3. CASE SessionExpires
  <2>1. session' = NoSession /\ s2c' = s2c
    BY <1>3 DEF SessionExpires, ServerExpires
  <2> QED
    BY <2>1, NoSessionInv, SilentLog DEF Inv
<1> QED
  BY <1>1, <1>2, <1>3 DEF Next

LEMMA Invariance == Spec => []Inv
BY InitInv, NextInv, PTL DEF Spec

(* Whatever it is sent, the server announces the stream and then sends all *)
(* chunks before the one it sends (session.c:345, wav.c:50-92).            *)
THEOREM NothingIsSkipped == Spec => []NothingSkipped
<1>1. Inv => NothingSkipped
  BY DEF Inv, LogInv
<1> QED
  BY <1>1, Invariance, PTL

(* It says FIN only when it has sent all of the file (sink.c:29-34).       *)
THEOREM FinComesLast == Spec => []FinAfterLast
<1>1. Inv => FinAfterLast
  BY DEF Inv, LogInv
<1> QED
  BY <1>1, Invariance, PTL

(***************************************************************************)
(* As long as neither of the two streams wraps, a session goes by both.    *)
(***************************************************************************)

(* The stream of the server is no longer than a file and the peer's own    *)
(* stream, since each reset before it has taken a datagram of the peer.    *)
FileSent == CfgAckLen + ChunkSize * NumChunks + ErrLen

StreamsFit == MaxPeerSeq + FileSent < SeqSpace

(* What a session may have sent, apart from resets.                        *)
MostSent ==
  IF session.state \in {"NONE", "INITIAL"} THEN 0
  ELSE CfgAckLen + ChunkSize * session.read + (IF session.open THEN 0 ELSE ErrLen)

StreamsInv ==
  /\ peer \in 0..MaxPeerSeq
  /\ \A p \in c2s : p.seq \in Nat /\ p.length \in Nat /\ p.seq + Span(p.length) <= peer
  /\ session.seq \in Nat /\ session.ack \in Nat
  /\ session.ack <= peer
  /\ session.seq <= session.ack + MostSent

LEMMA FileSentType == FileSent \in Nat /\ CfgAckLen <= FileSent
BY ServerAssumption DEF FileSent, CfgAckLen, ErrLen, ChunkSize

(* What the state machine makes of a datagram above the duplicate check.   *)
LEMMA AcceptedAck ==
  ASSUME StreamsFit, Inv, StreamsInv, NEW p \in c2s, ~AlreadyAcked(Get, p)
  PROVE  LET a == Advance(p.seq, p.length)
         IN /\ a \in Nat /\ Get.ack \in Nat /\ Get.seq \in Nat
            /\ Get.ack < a /\ a <= peer
            /\ Get.seq <= Get.ack + MostSent
<1>1. /\ p.seq \in Nat /\ p.length \in Nat /\ p.seq + Span(p.length) <= peer
      /\ peer <= MaxPeerSeq /\ peer \in Nat
  BY PeerAssumption DEF StreamsInv
<1>2. Span(p.length) \in Nat /\ Span(p.length) > 0
  BY <1>1 DEF Span
<1>3. SeqSpace \in Nat /\ MaxPeerSeq < SeqSpace /\ MaxPeerSeq \in Nat
  BY SeqSpaceAssumption, PeerAssumption, FileSentType DEF StreamsFit
<1>4. Advance(p.seq, p.length) = p.seq + Span(p.length)
  BY <1>1, <1>2, <1>3 DEF Advance
<1>5. /\ Get.ack \in Nat /\ Get.seq \in Nat
      /\ Get.seq <= Get.ack + MostSent
  BY DEF Get, NoSession, StreamsInv, MostSent
<1>6. Get.ack <= p.seq
  BY <1>1, <1>5 DEF AlreadyAcked
<1> QED
  BY <1>1, <1>2, <1>4, <1>5, <1>6

(* Sending moves the stream, and does not wrap it.                         *)
LEMMA SendAdvances ==
  ASSUME StreamsFit, NEW seq \in Nat, NEW length \in Nat,
         seq + Span(length) <= MaxPeerSeq + FileSent
  PROVE  Advance(seq, length) = seq + Span(length)
<1>1. Span(length) \in Nat /\ SeqSpace \in Nat /\ SeqSpace > 0
  BY SeqSpaceAssumption DEF Span
<1>2. MaxPeerSeq \in Nat /\ FileSent \in Nat
  BY PeerAssumption, FileSentType
<1>3. seq + Span(length) < SeqSpace
  BY <1>1, <1>2 DEF StreamsFit
<1> QED
  BY <1>1, <1>3 DEF Advance

LEMMA StreamsInit == Init => StreamsInv
<1> SUFFICES ASSUME Init PROVE StreamsInv
  OBVIOUS
<1> QED
  BY PeerAssumption DEF Init, ServerInit, NoSession, StreamsInv, MostSent

(* The places of a session in the two streams.                             *)
LEMMA Places ==
  ASSUME NEW s, IsSession(s), NEW p, NEW length
  PROVE  /\ Accepted(s, p).seq = s.seq
         /\ Accepted(s, p).ack = Advance(p.seq, p.length)
         /\ AfterSend(s, length).seq = Advance(s.seq, length)
         /\ AfterSend(s, length).ack = s.ack
<1>1. PICK state, seq, ack, send, receive, read, open :
        s = [state |-> state, seq |-> seq, ack |-> ack, send_window |-> send,
             receive_window |-> receive, read |-> read, open |-> open]
  BY DEF IsSession
<1> DEFINE next == Advance(p.seq, p.length)
           window == p.window
           after == Advance(s.seq, length)
<1>2. Accepted(s, p) = [s EXCEPT !.send_window = window, !.ack = next]
  BY DEF Accepted
<1>3. AfterSend(s, length) = [s EXCEPT !.seq = after]
  BY DEF AfterSend
<1> HIDE DEF next, window, after
<1>4. Accepted(s, p).seq = s.seq /\ Accepted(s, p).ack = next
  BY <1>1, <1>2
<1>5. AfterSend(s, length).seq = after /\ AfterSend(s, length).ack = s.ack
  BY <1>1, <1>3
<1> QED
  BY <1>4, <1>5 DEF next, after

LEMMA PullingPlaces ==
  ASSUME Inv, NEW p
  PROVE  Pulling(p).seq = Get.seq /\ Pulling(p).ack = Advance(p.seq, p.length)
<1> DEFINE a == Accepted(Get, p)
<1>1. IsSession(a) /\ a.seq = Get.seq /\ a.ack = Advance(p.seq, p.length)
  BY GetFields, Fields, Places
<1> HIDE DEF a
<1>2. PICK state, seq, ack, send, receive, read, open :
        a = [state |-> state, seq |-> seq, ack |-> ack, send_window |-> send,
             receive_window |-> receive, read |-> read, open |-> open]
  BY <1>1 DEF IsSession
<1>3. Pulling(p) = [a EXCEPT !.state = "ESTABLSH"]
  BY DEF Pulling, a
<1> QED
  BY <1>1, <1>2, <1>3

(* What an answer of the server does to its session: it moves on in both   *)
(* streams.                                                                *)
MovesOn(q) ==
  /\ s2c' = s2c \cup {q}
  /\ session'.state # "NONE"
  /\ q.seq = Get.seq
  /\ session'.seq \in Nat /\ session'.ack \in Nat
  /\ session'.seq > Get.seq /\ session'.ack > Get.ack /\ session'.ack <= peer
  /\ session'.seq <= session'.ack + MostSent'

LEMMA RejectMovesOn ==
  ASSUME StreamsFit, Inv, StreamsInv, NEW p \in c2s, ServerRejects(p)
  PROVE  \E q : MovesOn(q)
<1> DEFINE s == Accepted(Get, p)
           q == Stamp(s, {"RST"}, 0, NoBody)
           a == Advance(p.seq, p.length)
<1>1. /\ ~AlreadyAcked(Get, p) /\ Get.state = "INITIAL"
      /\ session' = AfterSend(s, 0) /\ s2c' = s2c \cup {q}
  BY DEF ServerRejects, Handles, ServerAnswers
<1>2. /\ a \in Nat /\ Get.ack \in Nat /\ Get.seq \in Nat
      /\ Get.ack < a /\ a <= peer /\ Get.seq <= Get.ack + MostSent
  BY <1>1, AcceptedAck
<1>3. /\ IsSession(s) /\ s.state = "INITIAL" /\ s.seq = Get.seq /\ s.ack = a
      /\ q.seq = s.seq
  BY <1>1, GetFields, Fields, Places DEF Stamp
<1>4. session'.state = "INITIAL" /\ session'.ack = a /\ session'.seq = Advance(Get.seq, 0)
  BY <1>1, <1>3, Fields, Places
<1> HIDE DEF s, q, a
<1>5. MostSent = 0 /\ MostSent' = 0
  BY <1>1, <1>4 DEF MostSent, Get, NoSession
<1>6. Advance(Get.seq, 0) = Get.seq + 1
  <2>1. peer <= MaxPeerSeq /\ peer \in Nat /\ MaxPeerSeq \in Nat
    BY PeerAssumption DEF StreamsInv
  <2>2. Get.seq + 1 <= MaxPeerSeq + FileSent
    BY <1>2, <1>5, <2>1, FileSentType
  <2>3. Span(0) = 1
    BY DEF Span
  <2> QED
    BY <1>2, <2>2, <2>3, SendAdvances
<1>7. MovesOn(q)
  BY <1>1, <1>2, <1>3, <1>4, <1>5, <1>6 DEF MovesOn
<1> QED
  BY <1>7

LEMMA OpenMovesOn ==
  ASSUME StreamsFit, Inv, StreamsInv, NEW p \in c2s, ServerOpens(p)
  PROVE  \E q : MovesOn(q)
<1> DEFINE s == Accepted(Get, p)
           t == AfterSend(s, CfgAckLen)
           a == Advance(p.seq, p.length)
<1>1. /\ ~AlreadyAcked(Get, p) /\ Get.state = "INITIAL"
      /\ session' = [t EXCEPT !.state = "SACK_SENT", !.open = TRUE]
  BY DEF ServerOpens, Handles
<1>2. PICK codec \in GarbageCodecs :
        s2c' = s2c \cup {Stamp(s, {"SYN", "ACK"}, CfgAckLen, CfgAck(codec))}
  BY DEF ServerOpens, ServerAnswers
<1> DEFINE q == Stamp(s, {"SYN", "ACK"}, CfgAckLen, CfgAck(codec))
<1>3. /\ a \in Nat /\ Get.ack \in Nat /\ Get.seq \in Nat
      /\ Get.ack < a /\ a <= peer /\ Get.seq <= Get.ack + MostSent
  BY <1>1, AcceptedAck
<1>4. /\ IsSession(s) /\ s.seq = Get.seq /\ s.ack = a /\ s.read = 0
      /\ q.seq = s.seq
  BY <1>1, GetFields, Fields, Places DEF Stamp
<1>5. /\ IsSession(t) /\ t.read = 0 /\ t.ack = a
      /\ t.seq = Advance(Get.seq, CfgAckLen)
  BY <1>4, Fields, Places
<1> HIDE DEF s, q, a, t
<1>6. /\ session'.state = "SACK_SENT" /\ session'.open = TRUE /\ session'.read = 0
      /\ session'.ack = a /\ session'.seq = Advance(Get.seq, CfgAckLen)
  BY <1>1, <1>5 DEF IsSession
<1>7. MostSent = 0 /\ MostSent' = CfgAckLen
  <2>1. session.state \in {"NONE", "INITIAL"}
    BY <1>1 DEF Get
  <2>2. MostSent' = CfgAckLen + ChunkSize * 0 + 0
    BY <1>6 DEF MostSent
  <2> QED
    BY <2>1, <2>2 DEF MostSent, CfgAckLen, ChunkSize
<1>8. Advance(Get.seq, CfgAckLen) = Get.seq + CfgAckLen
  <2>1. peer <= MaxPeerSeq /\ peer \in Nat /\ MaxPeerSeq \in Nat
    BY PeerAssumption DEF StreamsInv
  <2>2. Get.seq + CfgAckLen <= MaxPeerSeq + FileSent
    BY <1>3, <1>7, <2>1, FileSentType DEF CfgAckLen
  <2>3. Span(CfgAckLen) = CfgAckLen /\ CfgAckLen \in Nat
    BY DEF Span, CfgAckLen
  <2> QED
    BY <1>3, <2>2, <2>3, SendAdvances
<1>9. session'.seq <= session'.ack + MostSent' /\ session'.seq > Get.seq /\ session'.seq \in Nat
  BY <1>3, <1>6, <1>7, <1>8 DEF CfgAckLen
<1>10. MovesOn(q)
  BY <1>2, <1>3, <1>4, <1>6, <1>9 DEF MovesOn, q
<1> QED
  BY <1>10

(* A pull that sends "length" bytes, as a chunk or as the last packet.     *)
LEMMA PullMovesOn ==
  ASSUME StreamsFit, Inv, StreamsInv, NEW p \in c2s, Pulls(p), session.open,
         NEW length \in Nat, NEW flags, NEW body,
         s2c' = s2c \cup {Stamp(Pulling(p), flags, length, body)},
         session'.state = "ESTABLSH", session'.ack = Pulling(p).ack,
         session'.seq = Advance(Pulling(p).seq, length),
         session'.read \in 0..NumChunks,
         MostSent + Span(length) <= MostSent'
  PROVE  MovesOn(Stamp(Pulling(p), flags, length, body))
<1> DEFINE q == Stamp(Pulling(p), flags, length, body)
           a == Advance(p.seq, p.length)
<1>1. ~AlreadyAcked(Get, p)
  BY DEF Pulls, Handles
<1>2. /\ a \in Nat /\ Get.ack \in Nat /\ Get.seq \in Nat
      /\ Get.ack < a /\ a <= peer /\ Get.seq <= Get.ack + MostSent
  BY <1>1, AcceptedAck
<1>3. Pulling(p).seq = Get.seq /\ Pulling(p).ack = a
  BY PullingPlaces
<1>4. q.seq = Get.seq
  BY <1>3 DEF Stamp
<1> HIDE DEF q, a
<1>5. Span(length) \in Nat /\ Span(length) > 0
  BY DEF Span
<1>6. MostSent \in Nat /\ MostSent' \in Nat
      /\ MostSent' <= FileSent
  <2>1. session.read \in 0..NumChunks /\ session'.read \in 0..NumChunks /\ NumChunks \in Nat
    BY ServerAssumption DEF Inv, SessionInv
  <2> QED
    BY <2>1 DEF MostSent, FileSent, CfgAckLen, ChunkSize, ErrLen
<1>7. Advance(Get.seq, length) = Get.seq + Span(length)
  <2>1. peer <= MaxPeerSeq /\ peer \in Nat /\ MaxPeerSeq \in Nat
    BY PeerAssumption DEF StreamsInv
  <2>2. Get.seq + Span(length) <= MaxPeerSeq + FileSent
    BY <1>2, <1>5, <1>6, <2>1, FileSentType
  <2> QED
    BY <1>2, <2>2, SendAdvances
<1>8. session'.seq = Get.seq + Span(length) /\ session'.ack = a
  BY <1>3, <1>7
<1>9. /\ session'.seq \in Nat /\ session'.seq > Get.seq
      /\ session'.seq <= session'.ack + MostSent'
  BY <1>2, <1>5, <1>6, <1>8
<1> QED
  BY <1>2, <1>4, <1>8, <1>9 DEF MovesOn, q

LEMMA ChunkMovesOn ==
  ASSUME StreamsFit, Inv, StreamsInv, NEW p \in c2s, ServerSendsChunk(p)
  PROVE  \E q : MovesOn(q)
<1> DEFINE k == session.read + 1
           length == ChunkLen(k)
           none == {}
           pull == Pulling(p)
           t == AfterSend(pull, length)
           q == Stamp(pull, none, length, Chunk(k))
<1>1. /\ Pulls(p) /\ session.open /\ k <= NumChunks
      /\ session' = [t EXCEPT !.read = k] /\ s2c' = s2c \cup {q}
  BY DEF ServerSendsChunk, ServerAnswers
<1>2. session.read \in 0..NumChunks /\ NumChunks \in Nat /\ k \in 1..NumChunks
      /\ k \in Nat
  BY <1>1, ServerAssumption DEF Inv, SessionInv
<1>3. /\ IsSession(pull) /\ pull.state = "ESTABLSH" /\ pull.open = session.open
  BY PullingFields
<1>4. /\ IsSession(t) /\ t.state = "ESTABLSH" /\ t.open = session.open
      /\ t.seq = Advance(pull.seq, length) /\ t.ack = pull.ack
  BY <1>3, Fields, Places
<1>5. length \in Nat /\ Span(length) <= ChunkSize
  BY <1>2, ServerAssumption DEF ChunkLen, ChunkSize, Span
<1> HIDE DEF pull, t, length, none, k
<1>6. /\ session'.state = "ESTABLSH" /\ session'.open = session.open
      /\ session'.seq = Advance(pull.seq, length) /\ session'.ack = pull.ack
      /\ session'.read = k
  BY <1>1, <1>4 DEF IsSession
<1>7. MostSent + Span(length) <= MostSent'
  <2>1. session.state \notin {"NONE", "INITIAL"}
    BY <1>1 DEF Inv, SessionInv
  <2>2. MostSent = CfgAckLen + ChunkSize * session.read + 0
    BY <1>1, <2>1 DEF MostSent
  <2>3. MostSent' = CfgAckLen + ChunkSize * k + 0
    BY <1>1, <1>6 DEF MostSent
  <2>4. ChunkSize * k = ChunkSize * session.read + ChunkSize
    BY <1>2 DEF ChunkSize, k
  <2>5. ChunkSize * session.read \in Nat /\ Span(length) \in Nat
    BY <1>2, <1>5 DEF ChunkSize, Span
  <2> QED
    BY <1>5, <2>2, <2>3, <2>4, <2>5 DEF CfgAckLen, ChunkSize
<1>8. session'.read \in 0..NumChunks
  BY <1>2, <1>6
<1>9. MovesOn(q)
  BY <1>1, <1>5, <1>6, <1>7, <1>8, PullMovesOn DEF pull
<1> QED
  BY <1>9

(* The end of the stream, or an error.                                     *)
LEMMA LastMovesOn ==
  ASSUME StreamsFit, Inv, StreamsInv, NEW p \in c2s, Pulls(p), session.open,
         NEW length \in 0..ErrLen, NEW flags, NEW body,
         s2c' = s2c \cup {Stamp(Pulling(p), flags, length, body)},
         session' = [AfterSend(Pulling(p), length) EXCEPT !.open = FALSE]
  PROVE  \E q : MovesOn(q)
<1> DEFINE pull == Pulling(p)
           t == AfterSend(pull, length)
<1>1. /\ IsSession(pull) /\ pull.state = "ESTABLSH" /\ pull.read = session.read
  BY PullingFields
<1>2. /\ IsSession(t) /\ t.state = "ESTABLSH" /\ t.read = session.read
      /\ t.seq = Advance(pull.seq, length) /\ t.ack = pull.ack
  BY <1>1, Fields, Places
<1>3. session' = [t EXCEPT !.open = FALSE]
  OBVIOUS
<1> HIDE DEF t
<1>4. /\ session'.state = "ESTABLSH" /\ session'.open = FALSE
      /\ session'.seq = Advance(pull.seq, length) /\ session'.ack = pull.ack
      /\ session'.read = session.read
  BY <1>2, <1>3 DEF IsSession
<1>5. length \in Nat /\ Span(length) <= ErrLen
  BY DEF ErrLen, Span
<1>6. session.read \in 0..NumChunks /\ NumChunks \in Nat
  BY ServerAssumption DEF Inv, SessionInv
<1>7. MostSent + Span(length) <= MostSent'
  <2>1. session.state \notin {"NONE", "INITIAL"}
    BY DEF Inv, SessionInv
  <2>2. MostSent = CfgAckLen + ChunkSize * session.read + 0
    BY <2>1 DEF MostSent
  <2>3. MostSent' = CfgAckLen + ChunkSize * session.read + ErrLen
    BY <1>4 DEF MostSent
  <2>4. ChunkSize * session.read \in Nat /\ Span(length) \in Nat
    BY <1>5, <1>6 DEF ChunkSize, Span
  <2> QED
    BY <1>5, <2>2, <2>3, <2>4 DEF CfgAckLen, ErrLen
<1>8. MovesOn(Stamp(Pulling(p), flags, length, body))
  BY <1>4, <1>5, <1>6, <1>7, PullMovesOn
<1> QED
  BY <1>8

(* Every datagram handled: an answer moves the session on; without one it  *)
(* is deleted, left as it was, or only acknowledges the datagram.          *)
LEMMA ServerMovesOn ==
  ASSUME StreamsFit, Inv, StreamsInv, ServerStep
  PROVE  \/ \E q : MovesOn(q)
         \/ \E q : s2c' = s2c \cup {q} /\ session' = NoSession
         \/ s2c' = s2c /\ session' \in {NoSession, Get}
         \/ /\ s2c' = s2c /\ session'.seq = Get.seq /\ session'.ack \in Nat
            /\ session'.ack > Get.ack /\ session'.ack <= peer
            /\ session.state \notin {"NONE", "INITIAL"} /\ MostSent' = MostSent
<1>1. PICK p \in c2s :
        \/ ServerDrops(p) \/ ServerForgets(p) \/ ServerRejects(p) \/ ServerRefuses(p)
        \/ ServerOpens(p) \/ ServerSendsChunk(p) \/ ServerFinishes(p)
        \/ ServerFails(p) \/ ServerIgnores(p)
  BY DEF ServerStep, ServerReceives, Receivable
<1>2. CASE ServerDrops(p) \/ ServerForgets(p)
  BY <1>2 DEF ServerDrops, ServerForgets, ServerAnswers
<1>3. CASE ServerRefuses(p)
  BY <1>3 DEF ServerRefuses, ServerAnswers
<1>4. CASE ServerRejects(p) \/ ServerOpens(p) \/ ServerSendsChunk(p)
  BY <1>4, RejectMovesOn, OpenMovesOn, ChunkMovesOn
<1>5. CASE ServerFinishes(p)
  <2>1. /\ Pulls(p) /\ session.open /\ 0 \in 0..ErrLen
        /\ s2c' = s2c \cup {Stamp(Pulling(p), {"RST", "FIN"}, 0, NoBody)}
        /\ session' = [AfterSend(Pulling(p), 0) EXCEPT !.open = FALSE]
    BY <1>5 DEF ServerFinishes, ServerAnswers, ErrLen
  <2> QED
    BY <2>1, LastMovesOn
<1>6. CASE ServerFails(p)
  <2>1. /\ Pulls(p) /\ session.open /\ ErrLen \in 0..ErrLen
        /\ s2c' = s2c \cup {Stamp(Pulling(p), {"RST", "ERR"}, ErrLen, Err(EIO))}
        /\ session' = [AfterSend(Pulling(p), ErrLen) EXCEPT !.open = FALSE]
    BY <1>6 DEF ServerFails, ServerAnswers, ErrLen
  <2> QED
    BY <2>1, LastMovesOn
<1>7. CASE ServerIgnores(p)
  <2>1. /\ Pulls(p) /\ ~session.open /\ session' = Pulling(p) /\ s2c' = s2c
    BY <1>7 DEF ServerIgnores, ServerAnswers
  <2>2. ~AlreadyAcked(Get, p) /\ session.state \notin {"NONE", "INITIAL"}
    BY <2>1 DEF Pulls, Handles, Get, NoSession
  <2>3. session'.seq = Get.seq /\ session'.ack = Advance(p.seq, p.length)
    BY <2>1, PullingPlaces
  <2>4. /\ session'.state = "ESTABLSH" /\ session'.read = session.read
        /\ session'.open = session.open
    BY <2>1, PullingFields
  <2>5. MostSent' = MostSent
    BY <2>2, <2>4 DEF MostSent
  <2>6. session'.ack \in Nat /\ session'.ack > Get.ack /\ session'.ack <= peer
    BY <2>2, <2>3, AcceptedAck
  <2> QED
    BY <2>1, <2>2, <2>3, <2>5, <2>6
<1> QED
  BY <1>1, <1>2, <1>3, <1>4, <1>5, <1>6, <1>7

(* The peer sends within its own stream.                                   *)
LEMMA PeerStreams == ASSUME StreamsFit, StreamsInv, PeerSends PROVE StreamsInv'
<1>1. PICK q \in PeerPackets :
        /\ peer + Span(q.length) <= MaxPeerSeq
        /\ peer' = Advance(peer, q.length)
        /\ c2s' = c2s \cup {[seq |-> peer, ack |-> 0, flags |-> q.flags,
                             window |-> WindowSize, length |-> q.length, body |-> q.body]}
        /\ UNCHANGED <<s2c, session>>
  BY DEF PeerSends
<1>2. q.length \in Nat
  <2>1. NameLen \in Nat
    BY NameLenAssumption
  <2>2. q.length \in {SynLen, 0}
    BY <1>1 DEF PeerPackets
  <2> QED
    BY <2>1, <2>2 DEF SynLen, CfgLen
<1>3. Span(q.length) \in Nat /\ peer \in Nat /\ MaxPeerSeq \in Nat
  BY <1>2, PeerAssumption DEF Span, StreamsInv
<1>4. peer' = peer + Span(q.length)
  BY <1>1, <1>2, <1>3, SendAdvances, FileSentType
<1>5. peer' \in 0..MaxPeerSeq /\ peer <= peer' /\ peer' \in Nat
  BY <1>1, <1>3, <1>4
<1>6. ASSUME NEW p \in c2s'
      PROVE  p.seq \in Nat /\ p.length \in Nat /\ p.seq + Span(p.length) <= peer'
  <2>1. CASE p \in c2s
    <3>1. p.seq \in Nat /\ p.length \in Nat /\ p.seq + Span(p.length) <= peer
      BY <2>1 DEF StreamsInv
    <3>2. Span(p.length) \in Nat
      BY <3>1 DEF Span
    <3> QED
      BY <1>3, <1>5, <3>1, <3>2
  <2>2. CASE p \notin c2s
    <3>1. p.seq = peer /\ p.length = q.length
      BY <1>1, <2>2
    <3> QED
      BY <1>2, <1>3, <1>4, <3>1
  <2> QED
    BY <2>1, <2>2
<1>7. /\ session'.seq \in Nat /\ session'.ack \in Nat /\ session'.ack <= peer'
      /\ session'.seq <= session'.ack + MostSent'
  <2>1. session' = session /\ MostSent' = MostSent
    BY <1>1 DEF MostSent
  <2> QED
    BY <1>3, <1>5, <2>1 DEF StreamsInv
<1> QED
  BY <1>5, <1>6, <1>7 DEF StreamsInv

(* A session that is deleted, or only looked up, is at its place.          *)
LEMMA StillInStreams ==
  ASSUME StreamsInv, session' \in {NoSession, Get}
  PROVE  /\ session'.seq \in Nat /\ session'.ack \in Nat /\ session'.ack <= peer
         /\ session'.seq <= session'.ack + MostSent'
<1>1. CASE session.state # "NONE" /\ session' = Get
  <2>1. session' = session
    BY <1>1 DEF Get
  <2>2. MostSent' = MostSent
    BY <2>1 DEF MostSent
  <2> QED
    BY <2>1, <2>2 DEF StreamsInv
<1>2. CASE session.state = "NONE" \/ session' = NoSession
  <2>1. session'.seq = 0 /\ session'.ack = 0 /\ session'.state \in {"NONE", "INITIAL"}
    BY <1>2 DEF Get, NoSession
  <2>2. MostSent' = 0 /\ 0 <= peer
    BY <2>1, PeerAssumption DEF MostSent, StreamsInv
  <2> QED
    BY <2>1, <2>2
<1> QED
  BY <1>1, <1>2

LEMMA StreamsNext ==
  ASSUME StreamsFit, Inv, StreamsInv, [Next]_vars PROVE StreamsInv'
<1>1. CASE PeerSends
  BY <1>1, PeerStreams
<1>2. CASE ServerStep
  <2>1. UNCHANGED peer
    BY <1>2 DEF ServerStep
  <2>2. c2s' \subseteq c2s
    BY <1>2 DEF ServerStep, ServerReceives, ServerDrops, ServerForgets, ServerRejects,
                ServerRefuses, ServerOpens, ServerSendsChunk, ServerFinishes, ServerFails,
                ServerIgnores, ServerAnswers, AfterReceive
  <2>3. /\ session'.seq \in Nat /\ session'.ack \in Nat /\ session'.ack <= peer
        /\ session'.seq <= session'.ack + MostSent'
    <3>1. CASE \E q : MovesOn(q)
      BY <3>1 DEF MovesOn
    <3>2. CASE session' \in {NoSession, Get}
      BY <3>2, StillInStreams
    <3>3. CASE /\ session'.seq = Get.seq /\ session'.ack \in Nat
               /\ session'.ack > Get.ack /\ session'.ack <= peer
               /\ session.state \notin {"NONE", "INITIAL"} /\ MostSent' = MostSent
      <4>1. Get = session
        BY <3>3 DEF Get
      <4>2. MostSent \in Nat
        <5>1. session.read \in Nat
          BY ServerAssumption DEF Inv, SessionInv
        <5> QED
          BY <5>1 DEF MostSent, CfgAckLen, ChunkSize, ErrLen
      <4> QED
        BY <3>3, <4>1, <4>2 DEF StreamsInv
    <3> QED
      BY <1>2, <3>1, <3>2, <3>3, ServerMovesOn
  <2> QED
    BY <2>1, <2>2, <2>3 DEF StreamsInv
<1>3. CASE SessionExpires
  <2>1. session' = NoSession /\ UNCHANGED <<c2s, peer>>
    BY <1>3 DEF SessionExpires, ServerExpires
  <2> QED
    BY <2>1, StillInStreams DEF StreamsInv
<1>4. CASE UNCHANGED vars
  <2>1. UNCHANGED <<c2s, session, peer>> /\ MostSent' = MostSent
    BY <1>4 DEF vars, MostSent
  <2> QED
    BY <2>1 DEF StreamsInv
<1> QED
  BY <1>1, <1>2, <1>3, <1>4 DEF Next

(* Whatever the peer sends, in any order, its session only acknowledges    *)
(* what was sent to it and never sends two packets at one place, provided  *)
(* that the peer's stream and the file are too short for the sequence      *)
(* numbers to wrap (session.c:181-186, 280, 295).                          *)
THEOREM SessionGoesByStreams ==
  ASSUME StreamsFit PROVE Spec => StreamsAdvance
<1>1. Init => Inv /\ StreamsInv
  BY InitInv, StreamsInit
<1>2. Inv /\ StreamsInv /\ [Next]_vars => (Inv /\ StreamsInv)'
  BY NextInv, StreamsNext
<1>3. Inv /\ StreamsInv /\ [Next]_vars =>
        \A p \in s2c' \ s2c : session'.state # "NONE" =>
          /\ p.seq = Get.seq
          /\ session'.seq > Get.seq
          /\ session'.ack <= peer /\ session'.ack > Get.ack
  <2> SUFFICES ASSUME Inv, StreamsInv, [Next]_vars,
                      NEW p \in s2c' \ s2c, session'.state # "NONE"
               PROVE  /\ p.seq = Get.seq
                      /\ session'.seq > Get.seq
                      /\ session'.ack <= peer /\ session'.ack > Get.ack
    OBVIOUS
  <2>1. ServerStep
    <3>1. s2c' # s2c
      OBVIOUS
    <3> QED
      BY <3>1 DEF Next, PeerSends, SessionExpires, ServerExpires, vars
  <2>2. NoSession.state = "NONE"
    BY DEF NoSession
  <2>3. \E q : MovesOn(q)
    BY <2>1, <2>2, ServerMovesOn
  <2> QED
    BY <2>3 DEF MovesOn
<1> QED
  BY <1>1, <1>2, <1>3, PTL DEF Spec, StreamsAdvance
=============================================================================
