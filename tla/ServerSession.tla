--------------------------- MODULE ServerSession ---------------------------
(***************************************************************************)
(* The server's half of a session: sas_server_session_state_machine and    *)
(* the functions it calls (session.c), the streaming pipeline they drive   *)
(* (the source formats/wav.c and the sink sink.c) and the expiry of a      *)
(* session by the server's loop.                                           *)
(*                                                                         *)
(* The server handles one datagram at a time in one thread, so each action *)
(* is a whole call of the state machine.                                   *)
(***************************************************************************)
EXTENDS Network

CONSTANTS
  NumChunks,      \* how many reads it takes to reach the end of the file
  LastLen,        \* how many bytes the last of them returns
  ReadErrors,     \* whether read(2) may fail
  StaleErrnos,    \* what errno may hold when the file is not a usable WAVE file
  GarbageCodecs   \* what malloc may leave in the codec field of a new session

ChunkSize == 1024   \* buffer_size of the WAVE source

ASSUME ServerAssumption ==
  /\ NumChunks \in Nat
  /\ LastLen \in 1..ChunkSize
  /\ ReadErrors \in BOOLEAN
  /\ StaleErrnos \subseteq Errnos
  /\ GarbageCodecs \subseteq 0..255 /\ GarbageCodecs # {}

VARIABLE session  \* the server's session for this client's address

(* What read(2) returns for the k-th chunk of the file.                    *)
ChunkLen(k) == IF k = NumChunks THEN LastLen ELSE ChunkSize

(* Where the server's byte stream stands after n chunks.                   *)
Position(n) ==
  IF n = 0 THEN CfgAckLen ELSE CfgAckLen + ChunkSize * (n - 1) + ChunkLen(n)

(* "open" says that the file and the connection between source and sink    *)
(* are; "read" is how many chunks the source has read.                     *)
NoSession ==
  [state |-> "NONE", seq |-> 0, ack |-> 0, send_window |-> 0,
   receive_window |-> WindowSize, read |-> 0, open |-> FALSE]

ServerInit == session = NoSession

(* The session of a datagram's sender, made when there is none.            *)
Get == IF session.state = "NONE"
       THEN [NoSession EXCEPT !.state = "INITIAL"]
       ELSE session

(* Receiving p and answering it with a set of datagrams.                   *)
ServerAnswers(p, packets) ==
  /\ c2s' \in AfterReceive(c2s, p)
  /\ s2c' = s2c \cup packets

(* A datagram below the acknowledged position is dropped.                  *)
ServerDrops(p) ==
  /\ AlreadyAcked(Get, p)
  /\ session' = Get
  /\ ServerAnswers(p, {})

(* RST: the session is deleted, in whatever state.                         *)
ServerForgets(p) ==
  /\ ~AlreadyAcked(Get, p)
  /\ IsSet(p, "RST")
  /\ session' = NoSession
  /\ ServerAnswers(p, {})

(* The conditions under which a datagram reaches the switch on the state.  *)
Handles(p, states) ==
  /\ ~AlreadyAcked(Get, p)
  /\ ~IsSet(p, "RST")
  /\ Get.state \in states

(* A session does not begin with a SYN: reset it, and keep it.             *)
(* Mutation: the packet that is rejected is not noted.                     *)
ServerRejectsUnnoted(p) ==
  /\ Handles(p, {"INITIAL"})
  /\ ~IsSet(p, "SYN")
  /\ session' = AfterSend(Get, 0)
  /\ ServerAnswers(p, {Stamp(Get, {"RST"}, 0, NoBody)})

ServerRejects(p) ==
  LET s == Accepted(Get, p)
  IN /\ Handles(p, {"INITIAL"})
     /\ ~IsSet(p, "SYN")
     /\ session' = AfterSend(s, 0)
     /\ ServerAnswers(p, {Stamp(s, {"RST"}, 0, NoBody)})

(* A SYN that fails: unsupported codec, no such file, not a WAVE file.     *)
(* open(2) sets errno; sas_formats_wav does not, so that the code sent is  *)
(* whatever an earlier call left there.  The session is deleted.           *)
Refusals(codec) == IF codec # 0 THEN {EINVAL} ELSE {ENOENT} \cup StaleErrnos

ServerRefuses(p) ==
  /\ Handles(p, {"INITIAL"})
  /\ IsSet(p, "SYN")
  /\ session' = NoSession
  /\ \E code \in Refusals(p.body.n) :
       ServerAnswers(p, {Stamp(Accepted(Get, p), {"RST", "ERR"}, ErrLen, Err(code))})

(* A SYN that succeeds: the file is opened and the pipeline set up.        *)
(* Mutation: the SYN-ACK is forgotten.                                     *)
ServerOpensSilently(p) ==
  LET s == Accepted(Get, p)
  IN /\ Handles(p, {"INITIAL"})
     /\ IsSet(p, "SYN")
     /\ p.body.n = 0
     /\ session' = [AfterSend(s, CfgAckLen) EXCEPT !.state = "SACK_SENT", !.open = TRUE]
     /\ ServerAnswers(p, {})

ServerOpens(p) ==
  LET s == Accepted(Get, p)
  IN /\ Handles(p, {"INITIAL"})
     /\ IsSet(p, "SYN")
     /\ p.body.n = 0
     /\ session' = [AfterSend(s, CfgAckLen) EXCEPT !.state = "SACK_SENT", !.open = TRUE]
     /\ \E codec \in GarbageCodecs :
          ServerAnswers(p, {Stamp(s, {"SYN", "ACK"}, CfgAckLen, CfgAck(codec))})

(* Any other datagram pulls once on the pipeline, whatever its flags, its  *)
(* acknowledgement and its window say.                                     *)
Pulling(p) == [Accepted(Get, p) EXCEPT !.state = "ESTABLSH"]

Pulls(p) == Handles(p, {"SACK_SENT", "ESTABLSH"})

(* ... and the source emits the next chunk, which the sink sends,          *)
(* Mutation: a chunk is read and thrown away.                              *)
ServerSkipsChunk(p) ==
  LET k == session.read + 1
  IN /\ Pulls(p)
     /\ session.open
     /\ k < NumChunks
     /\ session' = [AfterSend(Pulling(p), ChunkLen(k)) EXCEPT !.read = k + 1]
     /\ ServerAnswers(p, {Stamp(Pulling(p), {}, ChunkLen(k), Chunk(k + 1))})

ServerSendsChunk(p) ==
  LET k == session.read + 1
  IN /\ Pulls(p)
     /\ session.open
     /\ k <= NumChunks
     /\ session' = [AfterSend(Pulling(p), ChunkLen(k)) EXCEPT !.read = k]
     /\ ServerAnswers(p, {Stamp(Pulling(p), {}, ChunkLen(k), Chunk(k))})

(* ... or completes, at the end of the file,                               *)
(* Mutation: the last read is taken for the end of the file.               *)
ServerFinishesEarly(p) ==
  /\ Pulls(p)
  /\ session.open
  /\ session.read >= NumChunks - 1
  /\ session' = [AfterSend(Pulling(p), 0) EXCEPT !.open = FALSE]
  /\ ServerAnswers(p, {Stamp(Pulling(p), {"RST", "FIN"}, 0, NoBody)})

ServerFinishes(p) ==
  /\ Pulls(p)
  /\ session.open
  /\ session.read = NumChunks
  /\ session' = [AfterSend(Pulling(p), 0) EXCEPT !.open = FALSE]
  /\ ServerAnswers(p, {Stamp(Pulling(p), {"RST", "FIN"}, 0, NoBody)})

(* ... or fails, when read(2) does,                                        *)
ServerFails(p) ==
  /\ ReadErrors
  /\ Pulls(p)
  /\ session.open
  /\ session' = [AfterSend(Pulling(p), ErrLen) EXCEPT !.open = FALSE]
  /\ ServerAnswers(p, {Stamp(Pulling(p), {"RST", "ERR"}, ErrLen, Err(EIO))})

(* ... or the connection is closed, and the pull is ignored.               *)
ServerIgnores(p) ==
  /\ Pulls(p)
  /\ ~session.open
  /\ session' = Pulling(p)
  /\ ServerAnswers(p, {})

(* One turn of sas_server_run in which a datagram arrives.                 *)
ServerReceives ==
  \E p \in Receivable(c2s) :
    \/ ServerDrops(p)
    \/ ServerForgets(p)
    \/ ServerRejects(p)
    \/ ServerRefuses(p)
    \/ ServerOpens(p)
    \/ ServerSendsChunk(p)
    \/ ServerFinishes(p)
    \/ ServerFails(p)
    \/ ServerIgnores(p)

(* One turn in which the session's 30 seconds have passed.                 *)
ServerExpires ==
  /\ session.state # "NONE"
  /\ session' = NoSession
  /\ UNCHANGED <<c2s, s2c>>
=============================================================================
