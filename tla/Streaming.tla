----------------------------- MODULE Streaming -----------------------------
(***************************************************************************)
(* One client streaming one file: the two session state machines composed  *)
(* over the network, with the timeouts of both programs.                   *)
(***************************************************************************)
EXTENDS ServerSession, ClientSession

vars == <<c2s, s2c, session, client, pushed, result>>

Init ==
  /\ c2s = {}
  /\ s2c = {}
  /\ ServerInit
  /\ ClientInit

(* A datagram in flight reaches its receiver, and is answered, well within *)
(* 30 seconds unless the network is Delayed.  Neither loop then runs into  *)
(* its timeout while the other has something to receive.                   *)
Quiet == c2s = {} /\ (s2c = {} \/ result # Running)

ServerStep == ServerReceives /\ UNCHANGED <<client, pushed, result>>

SessionExpires ==
  /\ Delayed \/ Quiet
  /\ ServerExpires
  /\ UNCHANGED <<client, pushed, result>>

ClientStep == ClientReceives /\ UNCHANGED session

ConnectStep == ClientConnects /\ UNCHANGED session

ClientExpires ==
  /\ Delayed \/ Quiet
  /\ ClientTimesOut
  /\ UNCHANGED session

ClientStops == ClientFails /\ UNCHANGED session

Loss == Lose /\ UNCHANGED <<session, client, pushed, result>>

(* What the two programs do.                                               *)
ProgramStep ==
  \/ ConnectStep
  \/ ClientStep
  \/ ClientExpires
  \/ ClientStops
  \/ ServerStep
  \/ SessionExpires

Next == ProgramStep \/ Loss

Spec == Init /\ [][Next]_vars

(* Both programs are loops around select: a datagram that is there to be   *)
(* received is received, and the client acts upon its timeout when nothing *)
(* comes.  The server need not act upon that of a session, as long as      *)
(* others keep it busy (ServerLoop).  Nothing obliges the user to connect, *)
(* a call to fail or a network to lose a datagram.                         *)
Fairness ==
  /\ WF_vars(ServerStep)
  /\ WF_vars(ClientStep)
  /\ WF_vars(ClientExpires)

FairSpec == Spec /\ Fairness

----------------------------------------------------------------------------
(* Types. *)

SessionType ==
  [state : {"NONE", "INITIAL", "SACK_SENT", "ESTABLSH"}, seq : Nat, ack : Nat,
   send_window : Nat, receive_window : {WindowSize}, read : 0..NumChunks,
   open : BOOLEAN]

ClientType ==
  [state : {"INITIAL", "SYN_SENT", "ESTABLSH", "FINISHED"}, seq : Nat, ack : Nat,
   send_window : Nat, receive_window : {0, WindowSize}]

(* The type invariant of the composition.  Beyond the types it says that   *)
(* each program only ever is in the states of its own role.                *)
TypeOK ==
  /\ c2s \subseteq Header
  /\ s2c \subseteq Header
  /\ session \in SessionType
  /\ client \in ClientType
  /\ pushed \in Seq([kind : {"cfg_ack", "chunk"}, n : Nat, size : Nat])
  /\ result \in Nat \cup {Running}

----------------------------------------------------------------------------
(* Safety. *)

(* The chunks pushed to the sink, in the order they are.                   *)
NumPlayed == IF pushed = <<>> THEN 0 ELSE Len(pushed) - 1
Played == [i \in 1..NumPlayed |-> pushed[i + 1].n]

(* Whatever the network does, the sink is given each chunk at most once    *)
(* and none before an earlier one: the duplicate check of                  *)
(* sas_client_session_state_machine (client.c:184).                        *)
PlayedInOrder ==
  \A i, j \in 1..NumPlayed : i < j => Played[i] < Played[j]

(* The first thing the sink is given is the stream's configuration and     *)
(* everything after it audio, though the client tells the two apart by its *)
(* own state alone (client.c:219, 250).                                    *)
ConfigurationFirst ==
  \A i \in 1..Len(pushed) : pushed[i].kind = (IF i = 1 THEN "cfg_ack" ELSE "chunk")

(* PROTOCOL.txt:26: the sequence number is the index in the sender's byte  *)
(* stream.  So every copy of a chunk, of whichever session with this       *)
(* client, is at the same place, which is what makes the duplicate check   *)
(* of the client one.                                                      *)
StreamIndex ==
  \A p \in s2c : p.body.kind = "chunk" =>
    /\ p.seq = Position(p.body.n - 1)
    /\ p.length = ChunkLen(p.body.n)

(* Neither side acknowledges bytes that the other has not sent             *)
(* (session.c:295, client.c:199).                                          *)
AcksAreOfSent ==
  /\ session.ack <= client.seq
  /\ \A p \in s2c : p.ack <= client.seq
  /\ client.ack <= Position(NumChunks) + ErrLen

(* When no datagram outlives a session, the client never acknowledges more *)
(* than the running session has sent.                                      *)
ClientAcksSession ==
  session.state # "NONE" =>
    /\ client.ack <= session.seq
    /\ \A p \in c2s : p.ack <= session.seq

(* The session was not begun by a SYN, or its stream has ended.            *)
HasSentReset == session.state = "INITIAL" \/ (session.state = "ESTABLSH" /\ ~session.open)

SendsResets == \A p \in s2c' \ s2c : IsSet(p, "RST")

(* A session that has sent a reset sends nothing but resets until it is    *)
(* forgotten, whatever still comes and in whatever order: a SYN that comes *)
(* after an ACK does not open it (session.c:280-309).  It is not silent:   *)
(* PROTOCOL.txt:92-94 has a reset close the sender's side immediately, but *)
(* a session that was not begun by a SYN answers each ACK with another.    *)
OnlyResetsAfterReset ==
  [][HasSentReset /\ session'.state # "NONE" => SendsResets]_vars

(* One datagram of the client, delivered however often, is worth at most   *)
(* one chunk (session.c:280): the server never has sent more chunks than   *)
(* the client has sent datagrams after its SYN.                            *)
ChunksAreAsked == session.open => SynLen + session.read <= client.seq

----------------------------------------------------------------------------
(* What the listener is promised. *)

Ending ==
  IF result = Running THEN "none" ELSE IF result = EOK THEN "complete" ELSE "aborted"

Stream == INSTANCE AudioStream WITH
  Reliable <- Ordered /\ ~Lossy,
  heard <- Played,
  ending <- Ending

(* The two state machines implement the audio stream: in any network they  *)
(* play chunks in order and end once, and over one that neither loses nor  *)
(* reorders they leave none out, be it in the middle or at the end.        *)
ImplementsStream == Stream!Spec

(* What is left of the promise in every network: the environment of        *)
(* ClientProgram.                                                          *)
AnyStream == INSTANCE AudioStream WITH
  Reliable <- FALSE,
  heard <- Played,
  ending <- Ending

(* Whatever is lost, repeated, reordered or late, the sink hears chunks of *)
(* the file, each after the one before, and none after sas_client_receive  *)
(* has returned, which it does once (client.c:184-188, 202-217, 289-316).  *)
ImplementsAnyStream == AnyStream!Spec

----------------------------------------------------------------------------
(* Liveness. *)

(* On a perfect link a stream that was opened is played to its end, and    *)
(* the client knows.                                                       *)
StreamCompletes == session.open ~> result = EOK

(* A stream that has begun to play ends, well or not.                      *)
PlayingEnds == Stream!Ends

----------------------------------------------------------------------------
(* PROTOCOL.txt:64-65: "On failure, the server will reset the connection". *)
(* For a file that is not a usable WAVE file errno is not set, and the     *)
(* client takes a code 0 for no error and waits on until its own timeout,  *)
(* on a perfect link too (session.c:333-335, client.c:205-216, 309).       *)
RefusalIsTold == result # ETIMEDOUT
=============================================================================
