--------------------------- MODULE ClientProgram ---------------------------
(***************************************************************************)
(* The life of a client (client.h): it is connected to the first address   *)
(* of a host that takes it, receives a stream, and is deallocated; main.c  *)
(* makes these calls once each, another user may connect anew.  What it    *)
(* receives is played by a driver: drivers/ignore.c, or drivers/oss.c,     *)
(* which opens the sound device with the first push.                       *)
(*                                                                         *)
(* What the state machines of server and client make of the network is     *)
(* left to AudioStream, which Streaming implements: the configuration,     *)
(* chunks in order, and an end.                                            *)
(***************************************************************************)
EXTENDS Integers, Sequences, FiniteSets

CONSTANTS
  NumAddresses,  \* the addresses of the host, in the order getaddrinfo has
  NumChunks,
  Short,         \* the chunks of at most 8 bytes: none, or the last
  Descriptors    \* the descriptors that the process may still open

ASSUME ClientProgramAssumption ==
  /\ NumAddresses \in Nat /\ NumChunks \in Nat
  /\ Short \subseteq {NumChunks}
  /\ Descriptors \subseteq Nat \ {0}   \* 0 is the standard input

VARIABLES
  stage,       \* how far the client is
  driver,      \* the sink it was initialised with
  file,        \* what a descriptor is open on, or Closed
  client,      \* client->fd
  address,     \* ai, and
  trying,      \* fd, of sas_client_connect_hostname
  sink,        \* the sink's logic: its fd, finished, and the parent of its
               \* inlet, which is TRUE until it is cancelled
  configured,  \* the client session is established
  heard,       \* AudioStream: the chunks pushed,
  ending,      \* and how the stream has ended
  pulled,      \* how much the sink has pulled: a history
  missed,      \* the pushes with which the device did not open: a history
  written,     \* the chunks written to the device: a history
  crashed      \* a null pointer was followed

connection == <<client, address, trying>>
stream == <<configured, heard, ending>>
driving == <<sink, pulled, missed, written, crashed>>
vars == <<stage, driver, file, connection, stream, driving>>

Stream == INSTANCE AudioStream WITH Reliable <- FALSE

Closed == "closed"

Init ==
  /\ stage = "ready"
  /\ driver \in {"ignore", "oss"}
  /\ file = [fd \in Descriptors |-> Closed]
  /\ client = -1 /\ address = 1 /\ trying = -1
  /\ sink = [fd |-> -1, finished |-> FALSE, parent |-> TRUE]
  /\ configured = FALSE /\ Stream!Init
  /\ pulled = 0 /\ missed = 0 /\ written = <<>> /\ crashed = FALSE

(* open(2) and socket(2) return the lowest descriptor that is free.        *)
Free == {fd \in Descriptors : file[fd] = Closed}
Lowest == {fd \in Free : \A other \in Free : fd <= other}

AfterClose(fd) == [d \in Descriptors |-> IF d = fd THEN Closed ELSE file[d]]

----------------------------------------------------------------------------
(* sas_client_connect_hostname.                                            *)

ConnectBegins ==
  /\ stage \in {"ready", "connected"}
  /\ file' = AfterClose(client)
  /\ client' = -1 /\ address' = 1 /\ trying' = -1
  /\ stage' \in {"connecting", "ready"}   \* getaddrinfo may fail
  /\ UNCHANGED <<driver, stream, driving>>

Connecting == stage = "connecting" /\ address <= NumAddresses

NextAddress == address' = address + 1

SocketFails ==
  /\ Connecting
  /\ trying' = -1
  /\ NextAddress
  /\ UNCHANGED <<stage, driver, file, client, stream, driving>>

ConnectFails ==
  /\ Connecting
  /\ \E fd \in Lowest : trying' = fd   \* and is closed again
  /\ NextAddress
  /\ UNCHANGED <<stage, driver, file, client, stream, driving>>

ConnectSucceeds ==
  /\ Connecting
  /\ \E fd \in Lowest : trying' = fd /\ file' = [file EXCEPT ![fd] = "socket"]
  /\ stage' = "tried"
  /\ UNCHANGED <<driver, client, address, stream, driving>>

AllRefused ==
  /\ stage = "connecting"
  /\ address > NumAddresses
  /\ stage' = "tried"
  /\ UNCHANGED <<driver, file, connection, stream, driving>>

(* Mutation: a descriptor is taken for a connection, not an address.       *)
ConnectReturnsUnchecked ==
  /\ stage = "tried"
  /\ IF trying >= 0
     THEN client' = trying /\ stage' = "connected"
     ELSE client' = client /\ stage' = "ready"
  /\ UNCHANGED <<driver, file, address, trying, stream, driving>>

ConnectReturns ==
  /\ stage = "tried"
  /\ IF address <= NumAddresses
     THEN client' = trying /\ stage' = "connected"
     ELSE client' = client /\ stage' = "ready"
  /\ UNCHANGED <<driver, file, address, trying, stream, driving>>

----------------------------------------------------------------------------
(* The driver: what on_push does with chunk k, or with the configuration,  *)
(* for which k is 0.                                                       *)

(* The first pull of an on_push follows that of on_connect.                *)
Pull == pulled' = pulled + (IF configured THEN 1 ELSE 2)

Ignores ==
  /\ driver = "ignore"
  /\ Pull
  /\ UNCHANGED <<file, sink, missed, written, crashed>>

(* The device is opened with any push that finds it is not.                *)
Opening == driver = "oss" /\ sink.fd <= 0 /\ ~sink.finished

DeviceOpens ==
  /\ Opening
  /\ \E fd \in Lowest :
       /\ file' = [file EXCEPT ![fd] = "device"]
       /\ sink' = [sink EXCEPT !.fd = fd]
  /\ Pull
  /\ UNCHANGED <<missed, written, crashed>>

(* Mutations: the device is left open when an ioctl fails; the sink gives  *)
(* up the stream.                                                          *)
DeviceStaysOpen ==
  /\ Opening
  /\ \E fd \in Lowest : file' = [file EXCEPT ![fd] = "device"]
  /\ sink' = [sink EXCEPT !.fd = -1]
  /\ Pull
  /\ missed' = missed + 1
  /\ UNCHANGED <<written, crashed>>

DeviceIsGivenUp ==
  /\ Opening
  /\ sink' = [sink EXCEPT !.fd = -1, !.parent = FALSE]
  /\ missed' = missed + 1
  /\ crashed' = ~sink.parent
  /\ UNCHANGED <<file, pulled, written>>

DeviceRefuses ==
  /\ Opening
  /\ sink' = [sink EXCEPT !.fd = -1]
  /\ Pull
  /\ missed' = missed + 1
  /\ UNCHANGED <<file, written, crashed>>

Writing == driver = "oss" /\ ~Opening

(* A write that takes part of the chunk is taken for one that takes all.   *)
(* Mutation: no more is asked for.                                         *)
DeviceTakesLast(k) ==
  /\ Writing
  /\ sink.fd \in Descriptors /\ file[sink.fd] = "device"
  /\ k \notin Short
  /\ written' = Append(written, k)
  /\ UNCHANGED <<file, sink, pulled, missed, crashed>>

DeviceTakes(k) ==
  /\ Writing
  /\ sink.fd \in Descriptors /\ file[sink.fd] = "device"
  /\ k \notin Short
  /\ written' = Append(written, k)
  /\ Pull
  /\ UNCHANGED <<file, sink, missed, crashed>>

(* write(2) may fail.  It does when the descriptor has been closed, and    *)
(* when the chunk is short: client.c:252 makes it no bytes, or more than a *)
(* ssize_t holds.  The sink closes its descriptor and cancels; its second  *)
(* cancellation follows the parent that is no more.                        *)
(* Mutation: the sink goes on.                                             *)
WriteIsIgnored ==
  /\ Writing
  /\ Pull
  /\ UNCHANGED <<file, sink, missed, written, crashed>>

WriteFails ==
  /\ Writing
  /\ file' = AfterClose(sink.fd)
  /\ sink' = [sink EXCEPT !.finished = TRUE, !.parent = FALSE]
  /\ crashed' = ~sink.parent
  /\ UNCHANGED <<pulled, missed, written>>

OnPush(k) ==
  \/ Ignores
  \/ DeviceOpens
  \/ DeviceRefuses
  \/ DeviceTakes(k)
  \/ WriteFails

----------------------------------------------------------------------------
(* sas_client_receive.                                                     *)

Receives ==
  /\ stage = "connected"
  /\ stage' = "receiving"
  /\ UNCHANGED <<driver, file, connection, stream, driving>>

Receiving == stage = "receiving" /\ ~crashed /\ ending = "none"

(* The pipeline is started, which connects the sink, and the sink pushed   *)
(* the configuration.                                                      *)
Configures ==
  /\ Receiving
  /\ ~configured
  /\ configured' = TRUE
  /\ OnPush(0)
  /\ UNCHANGED <<stage, driver, connection, heard, ending>>

Plays ==
  /\ Receiving
  /\ configured
  /\ Stream!Hear
  /\ OnPush(heard'[Len(heard')])
  /\ UNCHANGED <<stage, driver, connection, configured>>

ReceiveReturns ==
  /\ Receiving
  /\ Stream!Complete \/ Stream!Abort
  /\ stage' = "over"
  /\ UNCHANGED <<driver, file, connection, configured, driving>>

(* sas_client_dealloc closes the socket.  No one deallocates the logic of  *)
(* the sink, which would close the device.                                 *)
Deallocates ==
  /\ stage \in {"ready", "connected", "over"}
  /\ file' = AfterClose(client)
  /\ stage' = "gone"
  /\ UNCHANGED <<driver, connection, stream, driving>>

Next ==
  \/ ConnectBegins
  \/ SocketFails
  \/ ConnectFails
  \/ ConnectSucceeds
  \/ AllRefused
  \/ ConnectReturns
  \/ Receives
  \/ Configures
  \/ Plays
  \/ ReceiveReturns
  \/ Deallocates

Spec == Init /\ [][Next]_vars

----------------------------------------------------------------------------
(* No descriptor is lost: one that is open is held by the client, by the   *)
(* connect that is under way or by the driver, whatever fails between      *)
(* opening and configuring it (client.c:88-112, oss.c:56-88).              *)
DescriptorsAreHeld ==
  \A fd \in Descriptors :
    /\ file[fd] = "socket" => stage # "gone" /\ fd = (IF stage = "tried" THEN trying ELSE client)
    /\ file[fd] = "device" => fd = sink.fd

(* The client receives from a socket that is open, though the loop over    *)
(* the addresses leaves the descriptor of the last one that refused behind *)
(* (client.c:88-107).                                                      *)
ReceivesFromSocket ==
  stage \in {"connected", "receiving", "over"} =>
    client \in Descriptors /\ file[client] = "socket"

(* The device is given an unbroken run of what the client has heard: a     *)
(* push is lost for each time that the device did not open, and after the  *)
(* first chunk that could not be written there is no other (oss.c:99-113). *)
PlayedUnbroken ==
  /\ written = SubSeq(heard, missed + 1, missed + Len(written))
  /\ sink.fd > 0 /\ ~sink.finished => Len(heard) = missed + Len(written)

(* The client survives whatever the device does until a write has failed;  *)
(* only a chunk that comes after that is its end (oss.c:109-113,           *)
(* pipeline.c:108-115).                                                    *)
CrashesAfterFailedWrite ==
  crashed => sink.finished /\ Len(heard) >= missed + Len(written) + 2

(* The driver keeps one pull ahead of the stream: one when it is connected *)
(* and one for each push, whether or not it could be played.  The client's *)
(* acknowledgements are made of them (source.c:13-19).                     *)
OnePullAhead ==
  configured /\ ~sink.finished => pulled = Len(heard) + 2
=============================================================================
