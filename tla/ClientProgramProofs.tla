------------------------ MODULE ClientProgramProofs ------------------------
(***************************************************************************)
(* Proofs about ClientProgram, for any number of addresses, chunks and     *)
(* descriptors.                                                            *)
(***************************************************************************)
EXTENDS ClientProgram, SequenceTheorems, TLAPS

TypeInv ==
  /\ stage \in {"ready", "connecting", "tried", "connected", "receiving", "over", "gone"}
  /\ driver \in {"ignore", "oss"}
  /\ file \in [Descriptors -> {Closed, "socket", "device"}]
  /\ client \in Descriptors \cup {-1}
  /\ trying \in Descriptors \cup {-1}
  /\ address \in Nat
  /\ sink \in [fd : Descriptors \cup {-1}, finished : BOOLEAN, parent : BOOLEAN]
  /\ configured \in BOOLEAN
  /\ heard \in Seq(Nat)
  /\ pulled \in Nat
  /\ missed \in Nat
  /\ written \in Seq(Nat)
  /\ crashed \in BOOLEAN

(* While the client is being connected it has no descriptor but the one    *)
(* that is tried, and the driver has none before the client receives; what *)
(* it has then is never the socket, not even when it is stale.             *)
SocketInv ==
  /\ DescriptorsAreHeld
  /\ ReceivesFromSocket
  /\ stage \in {"connecting", "tried"} => client = -1
  /\ stage = "tried" /\ address <= NumAddresses =>
       trying \in Descriptors /\ file[trying] = "socket"
  /\ stage = "tried" /\ address > NumAddresses =>
       \A fd \in Descriptors : file[fd] # "socket"
  /\ stage = "ready" => client = -1
  /\ configured => stage \in {"receiving", "over", "gone"}
  /\ sink.fd \in Descriptors => sink.fd # client

(* The device is open until a write fails, and that is when the inlet      *)
(* loses its parent.                                                       *)
DeviceInv ==
  /\ sink.fd \in Descriptors /\ ~sink.finished => file[sink.fd] = "device"
  /\ sink.finished => sink.fd \in Descriptors /\ file[sink.fd] # "device"
  /\ sink.parent <=> ~sink.finished
  /\ crashed => sink.finished
  /\ driver = "ignore" => sink.fd = -1

(* What became of each push: the device did not open with it, or did; it   *)
(* was written; it could not be; it crashed the client.                    *)
PushInv ==
  /\ ~configured =>
       /\ heard = <<>> /\ written = <<>> /\ missed = 0 /\ pulled = 0
       /\ sink.fd = -1 /\ ~sink.finished
  /\ sink.fd = -1 => written = <<>>
  /\ driver = "oss" /\ configured /\ sink.fd = -1 => missed = Len(heard) + 1
  /\ driver = "ignore" => missed = 0
  /\ sink.fd # -1 /\ ~sink.finished => Len(heard) = missed + Len(written)
  /\ sink.finished =>
       Len(heard) = missed + Len(written) + (IF crashed THEN 2 ELSE 1)
  /\ \A i \in 1..Len(written) : written[i] = heard[missed + i]
  /\ OnePullAhead

Inv == TypeInv /\ SocketInv /\ DeviceInv /\ PushInv

LEMMA InitInv == Init => Inv
<1> SUFFICES ASSUME Init PROVE Inv
  OBVIOUS
<1>1. heard = <<>> /\ written = <<>>
  BY DEF Init, Stream!Init
<1>2. TypeInv
  <2>1. file \in [Descriptors -> {Closed, "socket", "device"}]
    BY DEF Init
  <2>2. sink \in [fd : Descriptors \cup {-1}, finished : BOOLEAN, parent : BOOLEAN]
    BY DEF Init
  <2>3. heard \in Seq(Nat) /\ written \in Seq(Nat)
    BY <1>1
  <2> QED
    BY <2>1, <2>2, <2>3 DEF Init, TypeInv
<1>3. SocketInv
  BY ClientProgramAssumption DEF Init, SocketInv, DescriptorsAreHeld, ReceivesFromSocket, Closed
<1>4. DeviceInv
  BY ClientProgramAssumption DEF Init, DeviceInv
<1>5. PushInv
  BY <1>1 DEF Init, PushInv, OnePullAhead
<1> QED
  BY <1>2, <1>3, <1>4, <1>5 DEF Inv

LEMMA SameDeviceInv ==
  ASSUME DeviceInv, UNCHANGED <<driver, file, sink, crashed>> PROVE DeviceInv'
BY DEF DeviceInv

LEMMA SamePushInv ==
  ASSUME PushInv,
         UNCHANGED <<driver, sink, configured, heard, pulled, missed, written, crashed>>
  PROVE  PushInv'
BY DEF PushInv, OnePullAhead

(* Closing a socket does not close the device.                             *)
LEMMA ClosesSocketInv ==
  ASSUME DeviceInv, client = -1 \/ file[client] = "socket",
         file' = AfterClose(client), UNCHANGED <<driver, sink, crashed>>
  PROVE  DeviceInv'
<1>1. \A fd \in Descriptors : file'[fd] = (IF fd = client THEN Closed ELSE file[fd])
  BY DEF AfterClose
<1>2. Closed # "device"
  BY DEF Closed
<1>3. sink.fd \in Descriptors /\ ~sink.finished => file'[sink.fd] = "device"
  <2>1. SUFFICES ASSUME sink.fd \in Descriptors, ~sink.finished
                 PROVE  file'[sink.fd] = "device"
    OBVIOUS
  <2>2. file[sink.fd] = "device"
    BY <2>1 DEF DeviceInv
  <2>3. sink.fd # client
    BY <2>1, <2>2, ClientProgramAssumption
  <2> QED
    BY <2>1, <2>2, <2>3, <1>1
<1>4. sink.finished => sink.fd \in Descriptors /\ file'[sink.fd] # "device"
  BY <1>1, <1>2 DEF DeviceInv
<1> QED
  BY <1>3, <1>4 DEF DeviceInv

----------------------------------------------------------------------------
(* The connection is made while the driver has not begun.                  *)

LEMMA ConnectBeginsInv == Inv /\ ConnectBegins => Inv'
<1> SUFFICES ASSUME Inv, ConnectBegins PROVE Inv'
  OBVIOUS
<1>1. TypeInv'
  BY DEF Inv, TypeInv, ConnectBegins, AfterClose, stream, driving, Closed
<1>2. SocketInv'
  BY ClientProgramAssumption
  DEF Inv, TypeInv, SocketInv, DescriptorsAreHeld, ReceivesFromSocket, ConnectBegins, AfterClose,
      stream, driving, Closed
<1>3. DeviceInv'
  <2>1. UNCHANGED <<driver, sink, crashed>>
    BY DEF ConnectBegins, driving
  <2>2. file' = AfterClose(client)
    BY DEF ConnectBegins
  <2>3. client = -1 \/ file[client] = "socket"
    BY DEF Inv, SocketInv, ReceivesFromSocket, ConnectBegins
  <2> QED
    BY <2>1, <2>2, <2>3, ClosesSocketInv DEF Inv
<1>4. PushInv'
  BY DEF Inv, PushInv, OnePullAhead, ConnectBegins, stream, driving
<1> QED
  BY <1>1, <1>2, <1>3, <1>4 DEF Inv

LEMMA TriesInv == Inv /\ (SocketFails \/ ConnectFails \/ AllRefused) => Inv'
<1> SUFFICES ASSUME Inv, SocketFails \/ ConnectFails \/ AllRefused PROVE Inv'
  OBVIOUS
<1> USE DEF SocketFails, ConnectFails, AllRefused, connection, stream, driving
<1>1. TypeInv'
  BY DEF Inv, TypeInv, Connecting, NextAddress, Lowest, Free
<1>2. SocketInv'
  BY ClientProgramAssumption
  DEF Inv, TypeInv, SocketInv, DescriptorsAreHeld, ReceivesFromSocket, Connecting, NextAddress
<1>3. UNCHANGED <<driver, file, sink, crashed>>
  OBVIOUS
<1>4. DeviceInv'
  BY <1>3, SameDeviceInv DEF Inv
<1>5. UNCHANGED <<driver, sink, configured, heard, pulled, missed, written, crashed>>
  OBVIOUS
<1>6. PushInv'
  BY <1>5, SamePushInv DEF Inv
<1> QED
  BY <1>1, <1>2, <1>4, <1>6 DEF Inv

LEMMA ConnectSucceedsInv == Inv /\ ConnectSucceeds => Inv'
<1> SUFFICES ASSUME Inv, ConnectSucceeds PROVE Inv'
  OBVIOUS
<1>1. PICK fd \in Descriptors :
        /\ file[fd] = Closed
        /\ trying' = fd
        /\ file' = [file EXCEPT ![fd] = "socket"]
  BY DEF ConnectSucceeds, Lowest, Free
<1> USE <1>1 DEF ConnectSucceeds, stream, driving
<1>2. TypeInv'
  BY DEF Inv, TypeInv
<1>3. SocketInv'
  BY ClientProgramAssumption
  DEF Inv, TypeInv, SocketInv, DescriptorsAreHeld, ReceivesFromSocket, Connecting, Closed
<1>4. DeviceInv'
  BY DEF Inv, TypeInv, DeviceInv, Closed
<1>5. PushInv'
  BY DEF Inv, PushInv, OnePullAhead
<1> QED
  BY <1>2, <1>3, <1>4, <1>5 DEF Inv

LEMMA ConnectReturnsInv == Inv /\ (ConnectReturns \/ Receives \/ ReceiveReturns) => Inv'
<1> SUFFICES ASSUME Inv, ConnectReturns \/ Receives \/ ReceiveReturns PROVE Inv'
  OBVIOUS
<1> USE DEF ConnectReturns, Receives, ReceiveReturns, connection, stream, driving
<1>1. heard' = heard
  BY DEF Stream!Complete, Stream!Abort
<1>2. TypeInv'
  BY <1>1 DEF Inv, TypeInv
<1>3. SocketInv'
  <2>1. ~configured => sink.fd \notin Descriptors
    BY ClientProgramAssumption DEF Inv, PushInv
  <2>2. CASE ConnectReturns
    <3>1. UNCHANGED <<file, sink, address, trying, configured>> /\ ~configured
      BY <2>2 DEF Inv, SocketInv
    <3>2. CASE address <= NumAddresses
      BY <2>1, <2>2, <3>1, <3>2
      DEF Inv, SocketInv, DescriptorsAreHeld, ReceivesFromSocket
    <3>3. CASE ~(address <= NumAddresses)
      <4>1. address > NumAddresses
        BY <3>3, ClientProgramAssumption DEF Inv, TypeInv
      <4> QED
        BY <2>1, <2>2, <3>1, <3>3, <4>1
        DEF Inv, SocketInv, DescriptorsAreHeld, ReceivesFromSocket
    <3> QED
      BY <3>2, <3>3
  <2>3. CASE Receives \/ ReceiveReturns
    BY <2>3 DEF Inv, SocketInv, DescriptorsAreHeld, ReceivesFromSocket, Receiving
  <2> QED
    BY <2>2, <2>3
<1>4. UNCHANGED <<driver, file, sink, crashed>>
  OBVIOUS
<1>5. DeviceInv'
  BY <1>4, SameDeviceInv DEF Inv
<1>6. UNCHANGED <<driver, sink, configured, heard, pulled, missed, written, crashed>>
  BY <1>1
<1>7. PushInv'
  BY <1>6, SamePushInv DEF Inv
<1> QED
  BY <1>2, <1>3, <1>5, <1>7 DEF Inv

LEMMA DeallocatesInv == Inv /\ Deallocates => Inv'
<1> SUFFICES ASSUME Inv, Deallocates PROVE Inv'
  OBVIOUS
<1> USE DEF Deallocates, connection, stream, driving
<1>1. TypeInv'
  BY DEF Inv, TypeInv, AfterClose, Closed
<1>2. SocketInv'
  BY DEF Inv, TypeInv, SocketInv, DescriptorsAreHeld, ReceivesFromSocket, AfterClose, Closed
<1>3. client = -1 \/ file[client] = "socket"
  BY DEF Inv, SocketInv, ReceivesFromSocket
<1>4. DeviceInv'
  BY <1>3, ClosesSocketInv DEF Inv
<1>5. UNCHANGED <<driver, sink, configured, heard, pulled, missed, written, crashed>>
  OBVIOUS
<1>6. PushInv'
  BY <1>5, SamePushInv DEF Inv
<1> QED
  BY <1>1, <1>2, <1>4, <1>6 DEF Inv

----------------------------------------------------------------------------
(* What a push changes, whether it is of the configuration or a chunk.     *)
Pushing(k) ==
  /\ stage = "receiving" /\ ~crashed
  /\ configured'
  /\ UNCHANGED <<stage, driver, client, address, trying>>
  /\ heard' = IF configured THEN Append(heard, k) ELSE heard

LEMMA HeardGrows ==
  ASSUME Inv, NEW k \in Nat, Pushing(k)
  PROVE  /\ heard' \in Seq(Nat)
         /\ Len(heard') = IF configured THEN Len(heard) + 1 ELSE 0
         /\ configured => heard'[Len(heard) + 1] = k
         /\ \A i \in 1..Len(heard) : heard'[i] = heard[i]
BY DEF Inv, TypeInv, PushInv, Pushing

LEMMA IgnoresInv ==
  ASSUME Inv, NEW k \in Nat, Pushing(k), Ignores PROVE Inv'
<1> USE DEF Ignores, Pushing, Pull
<1>1. TypeInv'
  BY HeardGrows DEF Inv, TypeInv
<1>2. SocketInv'
  BY DEF Inv, SocketInv, DescriptorsAreHeld, ReceivesFromSocket
<1>3. DeviceInv'
  BY SameDeviceInv DEF Inv
<1>4. sink.fd = -1 /\ ~sink.finished /\ written = <<>> /\ missed = 0
  BY ClientProgramAssumption DEF Inv, DeviceInv, PushInv
<1>5. pulled' = Len(heard') + 2
  BY <1>4, HeardGrows DEF Inv, TypeInv, PushInv, OnePullAhead
<1>6. PushInv'
  BY <1>4, <1>5 DEF PushInv, OnePullAhead
<1> QED
  BY <1>1, <1>2, <1>3, <1>6 DEF Inv

(* Before the device is open a push has been missed for each one there was. *)
LEMMA OpeningMissed ==
  ASSUME Inv, NEW k \in Nat, Pushing(k), Opening
  PROVE  /\ sink.fd = -1 /\ ~sink.finished /\ written = <<>>
         /\ missed = Len(heard')
         /\ pulled + (IF configured THEN 1 ELSE 2) = Len(heard') + 2
<1>1. sink.fd = -1 /\ ~sink.finished
  <2>1. sink.fd \in Descriptors \cup {-1}
    BY DEF Inv, TypeInv
  <2>2. sink.fd <= 0 /\ ~sink.finished
    BY DEF Opening
  <2>3. \A fd \in Descriptors : fd \in Nat /\ fd # 0
    BY ClientProgramAssumption
  <2>4. CASE sink.fd \in Descriptors
    BY <2>2, <2>3, <2>4
  <2> QED
    BY <2>1, <2>2, <2>4
<1>2. written = <<>>
  <2>1. sink.fd = -1 => written = <<>>
    BY DEF Inv, PushInv
  <2> QED
    BY <1>1, <2>1
<1>3. CASE configured
  <2>1. missed = Len(heard) + 1 /\ pulled = Len(heard) + 2
    BY <1>1, <1>3 DEF Inv, PushInv, OnePullAhead, Opening
  <2>2. Len(heard') = Len(heard) + 1 /\ Len(heard) \in Nat
    BY <1>3, HeardGrows DEF Inv, TypeInv
  <2> QED
    BY <1>1, <1>2, <1>3, <2>1, <2>2
<1>4. CASE ~configured
  <2>1. missed = 0 /\ pulled = 0
    BY <1>4 DEF Inv, PushInv
  <2>2. Len(heard') = 0
    BY <1>4, HeardGrows
  <2> QED
    BY <1>1, <1>2, <1>4, <2>1, <2>2
<1> QED
  BY <1>3, <1>4 DEF Inv, TypeInv

LEMMA DeviceOpensInv ==
  ASSUME Inv, NEW k \in Nat, Pushing(k), DeviceOpens PROVE Inv'
<1>1. PICK fd \in Descriptors :
        /\ file[fd] = Closed
        /\ file' = [file EXCEPT ![fd] = "device"]
        /\ sink' = [sink EXCEPT !.fd = fd]
  BY DEF DeviceOpens, Lowest, Free
<1>2. Opening /\ UNCHANGED <<missed, written, crashed>>
  BY DEF DeviceOpens
<1>3. sink' = [fd |-> fd, finished |-> FALSE, parent |-> TRUE]
  BY <1>1, <1>2, OpeningMissed DEF Inv, TypeInv, DeviceInv
<1>4. pulled' = Len(heard') + 2
  BY OpeningMissed, <1>2 DEF DeviceOpens, Pull
<1>5. TypeInv'
  <2>1. file' \in [Descriptors -> {Closed, "socket", "device"}]
    BY <1>1 DEF Inv, TypeInv
  <2>2. sink' \in [fd : Descriptors \cup {-1}, finished : BOOLEAN, parent : BOOLEAN]
    BY <1>3
  <2>3. heard' \in Seq(Nat) /\ pulled' \in Nat
    BY <1>4, HeardGrows DEF Inv, TypeInv
  <2> QED
    BY <1>2, <2>1, <2>2, <2>3, HeardGrows DEF Inv, TypeInv, Pushing
<1>6. SocketInv'
  BY <1>1, <1>2, <1>3, OpeningMissed, ClientProgramAssumption
  DEF Inv, TypeInv, SocketInv, DescriptorsAreHeld, ReceivesFromSocket, Pushing, Closed
<1>7. DeviceInv'
  BY <1>1, <1>2, <1>3 DEF Inv, TypeInv, DeviceInv, Pushing, Opening
<1>8. PushInv'
  BY <1>1, <1>2, <1>3, <1>4, OpeningMissed, ClientProgramAssumption
  DEF PushInv, OnePullAhead, Pushing, Opening
<1> QED
  BY <1>5, <1>6, <1>7, <1>8 DEF Inv

LEMMA DeviceRefusesInv ==
  ASSUME Inv, NEW k \in Nat, Pushing(k), DeviceRefuses PROVE Inv'
<1>1. Opening /\ missed' = missed + 1 /\ UNCHANGED <<file, written, crashed>>
  BY DEF DeviceRefuses
<1>2. sink' = sink
  BY <1>1, OpeningMissed DEF Inv, TypeInv, DeviceRefuses
<1>3. pulled' = Len(heard') + 2
  BY OpeningMissed, <1>1 DEF DeviceRefuses, Pull
<1>4. TypeInv'
  BY <1>1, <1>2, <1>3, HeardGrows DEF Inv, TypeInv, Pushing
<1>5. SocketInv'
  BY <1>1, <1>2 DEF Inv, SocketInv, DescriptorsAreHeld, ReceivesFromSocket, Pushing
<1>6. DeviceInv'
  BY <1>1, <1>2, SameDeviceInv DEF Inv, Pushing
<1>7. PushInv'
  BY <1>1, <1>2, <1>3, OpeningMissed DEF PushInv, OnePullAhead, Pushing, Opening
<1> QED
  BY <1>4, <1>5, <1>6, <1>7 DEF Inv

(* A write is of a chunk, and all chunks before it have been written but   *)
(* those that were missed.                                                 *)
LEMMA WritingIsConfigured ==
  ASSUME Inv, Writing
  PROVE  /\ sink.fd \in Descriptors
         /\ configured
BY DEF Inv, TypeInv, DeviceInv, PushInv, Writing, Opening

LEMMA DeviceTakesInv ==
  ASSUME Inv, NEW k \in Nat, Pushing(k), DeviceTakes(k) PROVE Inv'
<1>1. /\ ~sink.finished /\ configured /\ sink.fd # -1
      /\ written' = Append(written, k) /\ pulled' = pulled + 1
      /\ UNCHANGED <<file, sink, missed, crashed>>
  BY WritingIsConfigured, ClientProgramAssumption DEF Inv, DeviceInv, DeviceTakes, Pull
<1>2. Len(heard) = missed + Len(written) /\ pulled = Len(heard) + 2
  BY <1>1 DEF Inv, PushInv, OnePullAhead
<1>3. /\ written' \in Seq(Nat) /\ Len(written') = Len(written) + 1
      /\ written'[Len(written) + 1] = k
      /\ \A i \in 1..Len(written) : written'[i] = written[i]
  BY <1>1 DEF Inv, TypeInv
<1>4. TypeInv'
  BY <1>1, <1>3, HeardGrows DEF Inv, TypeInv, Pushing
<1>5. SocketInv'
  BY <1>1 DEF Inv, SocketInv, DescriptorsAreHeld, ReceivesFromSocket, Pushing
<1>6. DeviceInv'
  BY <1>1, SameDeviceInv DEF Inv, Pushing
<1>7. \A i \in 1..Len(written') : written'[i] = heard'[missed' + i]
  <2>1. SUFFICES ASSUME NEW i \in 1..Len(written')
                 PROVE  written'[i] = heard'[missed + i]
    BY <1>1
  <2>2. CASE i = Len(written) + 1
    BY <2>2, <1>1, <1>2, <1>3, HeardGrows DEF Inv, TypeInv
  <2>3. CASE i \in 1..Len(written)
    <3>1. missed + i \in 1..Len(heard)
      BY <2>3, <1>2 DEF Inv, TypeInv
    <3> QED
      BY <2>3, <3>1, <1>3, HeardGrows DEF Inv, PushInv
  <2> QED
    BY <2>2, <2>3, <1>3 DEF Inv, TypeInv
<1>8. Len(heard') = missed' + Len(written') /\ pulled' = Len(heard') + 2
  BY <1>1, <1>2, <1>3, HeardGrows DEF Inv, TypeInv
<1>9. driver = "oss"
  BY DEF DeviceTakes, Writing
<1> QED
  <2>1. PushInv'
    BY <1>1, <1>7, <1>8, <1>9 DEF PushInv, OnePullAhead, Pushing
  <2> QED
    BY <1>4, <1>5, <1>6, <2>1 DEF Inv

LEMMA WriteFailsInv ==
  ASSUME Inv, NEW k \in Nat, Pushing(k), WriteFails PROVE Inv'
<1>1. /\ driver = "oss" /\ configured /\ sink.fd \in Descriptors
      /\ file' = AfterClose(sink.fd)
      /\ crashed' = ~sink.parent
      /\ UNCHANGED <<pulled, missed, written>>
  BY WritingIsConfigured DEF WriteFails, Writing
<1>2. sink' = [fd |-> sink.fd, finished |-> TRUE, parent |-> FALSE]
  BY DEF Inv, TypeInv, WriteFails
<1>3. TypeInv'
  <2>1. file' \in [Descriptors -> {Closed, "socket", "device"}]
    BY <1>1 DEF Inv, TypeInv, AfterClose
  <2>2. sink' \in [fd : Descriptors \cup {-1}, finished : BOOLEAN, parent : BOOLEAN]
    BY <1>1, <1>2
  <2> QED
    BY <1>1, <2>1, <2>2, HeardGrows DEF Inv, TypeInv, Pushing
<1>4. \A fd \in Descriptors : file'[fd] = (IF fd = sink.fd THEN Closed ELSE file[fd])
  BY <1>1 DEF AfterClose
<1>5. SocketInv'
  BY <1>1, <1>2, <1>4
  DEF Inv, SocketInv, DescriptorsAreHeld, ReceivesFromSocket, Pushing, Closed
<1>6. DeviceInv'
  BY <1>1, <1>2, <1>4, ClientProgramAssumption DEF DeviceInv, Pushing, Closed
<1>7. Len(heard') = missed + Len(written) + (IF crashed' THEN 2 ELSE 1)
  <2>1. /\ Len(heard) \in Nat /\ missed \in Nat /\ Len(written) \in Nat
        /\ Len(heard') = Len(heard) + 1
    BY <1>1, HeardGrows DEF Inv, TypeInv
  <2>2. Len(heard) = missed + Len(written) + (IF crashed' THEN 1 ELSE 0)
    <3>1. sink.fd # -1
      BY <1>1, ClientProgramAssumption
    <3>2. sink.parent <=> ~sink.finished
      BY DEF Inv, DeviceInv
    <3>3. crashed' <=> sink.finished
      BY <1>1, <3>2
    <3>4. ~crashed
      BY DEF Pushing
    <3> QED
      BY <3>1, <3>3, <3>4 DEF Inv, PushInv
  <2> QED
    BY <2>1, <2>2
<1>8. \A i \in 1..Len(written) : written[i] = heard'[missed + i]
  <2>1. SUFFICES ASSUME NEW i \in 1..Len(written) PROVE written[i] = heard'[missed + i]
    OBVIOUS
  <2>2. missed + i \in 1..Len(heard)
    BY <1>1, ClientProgramAssumption DEF Inv, TypeInv, PushInv
  <2> QED
    BY <2>2, HeardGrows DEF Inv, PushInv
<1>9. PushInv'
  <2>1. sink'.fd # -1 /\ sink'.finished /\ configured' /\ driver' # "ignore"
    BY <1>1, <1>2, ClientProgramAssumption DEF Pushing
  <2> QED
    BY <1>1, <1>7, <1>8, <2>1 DEF PushInv, OnePullAhead
<1> QED
  BY <1>3, <1>5, <1>6, <1>9 DEF Inv

----------------------------------------------------------------------------
LEMMA OnPushInv ==
  ASSUME Inv, NEW k \in Nat, Pushing(k), OnPush(k) PROVE Inv'
BY IgnoresInv, DeviceOpensInv, DeviceRefusesInv, DeviceTakesInv, WriteFailsInv DEF OnPush

LEMMA PushesInv == Inv /\ (Configures \/ Plays) => Inv'
<1>1. ASSUME Inv, Configures PROVE Inv'
  <2>1. Pushing(0)
    BY <1>1 DEF Inv, TypeInv, Configures, Receiving, connection, Pushing
  <2> QED
    BY <1>1, <2>1, OnPushInv DEF Configures
<1>2. ASSUME Inv, Plays PROVE Inv'
  <2>1. PICK k \in 1..NumChunks : heard' = Append(heard, k)
    BY <1>2 DEF Plays, Stream!Hear
  <2>2. k \in Nat
    BY <2>1, ClientProgramAssumption
  <2>3. heard'[Len(heard')] = k
    BY <1>2, <2>1, <2>2 DEF Inv, TypeInv
  <2>4. Pushing(k)
    BY <1>2, <2>1 DEF Plays, Receiving, connection, Pushing
  <2> QED
    BY <1>2, <2>2, <2>3, <2>4, OnPushInv DEF Plays
<1> QED
  BY <1>1, <1>2

LEMMA NextInv == Inv /\ [Next]_vars => Inv'
<1>1. ASSUME Inv, UNCHANGED vars PROVE Inv'
  <2>1. UNCHANGED <<stage, driver, file, client, address, trying, sink, configured, heard,
                    pulled, missed, written, crashed>>
    BY <1>1 DEF vars, connection, stream, driving
  <2>2. TypeInv'
    BY <1>1, <2>1 DEF Inv, TypeInv
  <2>3. SocketInv'
    BY <1>1, <2>1 DEF Inv, SocketInv, DescriptorsAreHeld, ReceivesFromSocket
  <2> QED
    BY <1>1, <2>1, <2>2, <2>3, SameDeviceInv, SamePushInv DEF Inv
<1> QED
  BY <1>1, ConnectBeginsInv, TriesInv, ConnectSucceedsInv, ConnectReturnsInv, PushesInv,
     DeallocatesInv
  DEF Next

LEMMA Invariance == Spec => []Inv
BY InitInv, NextInv, PTL DEF Spec

(* No descriptor is lost, whatever fails between opening and configuring   *)
(* it (client.c:88-112, oss.c:56-88).                                      *)
THEOREM DescriptorsStayHeld == Spec => []DescriptorsAreHeld
<1>1. Inv => DescriptorsAreHeld
  BY DEF Inv, SocketInv
<1> QED
  BY <1>1, Invariance, PTL

(* The client receives from a socket that is open (client.c:88-107), which *)
(* the driver never closes by a number it has kept (oss.c:111).            *)
THEOREM SocketStaysOpen == Spec => []ReceivesFromSocket
<1>1. Inv => ReceivesFromSocket
  BY DEF Inv, SocketInv
<1> QED
  BY <1>1, Invariance, PTL

(* The driver asks for one chunk at a time, and never forgets to           *)
(* (oss.c:38-41, 99-116, ignore.c:16-26).                                  *)
THEOREM AlwaysOnePullAhead == Spec => []OnePullAhead
<1>1. Inv => OnePullAhead
  BY DEF Inv, PushInv
<1> QED
  BY <1>1, Invariance, PTL

(* A client that crashes does so with the push after the one that could    *)
(* not be written (oss.c:105-113, pipeline.c:108-115).                     *)
THEOREM CrashesOnlyAfterFailedWrite == Spec => []CrashesAfterFailedWrite
<1>1. Inv => CrashesAfterFailedWrite
  BY DEF Inv, TypeInv, DeviceInv, PushInv, CrashesAfterFailedWrite
<1> QED
  BY <1>1, Invariance, PTL

(* What reaches the device is an unbroken run of what was heard            *)
(* (oss.c:99-113).                                                         *)
THEOREM PlaysUnbroken == Spec => []PlayedUnbroken
<1>1. ASSUME Inv PROVE PlayedUnbroken
  <2>1. missed + Len(written) <= Len(heard) \/ written = <<>>
    BY <1>1, ClientProgramAssumption DEF Inv, TypeInv, PushInv
  <2>2. written = SubSeq(heard, missed + 1, missed + Len(written))
    <3>1. missed \in Nat /\ written \in Seq(Nat) /\ heard \in Seq(Nat) /\ Len(written) \in Nat
      BY <1>1 DEF Inv, TypeInv
    <3>2. Len(SubSeq(heard, missed + 1, missed + Len(written))) = Len(written)
      BY <3>1
    <3>3. \A i \in 1..Len(written) :
            SubSeq(heard, missed + 1, missed + Len(written))[i] = heard[missed + i]
      BY <3>1
    <3>4. \A i \in 1..Len(written) : written[i] = heard[missed + i]
      BY <1>1 DEF Inv, PushInv
    <3> QED
      BY <2>1, <3>1, <3>2, <3>3, <3>4
  <2> QED
    BY <1>1, <2>2, ClientProgramAssumption DEF Inv, PushInv, PlayedUnbroken
<1> QED
  BY <1>1, Invariance, PTL
=============================================================================
