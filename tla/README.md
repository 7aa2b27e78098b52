# A verification of sas in TLA+

sas streams WAVE files from a server to a client over UDP. This directory holds
TLA+ specifications of its programs and libraries, the TLC configurations that
model-check them, and theorems about them that the TLA+ proof system checks. All
paths below are relative to the root of the repository.

    tlc -config PerfectLink.cfg Streaming       one run (the table below has all)
    tlapm StreamingProofs.tla                   the proofs of one module

`PROJECT.json` lists the components, runs, findings, hazards and theorems, the
lines of source each definition stands for, and for each property a plausible bug
(a *mutation*) that breaks it. Mutations are defined just before the definition
they are variants of, and no specification uses them.

## Inventory

**Packets** (`sas-core`, `PROTOCOL.txt`). A 16 byte header with a sequence number,
an acknowledgement number, control bits, a window and a length, then a payload.
Fields change byte order in place. Correct when numbers are indices of a byte
stream and packets that were received before are told from new ones.

**Server session** (`sas-server/src/session.c`, `sink.c`, `formats/wav.c`). State:
`INITIAL`, `SACK_SENT` or `ESTABLSH`, the two stream positions, the windows, a
descriptor and a pipeline from the WAVE source to the sink that sends. Each datagram is
one call of `sas_server_session_state_machine`: drop, forget (RST), reject (no SYN),
refuse (codec, file, format), open, or pull one element, which makes the source emit a chunk,
complete or fail, and the sink send it. Correct when chunks are sent in order,
each at its place, none unasked, nothing after the end.

**Server loop** (`server.c`, `timeout.c`, the table in `session.c`). One thread:
expire sessions, `select` until the next timeout, receive, find or make the session,
run its state machine, set its timeout. It keeps a hash table (session of an
address) and a binary heap (session to time out next), both of pointers to the
same memory, which is freed and reused. Correct when each session is
found by its own address, watched while it lives, not timed out early, and timed out in the end.

**Descriptors** (`session.c`, `wav.c`). Kept by the session and by the source,
closed up to three times, and given out again by the system in between.

**Client** (`sas-client/src/client.c`, `source.c`, `main.c`). Tries the addresses of a host
one by one and keeps the first socket that connects. Then it sends a SYN and
loops on `select`; each datagram is one call of
`sas_client_session_state_machine`: drop, end (RST), configure (first packet) or play a
chunk. Its pipeline is turned around: a pull of the sink sends an ACK, and the
state machine pushes chunks to the sink. Correct when the sink hears
configuration and chunks in order, the client ends, and what it has open is closed once.

**Drivers** (`drivers/ignore.c`, `drivers/oss.c`). The sinks of the client. The OSS driver opens
the sound device with the first push, tries again with each push until it succeeds, and cancels when
a write fails. Correct when the device gets an unbroken run of the stream and the
pulls, which become the acknowledgements, go on.

**rxc** (`rxc/src`). Streams on demand: a sink pulls *n* elements through an inlet, a
connection accounts for the demand, the source emits; pulls are queued on a
trampoline so that callbacks do not nest. Flows wrap a source or a sink. Correct when demand is met exactly,
elements are in order, a closed connection is silent and callbacks return.

How they interact: client and server by datagrams only; server loop and session by
calls, the table and the heap; session, sink and source by callbacks of rxc, all of
which run to completion within the handling of one datagram. There are no
threads, signals or persistent state. What is hard is therefore the network
(order, loss, duplication, delay against two 30 second timeouts), sessions that end and
begin again under datagrams in flight, memory and descriptors that are reused, and
re-entrant callbacks.

## Modules

| module | models | extends or instantiates |
|---|---|---|
| `Transport` | packets, sequence arithmetic, the duplicate check | |
| `Network` | the two sets of datagrams in flight | `Transport` |
| `ServerSession` | server state machine, source, sink, expiry | `Network` |
| `ClientSession` | client state machine, its source and sink, receive loop | `Network` |
| `Streaming` | client, server and network; their properties | both sessions, `AudioStream` |
| `AudioStream` | abstract: what a listener is promised | |
| `WireFormat` | packets as bytes, byte orders and conversions | `Streaming` |
| `ServerPeer` | the server against an arbitrary peer | `ServerSession` |
| `TimeoutHeap` | the heap, alone | |
| `SessionTable` | the hash table | |
| `ServerLoop` | `sas_server_run` with both | `SessionTable`, `TimeoutHeap` |
| `SessionFiles` | descriptors of all sessions | |
| `SharedServer` | a server with several clients: table, sessions, descriptors | `SessionFiles`, `SessionTable`, `SessionPerAddress` |
| `SessionPerAddress` | abstract: a session for each address | |
| `Stages` | how sources, flows and sinks are put together | |
| `Pipeline` | source, connection, trampoline and sink of rxc | `Stages`, `OnDemand` |
| `OnDemand` | abstract: what a sink is promised | |
| `ClientProgram` | connecting, receiving and playing, and all that fails in it | `AudioStream` |
| `StreamingInv` | the inductive invariant of `Streaming` | `Streaming` |
| `DeliveryInv` | the invariants it has when the network does not delay, duplicate, lose or reorder | `StreamingInv` |
| `MC*` | bounds and values for TLC | |

The proofs about a module are in a module of their own: `StreamingProofs` and, on top
of it, `DeliveryProofs`, also about `WireFormat`; `ServerPeerProofs`; `SessionTableProofs`, used by
`SharedServerProofs` and `ServerLoopProofs`, the latter also about `TimeoutHeap`; `PipelineProofs`; `ClientProgramProofs`.

### Streaming

`c2s` and `s2c` are the datagrams in flight; `session` is the server's session for
this client (`state = "NONE"` when there is none), `client` is `client->session`,
`pushed` what the sink was given and `result` what `sas_client_receive` returned. One
action is one whole call of a state machine with all it sends:

| code | action |
|---|---|
| `session.c:280-284` | `ServerDrops` |
| `session.c:298-301` | `ServerForgets` |
| `session.c:306-309` | `ServerRejects` |
| `session.c:315-337` | `ServerRefuses` |
| `session.c:338-354` | `ServerOpens` |
| `session.c:356-362`, `logic.c:19-36`, `wav.c:50-92`, `sink.c` | `ServerSendsChunk`, `ServerFinishes`, `ServerFails`, `ServerIgnores` |
| `timeout.c:16-21` from `server.c:104-131` | `ServerExpires` |
| `client.c:134-160` | `ClientConnects` |
| `client.c:184-188` | `ClientDrops` |
| `client.c:202-217` | `ClientIsReset` |
| `client.c:220-249`, `source.c:13-19`, `ignore.c:16-26` | `ClientConfigures` (three ACKs) |
| `client.c:250-259`, `source.c:13-19`, `ignore.c:21-26` | `ClientPlays` (two ACKs) |
| `client.c:294-296` and the failures of the socket | `ClientTimesOut`, `ClientFails` |

The data is abstract: a chunk is its index in the file, a file name its length, a
file `NumChunks` reads of which the last returns `LastLen` bytes. Two values that
the program reads without having set them are choices: the codec of a new session
(`GarbageCodecs`) and `errno` when a file is not a usable WAVE file (`StaleErrnos`).
That `sendto` fails is the same as a loss.

`Lossy`, `Duplicating`, `Ordered` and `Delayed` say what the network may do. In a
network that is not `Delayed` each datagram arrives well within 30 seconds, so that
neither timeout fires while there is something to receive (`Quiet`). `Delayed` drops
that guard, and sessions may expire at any moment.

### WireFormat

A structure in memory is a function from its members to their bytes, most or least
significant first. The conversions of `transport.c` are the sets of members they convert,
applied by the sender and, for what the receiver takes the packet for, by the receiver:
the client tells a payload by its flags and its own state, the server by the flags and
its session's. Any forgotten member, or a payload taken for another, makes a difference
between some pair of hosts. `HeaderMembers` and `PayloadMembers` are the members of the structures
with the padding that the compiler adds, which is sent too: it is whatever was left in
the memory of the packet (`Garbage`). The module adds no steps; it is checked over `Streaming`'s.

### SharedServer

One action per kind of datagram, as it matters to table and descriptors: one that
makes no difference (`Ignores`), a SYN that is granted (`Begins`) or refused (`Refuses`), one
that pulls (`Pulls`: a chunk or the end), RST (`Resets`) and the timeout (`Expires`). Each finds or makes
the session of its sender in `SessionTable` first, in any piece of memory that is free, and
does to its file what `SessionFiles` says. `event` is the last datagram, for the
sake of `SessionPerAddress`, which says what a datagram may change.
Addresses of different hosts that share a bucket are mistaken for each other by `addr_eq` (run
`colliding_hosts`), so `SessionPerAddress` grants an exception: a sender that is `Mistaken` for hosts
that have a session is `Served` one of theirs. All else it promises, whatever the addresses are.

### ServerLoop

A session is a piece of memory (`Sessions`): `table.addr` is what it says its
address is, `table.live` what is allocated, `table.chain` the buckets. `free` leaves
the contents of memory as they are, but for part of the address, which the
allocator overwrites; so the timeout of a freed session may still be read, and deleting
it a second time finds an empty bucket or frees memory twice. After the latter
anything may happen, and the model stops (`corrupt`). An allocation that fails is
not modelled. `pc` separates the two halves of a turn of the loop, since time
passes between them.

### Pipeline

The call stack is part of the state: a frame for the trampoline's loop, the
source's `on_pull` or a callback of the sink. The sink may pull and cancel whenever it
runs, or between datagrams, the way the server's state machine pulls. What the
sinks `foreach`, `ignore` and `canceled` do is among it. The source is one with the loop that
`count.c` and `wav.c` have, or the empty one.

Before it starts, the pipeline is put together (`Stages`): flows wrap the source or the
sink, in any order; starting it turns the flows of the source into wraps of the sink,
with the scheduling sink in between. `logics` is the nesting that results, and each
element records the mappings it has passed.

### ClientProgram

| code | action |
|---|---|
| `client.c:61-88` | `ConnectBegins` |
| `client.c:88-100` | `SocketFails`, `ConnectFails`, `ConnectSucceeds`, `AllRefused` |
| `client.c:102-111` | `ConnectReturns` |
| `main.c:95-102` | `Receives`, `ReceiveReturns` |
| `client.c:219-259` with `ignore.c:16-26` or `oss.c:38-117` | `Configures`, `Plays` |
| `client.c:32-43` | `Deallocates` |

A push does what the driver does with it: `Ignores`, `DeviceOpens`, `DeviceRefuses`, `DeviceTakes` or
`WriteFails`. `open`, each `ioctl` and `write` may fail at any time. The descriptor that an `ioctl`
failed on is opened and closed in one action. What arrives, and how it ends, is
`AudioStream` with `Reliable` FALSE, which `Streaming` implements in every network
(`ImplementsAnyStream`), so that the two modules together are the client as a whole.

## Runs

Deadlock is checked where the system cannot stop. `CHECK_DEADLOCK FALSE` is set
where it may: the client returns, a bounded clock or counter is used up, a peer has
said all it may, memory is corrupt.

| run | question | bounds |
|---|---|---|
| `perfect_link` | Is the file played whole, in order, to an end both know, when nothing is lost or reordered? | 12 chunks |
| `lossy_link` | Does a stream stall without a loss, does playing end with one? Do fields arrive? Is the invariant that says why one? | 3 chunks, read and socket errors, hosts of both byte orders |
| `worst_network` | Safety under loss, duplication, reordering and unlimited delay; sessions that expire and come back | 2 chunks; 4 and 2 datagrams in flight |
| `any_peer` | Safety of the server against any peer | 2 chunks, a peer's stream of 7 |
| `heap_of_five` | Order, contents and capacity of the heap | 5 entries, 4 sessions, initial capacity 1 |
| `busy_server` | Are sessions watched, found, not timed out early, and forgotten once datagrams cease? | 3 pieces of memory, 3 colliding addresses, 4 entries, time to 3, timeout 1, datagrams until 2 |
| `two_descriptors` | Does a descriptor leak, does a client get into another's way? | 4 clients, 3 of them in a bucket, 2 of these of one host, 3 pieces of memory, 2 files, 2 descriptors |
| `pulled_pipeline` | Demand, order, silence and termination of rxc | 6 elements, pulls of 1 to 3, 7 in all, LONG_MAX = 3, 3 flows with 2 mappings |
| `client_program` | Is what is open held, what is heard played, and what may crash the client? | 3 addresses, 5 chunks of which the last is short, 3 descriptors |

Why the bounds are enough. A chunk of an ordered stream differs from another only
by being first, last or in between; two or three of them with reordered or
duplicated datagrams already show every pair of actions, and the deeper properties
are proved for any number. `WorstNetwork` bounds the datagrams in flight since in a
duplicating network they would accumulate: with four ACKs and two packets of the
server there are both current and stale ones of each kind. A failed read, which sends
the same kind of packet as a refusal, is left to `lossy_link` and `any_peer`. A heap of five has a node
with two children and grandchildren, capacity 1 makes it grow three times. Three
colliding addresses are two ports of one host and another host; three pieces of
memory let one be reused while others live. Datagrams come at three moments, with a timeout of one
moment, so that entries that are pending, just due and stale meet; the clock runs on after the last one until all
timeouts have passed (`MaxTime`). `LONG_MAX` = 3 is exceeded by two pulls. Three flows are the fewest of which some are on the
source, some on the sink and two next to each other; two mappings tell their order.
Three descriptors are more than a client ever has open, one socket and one device, and
three addresses have a first, a last and one between. The symmetry of `two_descriptors`
permutes memory and names of files, which no action or property tells apart.
`Garbage` is one value, that of bytes that are not zero: no action looks at padding.
There are 2^32 sequence numbers in the code; the runs use a `SeqSpace` that no
stream reaches. A `size_t` wraps at `SizeSpace`. Errors are the errno values of Linux.

Fairness. `ServerStep` and `ClientStep` are weakly fair because both programs are
loops around `select`, which returns when there is a datagram. `ClientExpires` is
because the client's `select` is given a timeout of its own, and the loop acts on it. `SessionExpires`
is not fair: the server waits for the first entry of its heap, which need not be this session's
while other clients are active. In `ServerLoop`, where the heap is, the loop's own steps (`Turn`) and
the clock (`Tick`) are weakly fair, since the thread runs and `select` returns when its timeout has passed.
Nothing obliges a user to connect, a call to fail or a network to lose. In `Pipeline` the
library's own steps are weakly fair, since the thread runs, and so is that a
callback of the sink returns; pulls, cancels and failures are not.

### What the passing runs show

- `ImplementsStream`: the programs implement `AudioStream`, with `heard` the chunks
  pushed and `ending` the client's result; `Reliable` for an ordered lossless
  link, so that one told to be complete was played whole. `StreamCompletes`
  is the liveness half of that claim.
- `ImplementsAnyStream`: in every network the programs implement the unreliable
  `AudioStream`.
- `FieldsArrive`, `PaddingFollowsFields`: between hosts of any byte orders each packet
  that is not dropped is taken for what it is, with each field as it was set; what is sent before the
  data is the fields as `PROTOCOL.txt` draws them and two bytes that it does not draw (see below).
- `ClientAcksSession`: when no datagram outlives a session, the client's acknowledgements are of
  the session that runs. Over a delaying network only the weaker `AcksAreOfSent` holds.
- `StreamNeverStalls`: although a reordered ACK is dropped with the demand it
  carried, one ACK is always left that is not, as long as none is lost. `LossyInv` is the
  inductive invariant that says why.
- `PlayedInOrder`, `ConfigurationFirst`, `StreamIndex`, `ChunksAreAsked`, `AcksAreOfSent`,
  `OnlyResetsAfterReset`: what holds in every network. The last says that a session that has sent a reset
  sends nothing else until it is forgotten, even if it was begun by an ACK that overtook the SYN. It does not say
  that it is silent, which is not so (see below).
- `PlayingEnds`: what must happen in spite of losses.
- `NothingSkipped`, `FinAfterLast`, `StreamsAdvance`: what a peer cannot bring the
  server to do. `StreamsAdvance` speaks of packets that are not in flight already:
  sessions that begin anew send the same packets again.
- `AddingKeepsOrder`, `OthersStay`, `WithinCapacity`: the half of the heap that works.
- `SessionsAreWatched`, `NeverTimedOutEarly`, `ChainsHoldSessions`: why the server
  works in spite of stale heap entries: a session always has one, and one that
  comes up early is ignored or re-added.
- `SessionsAreForgotten`: when no more datagrams come every session is timed out, although the heap is
  out of order and its entries' keys have changed. It says no more than that, since a session may stay while
  others keep the server busy (see below).
- `DescriptorsAreOwned`: closing too much, the server never closes too little, on any
  path by which a session goes.
- `ImplementsSessions`: each address has a session of its own. A datagram changes only
  its sender's, and only as `SessionPerAddress` says, whatever memory it is in - unless the sender is mistaken for
  another host in the bucket, whose session it then changes.
- `NotReentrant`, `DemandIsMet`, `NothingIsLost`, `SilentWhenClosed`, `CallbacksReturn`:
  the contract of rxc.
- `ImplementsOnDemand`: back-pressure; the sink is never pushed more than it has pulled.
- `MappedInOrder`: elements pass the flows in the order the pipeline reads.
- `DescriptorsAreHeld`, `ReceivesFromSocket`: what is open the client still knows,
  through failing addresses, failing devices and connecting anew.
- `PlayedUnbroken`, `OnePullAhead`: what the device gets, and what the network sees of it.
- `CrashesAfterFailedWrite`: the one way in which a driver ends the client (see below).

### Where the code and its documents disagree

Three runs check a statement of a document or comment, and TLC finds a behaviour
of the code that contradicts it. The findings in `PROJECT.json` quote the lines.

| run | what the code does |
|---|---|
| `untold_refusal` | a file of the wrong format may be refused with error 0, which the client waits on until it times out, on a perfect link too |
| `colliding_hosts` | the comparison of addresses is true of different hosts: a client is given another host's session |
| `shared_descriptor` | a descriptor that was closed is closed again when it is another session's, and a third client's file is streamed to that one |

More disagreements follow from a line or two of the code and are in the models as
they are in the code, without a run of their own:

- A packet ahead of the expected one is accepted, and those it overtook are dropped
  for good while playing still succeeds (`client.c:189-199`; `PROTOCOL.txt:3` speaks of
  reliable transport). `Stream!Spec` with `Reliable` FALSE is what remains.
- Packets below the acknowledged position are dropped, not all that differ from it, so that duplicates pass
  when the numbers wrap (`client.c:184`, `session.c:280`; `PROTOCOL.txt:97-100`).
- The window is stored and never read: an ACK that closes it is answered by a chunk
  (`session.c:292, 361`; `PROTOCOL.txt:87-88`).
- Chunks lack the ACK flag (`session.c:206`; `PROTOCOL.txt:33`).
- The codec in the SYN-ACK is never assigned (`session.c:265`; `transport.h:121`).
- Chunks are announced to the sink 8 bytes too short (`client.c:252`; `chunk.h:17`).
- A session that has sent a reset because it was not begun by a SYN is kept, answers each ACK with another
  reset, and may be opened by a SYN with a later number (`session.c:306-309`; `PROTOCOL.txt:92-94`).
  `OnlyResetsAfterReset` bounds what becomes of it with `sas-client`, whose SYN is always its first packet.
- Sinking in the heap takes the left child where the right one is lower (`timeout.c:69`), and timeouts change
  inside the heap (`server.c:155`), so that the first entry need not be the lowest
  (`timeout.h:51`, `server.c:103`). A session may therefore never be timed out: when *b* has sent three
  datagrams, *s* one, and *b* goes on, the heap begins with b, b, b, s in each turn; equal keys swap (`timeout.c:42`), only
  the root sinks, and each entry that comes up is one of *b*, with a new timeout. Meanwhile none of *b*'s
  own entries expires either, so that the heap grows by one with each datagram.
- The heap holds sessions that were freed (`server.c:156`; `timeout.h:14`).
- After a write has failed the OSS driver cancels, yet chunks keep coming, because the client
  pushes to the sink and does not ask the connection (`client.c:250-256`). The next one cancels
  again, through the parent that is NULL by then (`oss.c:109-113`, `pipeline.c:113`). A chunk of at most 8
  bytes, the last of a file perhaps, counts as a failed write.
- Deallocating a pipeline frees neither its logics nor what it wraps ("including all its stages",
  `pipeline.h:107`): the OSS device stays open until the program exits (`Deallocates`).
- A failure that passes through `map` is handed on by way of the wrong structure (`map.c:51`; `SourceBreaksMap`).
- The empty source never completes (`empty.c:9-10`).
- The header is sent with two bytes of padding at its end, where the diagram has the data begin, with
  whatever is in memory (`transport.h:57`, `session.c:179`, `client.c:116`; `PROTOCOL.txt:20-22`). `PaddingFollowsFields`
  states what is sent.

## Theorems

Each holds for every value of the constants that meets the assumptions of the module: any
number of chunks, clients, sessions, descriptors, addresses, elements or flows.
Where a theorem states a property that a run checks it has its name in `PROJECT.json`.

| module | theorems |
|---|---|
| `StreamingProofs` | `Invariance`, `TypeCorrect`, `OrderedPlayback`, `ConfigurationComesFirst`, `ChunksAtTheirPlace`, `OneChunkPerDatagram`, `OnlySentIsAcked`, `ResetSessionsStayReset` |
| `DeliveryProofs` | `ImplementsReliableStream` and `ImplementsAudioStream`: `Streaming` implements `AudioStream`, completely over a link that neither loses nor reorders; `AcksBelongToSession`, `FlowIsKept`, `NeverStalls`; `EveryFieldArrives`, `FieldsThenPadding` |
| `ServerPeerProofs` | `NothingIsSkipped`, `FinComesLast`, `SessionGoesByStreams` |
| `SessionTableProofs` | lemmas on making and deleting sessions, for the next two |
| `SharedServerProofs` | `DescriptorsAreKept`, `DescriptorsStayOwned`, `SessionsAreDistinct`, `SessionsAreSeparate`: `SharedServer` implements `SessionPerAddress` |
| `ServerLoopProofs` | the heap alone: `HeapStaysWithin`, `NoneLostOrDoubled`, `OrderIsRestored`; the loop: `ChainsStayWhole`, `NoneTimedOutEarly`, `EachIsWatched`, `ArrayIsNotOverrun` |
| `PipelineProofs` | `NeverReentrant`, `NothingIsEverLost`, `PushedInOrder`, `ClosedIsSilent`, `DemandIsAlwaysMet`, `MappedInTheOrderMeant`; `ImplementsDemand`: `Pipeline` implements `OnDemand` |
| `ClientProgramProofs` | `DescriptorsStayHeld`, `SocketStaysOpen`, `AlwaysOnePullAhead`, `CrashesOnlyAfterFailedWrite`, `PlaysUnbroken` |

**Streaming.** The assumptions are those on the constants and `StreamFits`: neither stream is as
long as there are sequence numbers. It is needed: once numbers wrap, duplicates are
played again. A file of less than 4 GiB meets it.
`PlayedInOrder` is not inductive: what is played next depends on
what is in flight. `IInv` adds, conjunct by conjunct, what each part knows of the others:

- `InFlightInv`: every chunk in flight, of whichever session of the server, has the
  sequence number of its place in the file; SYN-ACKs are at 0; resets are within the
  stream. ACKs of the client lie between the end of its SYN and its own position.
- `SessionInv`: the position of an open session is that of the chunks it has read,
  and each took a datagram of its own after the SYN, so that `session.read` is bounded by
  what the client has sent; a session that has not begun
  has only sent resets, one for each ACK, and has acknowledged one, so that it is past the SYN (`ResetSessionsStayReset`).
- `ClientInv`: the client has sent two ACKs for each chunk and three for the
  configuration, and at most one chunk was pushed per position, so that its stream is bounded.
- `PushedInv`: all that has been pushed ends at or below the acknowledged position.

So a packet that passes the duplicate check starts at or above the end of everything
pushed, is the configuration if nothing has been pushed (chunks are sent only in
answer to ACKs, and ACKs only follow the configuration) and a later chunk otherwise.
The proof has a lemma for each action; those of the server share
`ServerAnswersInv`, those of the client `ClientAnswersInv`. TLC checks `IInv` in
`worst_network` first, on the hardest network.

**What the network owes.** `DeliveryInv` has an invariant for each thing that the network does not do, every
one on top of those before it.

- `ContentInv`, in any network: payloads go with their flags, FIN is at the end of the file, and an error
  is a refusal or a failed read.
- `UndelayedInv`, if not `Delayed`: all datagrams in flight are of the session there is. Both timeouts
  wait until nothing is in flight that anybody would answer, and so nothing survives a session.
- `FlowInv`, if not `Duplicating` either and until a datagram is lost: of a session that streams, at least
  one side has not yet heard the other's latest; it is in flight, and its duplicate check will not drop it, since packets do
  not overlap (`NoneOverlap`). So a stream that has begun is never silent, which is `NeverStalls`.
- `NoGapInv`, if `Ordered` and not `Lossy`: the packets in flight to the client follow each other from where it has
  acknowledged, so that each is the next one.

The theorems have these conditions as hypotheses. In a `Delayed` network acknowledgements of an earlier session
arrive and timeouts fire at any moment; in a `Duplicating` one a SYN is refused more than once, and `FlowInv` does
not hold; and a socket that fails with `ETIMEDOUT` (hence `ETIMEDOUT \notin SocketErrors` in `NeverStalls`) is not told
from a timeout. The run `lossy_link` meets all of them.
`LossyInv` puts together those that `lossy_link` checks; the proofs follow it.

For the refinement a push of a chunk is `Hear`: later than all before by `IInv`, and the next one by `NoGapInv`
if the stream is to be reliable. `result` is set once, which is `Complete` or `Abort`, and by
`ContentInv` and `NoGapInv` it is success only after the last chunk. Everything else is a stutter.
That an unreliable stream is implemented in every network (`ImplementsAudioStream`) follows, since what a
reliable stream does an unreliable one may do.

**Bytes.** What a conversion does to a member it undoes when applied again between the same two byte orders, and
`ContentInv` says that the receiver takes a payload for what it was sent as, so each member is converted
once on either side; padding is not converted and arrives as it was left. For the header, the flags fit into one byte, and the byte above it, which the
diagram draws as part of the same 16 bits, is the reserved one; the padding comes after them.

**ServerPeer.** The peer may be anyone and the network keeps all it was ever given, so that the packets in
flight are a log. `SessionInv` says that a session that streams has sent, itself or by an earlier session
of the same peer, all it has read, and `LogInv` that the chunks in the log are an
initial part of the file. Neither speaks of sequence numbers: they may wrap. `SessionGoesByStreams` does, and has as its hypothesis
`StreamsFit`: the peer's stream and one file together are shorter than the sequence numbers. A session's
position is bounded by what it has acknowledged and read (`StreamsInv`), since each reset before took a datagram.

**SessionTable.** `TableInv`: the chains hold the sessions allocated, each where its address is searched
for (`Chained`, `Linked`), and `addr_eq` tells each of them from all others (`Apart`), so that a deletion
finds what it frees. That holds although `addr_eq` calls any two hosts equal: a session is
appended only when the search has found none equal to it, so that a chain is always of one host.

**SessionFiles and SharedServer.** With its types `NoDescriptorIsLost` is inductive, since closing a
descriptor takes it from all sessions that share it at once. In `SharedServer` it takes
`TableInv` as well, for a session with a descriptor to be in the table.
For the refinement `RefInv` adds that a session without a file remembers none
(`NamesInv`). Each action then is a step of the abstract session of one
address and leaves the status of all others alone, or is a stutter; the lemmas on making and
deleting sessions carry this for all actions at once. Which address that is, `StopsAtServed` says: since
a chain is always of one host, the search stops at the sender's own session only if no other host has the bucket, and
at one of that host's otherwise (`GotServed`).

**ServerLoop.** A session's timeout is its last datagram's time and `SessionTimeout` (`TimesInv`), whether its
memory was used before or not. With `TableInv` that is all it takes for `NeverTimedOutEarly`: the entry that
comes up is compared with the timeout its session has now. Nothing is assumed of the heap.

That none is lost sight of takes the heap: `WatchInv` says that what is allocated is in the heap or waited for. The loops
of `UpHeap` and `Heapify` are recursive functions, each turn of which swaps two entries or none
(`RiseKeepsEntries`, `SinkKeepsEntries`); `Iteration` shows that such a function exists and has a value after each turn, and
`Induction` that what every turn keeps they all keep. So all entries remain, as often as they were there, whether the order is
right or not, which for `Heapify` it is not. That adding restores the order takes an invariant of the loop:
entries are in order but for the one that rises, whose children are in order with its parent. Sinking has no such theorem: it does
not restore the order (see above).

**Pipeline.** `Calls` says who may be on the stack above whom: the source is called by the loop, the
loop only by the outermost callback of the sink. Together with `wip` being TRUE exactly while the loop is on the
stack, nothing is entered twice. `DemandInv` says that what a source on the stack has left to emit
is at most the demand, so that each element emitted is taken, while the connection is open. Capping at
`LONG_MAX` keeps it true, since no pull is larger.

Demand is accounted for by `AccountInv`: what was pushed, what the source on the stack has left and the pulls in the queue
are all that was pulled. The sum over the queue is the existence of its partial sums (`SumsFrom`), which
adding a pull at the end extends and taking the first one shifts. When the stack is empty so is the queue, and all has been pushed.
For `OnDemand`, each push is a `Deliver`, covered by what was pulled.

`Connected` and `MappedBy` are iterations over the logics: the first reverses what was attached to the source, the second
collects the mappings and skips the scheduling sink. `StagesInv` says what `logics` then is: the reverse of the source's,
the scheduling sink, the sink's; its mappings are what `MappedInOrder` asks for.

**ClientProgram.** `SocketInv` and `DeviceInv` say which descriptors are open in which stage: in particular the
number the driver keeps after a failed write is never that of the socket. `PushInv` counts what became of
each push: missed, written, failed, or the end of the client.

Induction is not primitive here: the library's theorems on it take an operator as a parameter, which the provers cannot
instantiate. `Induction` and `InductionUpTo` are derived instead from the well-foundedness of the naturals, which is stated of a
relation, and speak of sets of numbers. With them, and operators that are recursive functions rather than
RECURSIVE, loops over data can be proved about: the heap, the flows, the partial sums of the queue.

Only model-checked are the liveness properties, which rest on fairness and ENABLED and are beyond this prover:
`StreamCompletes`, `PlayingEnds`, `SessionsAreForgotten` and `CallbacksReturn`. The refinements are proved of the steps; no
abstract specification states fairness. Every other property of the passing runs is a theorem.

## Not modelled

- The parsing of arguments in the two `main.c`, and the server's `main`; logging; the codec and filter interfaces,
  which nothing implements.
- `sas_server_init`, `_bind` and the other set-up and
  tear-down of the server: straight-line code without interaction. `sas_server_session_find` is never called.
- The fields of a WAVE file's header and the audio data.
- Failing allocations.
- The deallocation of sources, sinks and pipelines, but for the descriptors it closes: what it frees no one uses again.
- A length field that disagrees with the datagram it came in: peers here send well-formed packets.
- Fractions of a second in the server's `select`: the clock counts seconds, like `time(2)`.
- The growth of the heap with the number of datagrams, beyond the bound `MaxEntries`.

## Plan

Done, in this order: `Transport`, `Network` and the two sessions; `Streaming` with its
runs, its abstract specification and the inductive invariant; its proof;
`ServerPeer`; the server's heap, table and loop; descriptors; `Pipeline`; then `WireFormat`,
`SharedServer` with `SessionPerAddress`, `Stages`, `OnDemand` and `ClientProgram`; the
proofs about all of them, the heap and the bytes of packets included; four refinements among them.

Next, in order of importance:

1. Models: the WAVE header, as the conversions of `WireFormat` are; failing allocations in the
   server's loop.
2. Theorems: what of `FlowInv` remains in a network that duplicates, which would extend `NeverStalls` to it; what
   `Heapify` does restore of the order.
