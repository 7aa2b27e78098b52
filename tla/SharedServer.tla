---------------------------- MODULE SharedServer ----------------------------
(***************************************************************************)
(* One server with several clients: the hash table that finds the session  *)
(* of a datagram's sender, what the state machine does with the file of    *)
(* that session, and the deletion that undoes both (session.c).            *)
(*                                                                         *)
(* What is in the packets is in ServerSession, and when a session expires  *)
(* in ServerLoop; here a datagram may be any that its sender might send,   *)
(* and a session may expire at any time.                                   *)
(***************************************************************************)
EXTENDS SessionFiles, SessionTable

CONSTANT Timer  \* the sender of no datagram

ASSUME SendersAssumption == Addrs # {} /\ Timer \notin Addrs

VARIABLES
  table,  \* server->sessions and the addresses in the memory of the sessions
  event   \* the last datagram, as its sender and the file it asks for, or
          \* Timer when there was none: a history

sharedVars == <<vars, table, event>>

Datagram(from, name) == [from |-> from, name |-> name]

SharedInit ==
  /\ Init
  /\ table = EmptyTable([s \in Sessions |-> CHOOSE a \in Addrs : TRUE])
  /\ event = Datagram(Timer, Closed)

(* sas_server_session_delete: what it does not find it leaves alone.       *)
Removed(found, s) ==
  /\ table' = Deleted(found, s)
  /\ IF Stops(found, found.addr[s]) # {} /\ session[s].fd # -1
     THEN Deletes(s)
     ELSE UNCHANGED vars

(* A datagram from a that is dropped, that is no SYN where one is needed,  *)
(* or that pulls on a stream which has ended: it may create the session.   *)
Ignores(a) ==
  /\ \E s \in Gettable(table, a) : table' = Got(table, a, s)
  /\ event' = Datagram(a, Closed)
  /\ UNCHANGED vars

(* A SYN for a file that can be streamed, or for which there is no         *)
(* descriptor, which is no file, which is no WAVE file.                    *)
Begins(a, name) ==
  /\ \E s \in Gettable(table, a) : Opens(s, name) /\ table' = Got(table, a, s)
  /\ event' = Datagram(a, name)

Refuses(a, name) ==
  /\ \E s \in Gettable(table, a) :
       session[s].fd = -1 /\ Removed(Got(table, a, s), s)
  /\ event' = Datagram(a, name)

(* A datagram that pulls.                                                  *)
Pulls(a) ==
  /\ \E s \in Gettable(table, a) : Reads(s) \/ Finishes(s)
  /\ event' = Datagram(a, Closed)
  /\ UNCHANGED table

(* RST.                                                                    *)
Resets(a) ==
  /\ \E s \in Gettable(table, a) : Removed(Got(table, a, s), s)
  /\ event' = Datagram(a, Closed)

(* sas_server_timeout.                                                     *)
Expires(s) ==
  /\ s \in table.live
  /\ Removed(table, s)
  /\ event' = Datagram(Timer, Closed)

SharedNext ==
  \/ \E a \in Addrs :
       \/ Ignores(a)
       \/ \E name \in Files : Begins(a, name) \/ Refuses(a, name)
       \/ Pulls(a)
       \/ Resets(a)
  \/ \E s \in Sessions : Expires(s)

SharedSpec == SharedInit /\ [][SharedNext]_sharedVars

----------------------------------------------------------------------------
(* Every descriptor that is open belongs to a session that still streams   *)
(* and is in the table, so that a reset or the timeout will close it - on  *)
(* every path by which a session goes, and even when sessions close the    *)
(* descriptors of each other (session.c:157-164, wav.c:76, 84, 118).       *)
DescriptorsAreOwned ==
  \A fd \in Descriptors :
    file[fd] # Closed => \E s \in table.live : Streaming(s) /\ session[s].fd = fd

(* The session allocated for an address.                                   *)
Own(a) == {s \in table.live : table.addr[s] = a}

Status(s) ==
  [state |-> IF session[s].fd = -1 THEN "initial"
             ELSE IF Streaming(s) THEN "streaming" ELSE "ended",
   name |-> session[s].name]

StatusOf(a) ==
  IF Own(a) = {} THEN [state |-> "none", name |-> Closed]
  ELSE Status(CHOOSE s \in Own(a) : TRUE)

(* The hosts that share a bucket, which addr_eq takes for one another.     *)
OtherHosts(a) == {b \in Addrs : b.bucket = a.bucket /\ b.ip # a.ip}

PeerSessions == INSTANCE SessionPerAddress WITH
  Peers <- Addrs,
  Mistaken <- [a \in Addrs |-> OtherHosts(a)],
  Nobody <- Timer,
  NoFile <- Closed,
  status <- [a \in Addrs |-> StatusOf(a)]

(* Clients do not get into each other's way, through chains, memory used   *)
(* again and expiry: a datagram changes the session of its own sender      *)
(* alone, and a file is opened for whoever asked for it - but for one      *)
(* exception, a sender that comes to a bucket where another host has a     *)
(* session: it gets one of that host (session.c:65-78, 98-140).            *)
ImplementsSessions == PeerSessions!Spec
=============================================================================
