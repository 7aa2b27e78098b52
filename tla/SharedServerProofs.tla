------------------------- MODULE SharedServerProofs -------------------------
(***************************************************************************)
(* However many clients, sessions and descriptors there are: a descriptor  *)
(* is open only while a session in the table streams from it, and the      *)
(* server implements a session for each address.                           *)
(*                                                                         *)
(* What the sessions do with the descriptors are steps of SessionFiles,    *)
(* whose invariant carries over.  That a session with a descriptor is in   *)
(* the table takes that a deletion unlinks the session it frees and no     *)
(* other, as SessionTableProofs has it.  The refinement is a step          *)
(* simulation: a datagram and a timeout leave the sessions of all          *)
(* addresses but one alone, and change that one as SessionPerAddress says. *)
(***************************************************************************)
EXTENDS SharedServer, SessionTableProofs

----------------------------------------------------------------------------
(* The files of the sessions: although sessions close the descriptors of   *)
(* each other, none stays open that no session will close.                 *)

Inv == TypeOK /\ NoDescriptorIsLost

(* No session has a descriptor before the server runs.                     *)
LEMMA InitInv == Init => Inv
BY DescriptorsAssumption DEF Init, Inv, TypeOK, SessionTypes, NoDescriptorIsLost, NoSession

(* A file that is opened has the new session for its owner; the session    *)
(* that is replaced did not stream (session.c:321-339).                    *)
LEMMA OpensInv ==
  ASSUME Inv, NEW s \in Sessions, NEW name \in Files, Opens(s, name)
  PROVE  Inv'
<1> USE DescriptorsAssumption DEF Inv, TypeOK, SessionTypes
<1> DEFINE opened(fd) == [fd |-> fd, finished |-> FALSE, name |-> name]
<1>1. PICK fd \in Lowest :
        /\ file' = [file EXCEPT ![fd] = name]
        /\ session' = [session EXCEPT ![s] = opened(fd)]
  BY DEF Opens
<1>2. fd \in Descriptors
  BY DEF Lowest, Free
<1>3. TypeOK'
  BY <1>1, <1>2
<1>4. NoDescriptorIsLost'
  <2> SUFFICES ASSUME NEW other \in Descriptors, file'[other] # Closed
               PROVE  \E t \in Sessions : Streaming(t)' /\ session'[t].fd = other
    BY DEF NoDescriptorIsLost
  <2>1. CASE other = fd
    <3>1. session'[s] = opened(fd)
      BY <1>1
    <3> QED
      BY <2>1, <3>1, <1>2 DEF Streaming
  <2>2. CASE other # fd
    <3>1. PICK t \in Sessions : Streaming(t) /\ session[t].fd = other
      BY <2>2, <1>1, <1>2 DEF NoDescriptorIsLost
    <3>2. t # s
      BY <3>1 DEF Opens, Streaming
    <3> QED
      BY <3>1, <3>2, <1>1 DEF Streaming
  <2> QED
    BY <2>1, <2>2
<1> QED
  BY <1>3, <1>4

(* Closing a descriptor takes it from all the sessions that share it; the  *)
(* other descriptors keep the owners they have.  This is what the end of   *)
(* the file and the deletion of a session have in common (wav.c:76, 83,    *)
(* session.c:157-162).                                                     *)
LEMMA ClosingInv ==
  ASSUME Inv, NEW s \in Sessions, NEW after \in SessionTypes,
         file' = AfterClose({session[s].fd}),
         session' = [session EXCEPT ![s] = after]
  PROVE  Inv'
<1> USE DEF Inv, TypeOK
<1>1. TypeOK'
  BY DEF AfterClose
<1>2. NoDescriptorIsLost'
  <2> SUFFICES ASSUME NEW fd \in Descriptors, file'[fd] # Closed
               PROVE  \E t \in Sessions : Streaming(t)' /\ session'[t].fd = fd
    BY DEF NoDescriptorIsLost
  <2>1. fd # session[s].fd /\ file[fd] # Closed
    BY DEF AfterClose
  <2>2. PICK t \in Sessions : Streaming(t) /\ session[t].fd = fd
    BY <2>1 DEF NoDescriptorIsLost
  <2>3. t # s
    BY <2>1, <2>2
  <2> QED
    BY <2>2, <2>3 DEF Streaming
<1> QED
  BY <1>1, <1>2

(* The invariant is inductive.                                             *)
LEMMA NextInv == Inv /\ [Next]_vars => Inv'
<1> SUFFICES ASSUME Inv, [Next]_vars
             PROVE  Inv'
  OBVIOUS
<1>1. ASSUME NEW s \in Sessions, NEW name \in Files, Opens(s, name)
      PROVE  Inv'
  BY <1>1, OpensInv
<1>2. ASSUME NEW s \in Sessions, Reads(s)
      PROVE  Inv'
  BY <1>2 DEF Reads, Inv, TypeOK, NoDescriptorIsLost, Streaming
<1>3. ASSUME NEW s \in Sessions, Finishes(s)
      PROVE  Inv'
  <2> DEFINE after == [session[s] EXCEPT !.finished = TRUE]
  <2>1. after \in SessionTypes
    BY DEF SessionTypes, Inv, TypeOK
  <2>2. session' = [session EXCEPT ![s] = after]
    BY <1>3 DEF Finishes
  <2>3. file' = AfterClose({session[s].fd})
    BY <1>3 DEF Finishes
  <2> HIDE DEF after
  <2> QED
    BY <2>1, <2>2, <2>3, ClosingInv
<1>4. ASSUME NEW s \in Sessions, Deletes(s)
      PROVE  Inv'
  <2>1. NoSession \in SessionTypes
    BY DEF SessionTypes, NoSession
  <2> QED
    BY <1>4, <2>1, ClosingInv DEF Deletes
<1>5. CASE UNCHANGED vars
  BY <1>5 DEF vars, Inv, TypeOK, NoDescriptorIsLost, Streaming
<1> QED
  BY <1>1, <1>2, <1>3, <1>4, <1>5 DEF Next

(* Every descriptor that is open belongs to a session that still streams,  *)
(* and is closed at the latest when that one is deleted (session.c:157-162,*)
(* wav.c:76, 83, 118).                                                     *)
THEOREM DescriptorsAreKept == Spec => []NoDescriptorIsLost
<1>1. Spec => []Inv
  BY InitInv, NextInv, PTL DEF Spec
<1>2. Inv => NoDescriptorIsLost
  BY DEF Inv
<1> QED
  BY <1>1, <1>2, PTL

----------------------------------------------------------------------------
(* The server.                                                             *)

SharedInv ==
  /\ Inv
  /\ TableInv(Sessions, table)
  /\ \A s \in Sessions : session[s].fd # -1 => s \in table.live

LEMMA FoundInTable ==
  ASSUME NEW t, TableInv(Sessions, t)
  PROVE  \A s \in t.live : \E i \in 1..Len(t.chain[t.addr[s].bucket]) :
           t.chain[t.addr[s].bucket][i] = s /\ Stops(t, t.addr[s]) = {i}
BY FoundAtOwn

LEMMA SharedInitInv == SharedInit => SharedInv
<1> SUFFICES ASSUME SharedInit PROVE SharedInv
  OBVIOUS
<1> DEFINE any == CHOOSE a \in Addrs : TRUE
<1>1. any \in Addrs
  BY SendersAssumption
<1>2. table = EmptyTable([s \in Sessions |-> any])
  BY DEF SharedInit
<1> HIDE DEF any
<1>3. TableInv(Sessions, table)
  BY <1>1, <1>2, EmptyTableInv
<1> QED
  BY <1>3, InitInv DEF SharedInit, SharedInv, Init, NoSession

(* A deletion keeps the invariant, whatever it begins with.                *)
LEMMA RemovedInv ==
  ASSUME Inv, NEW found, TableInv(Sessions, found), NEW s \in found.live,
         \A r \in Sessions : session[r].fd # -1 => r \in found.live,
         Removed(found, s)
  PROVE  SharedInv'
<1>1. s \in Sessions
  BY DEF TableInv, TableTypes
<1>2. TableInv(Sessions, table') /\ table'.live = found.live \ {s}
  BY DeletedInv DEF Removed
<1>3. Stops(found, found.addr[s]) # {}
  <2>1. PICK i \in 1..Len(found.chain[found.addr[s].bucket]) :
          /\ found.chain[found.addr[s].bucket][i] = s
          /\ Stops(found, found.addr[s]) = {i}
    BY FoundAtOwn
  <2> QED
    BY <2>1
<1>4. Deletes(s) \/ (UNCHANGED vars /\ session[s].fd = -1)
  BY <1>3 DEF Removed
<1>5. [Next]_vars
  BY <1>1, <1>4 DEF Next
<1>6. Inv'
  BY <1>5, NextInv
<1>7. session'[s].fd = -1 /\ \A r \in Sessions : r # s => session'[r] = session[r]
  <2>1. CASE Deletes(s)
    <3>1. session' = [session EXCEPT ![s] = NoSession]
      BY <2>1 DEF Deletes
    <3>2. NoSession.fd = -1
      BY DEF NoSession
    <3> QED
      BY <1>1, <3>1, <3>2 DEF Inv, TypeOK
  <2>2. CASE UNCHANGED vars /\ session[s].fd = -1
    BY <2>2 DEF vars
  <2> QED
    BY <1>4, <2>1, <2>2
<1>8. \A r \in Sessions : session'[r].fd # -1 => r \in table'.live
  BY <1>2, <1>7
<1> QED
  BY <1>2, <1>6, <1>8 DEF SharedInv, TableInv, TableTypes, Chained, Apart, Linked

(* The invariant is inductive.                                             *)
LEMMA SharedNextInv == SharedInv /\ [SharedNext]_sharedVars => SharedInv'
<1> SUFFICES ASSUME SharedInv, [SharedNext]_sharedVars
             PROVE  SharedInv'
  OBVIOUS
<1> USE DEF SharedInv
<1>1. ASSUME NEW a \in Addrs, Ignores(a)
      PROVE  SharedInv'
  <2>1. PICK s \in Gettable(table, a) : table' = Got(table, a, s)
    BY <1>1 DEF Ignores
  <2>2. TableInv(Sessions, table') /\ table.live \subseteq table'.live
    BY <2>1, GotInv
  <2>3. Inv' /\ session' = session
    BY <1>1, NextInv DEF Ignores, vars
  <2> QED
    BY <2>2, <2>3 DEF TableInv, TableTypes, Chained, Apart, Linked
<1>2. ASSUME NEW a \in Addrs, NEW name \in Files, Begins(a, name)
      PROVE  SharedInv'
  <2>1. PICK s \in Gettable(table, a) : Opens(s, name) /\ table' = Got(table, a, s)
    BY <1>2 DEF Begins
  <2>2. TableInv(Sessions, table') /\ s \in table'.live /\ table.live \subseteq table'.live
    BY <2>1, GotInv
  <2>3. s \in Sessions
    BY <2>2 DEF TableInv, TableTypes
  <2>4. Inv'
    BY <2>1, <2>3, NextInv DEF Next
  <2>5. \A r \in Sessions : r # s => session'[r] = session[r]
    BY <2>1 DEF Opens, Inv, TypeOK
  <2> QED
    BY <2>2, <2>4, <2>5 DEF TableInv, TableTypes, Chained, Apart, Linked
<1>3. ASSUME NEW a \in Addrs, NEW s \in Gettable(table, a), Removed(Got(table, a, s), s)
      PROVE  SharedInv'
  <2>1. /\ TableInv(Sessions, Got(table, a, s))
        /\ s \in Got(table, a, s).live
        /\ table.live \subseteq Got(table, a, s).live
    BY GotInv
  <2> QED
    BY <1>3, <2>1, RemovedInv
<1>4. ASSUME NEW a \in Addrs, Pulls(a)
      PROVE  SharedInv'
  <2>1. PICK s \in Gettable(table, a) : Reads(s) \/ Finishes(s)
    BY <1>4 DEF Pulls
  <2>2. s \in Sessions
    BY GotInv DEF Gettable, TableInv, TableTypes
  <2>3. Inv'
    BY <2>1, <2>2, NextInv DEF Next
  <2>4. \A r \in Sessions : session'[r].fd = session[r].fd
    <3>1. CASE Reads(s)
      BY <3>1 DEF Reads
    <3>2. CASE Finishes(s)
      <4>1. session' = [session EXCEPT ![s] = [session[s] EXCEPT !.finished = TRUE]]
        BY <3>2 DEF Finishes
      <4>2. [session[s] EXCEPT !.finished = TRUE].fd = session[s].fd
        BY <2>2 DEF Inv, TypeOK, SessionTypes
      <4> QED
        BY <2>2, <4>1, <4>2 DEF Inv, TypeOK
    <3> QED
      BY <2>1, <3>1, <3>2
  <2> QED
    BY <1>4, <2>3, <2>4 DEF Pulls, TableInv, TableTypes, Chained, Apart, Linked
<1>5. ASSUME NEW s \in Sessions, Expires(s)
      PROVE  SharedInv'
  BY <1>5, RemovedInv DEF Expires
<1>6. CASE UNCHANGED sharedVars
  <2>1. Inv' /\ session' = session /\ table' = table
    BY <1>6, NextInv DEF sharedVars, vars
  <2> QED
    BY <2>1 DEF TableInv, TableTypes, Chained, Apart, Linked
<1> QED
  BY <1>1, <1>2, <1>3, <1>4, <1>5, <1>6 DEF SharedNext, Refuses, Resets

(* Every descriptor that is open belongs to a session that still streams   *)
(* and that a reset or the timeout will find (session.c:157-164,           *)
(* wav.c:76, 84, 118).                                                     *)
THEOREM DescriptorsStayOwned == SharedSpec => []DescriptorsAreOwned
<1>1. SharedInit => SharedInv
  BY SharedInitInv
<1>2. SharedInv => DescriptorsAreOwned
  BY DEF SharedInv, Inv, TypeOK, SessionTypes, NoDescriptorIsLost, DescriptorsAreOwned, Streaming
<1> QED
  BY <1>1, <1>2, SharedNextInv, PTL DEF SharedSpec

(* No two sessions in the table have the same address: whatever was made,  *)
(* deleted and made anew, a client has at most one (session.c:98-140).     *)
THEOREM SessionsAreDistinct ==
  SharedSpec => [](\A a \in Addrs : \A s, r \in Own(a) : s = r)
<1>1. SharedInit => SharedInv
  BY SharedInitInv
<1>2. SharedInv => \A a \in Addrs : \A s, r \in Own(a) : s = r
  <2> SUFFICES ASSUME TableInv(Sessions, table), NEW a \in Addrs, NEW s \in Own(a), NEW r \in Own(a)
               PROVE  s = r
    BY DEF SharedInv
  <2>1. s \in table.live /\ r \in table.live /\ table.addr[s] = a /\ table.addr[r] = a
    BY DEF Own
  <2>2. PICK i \in 1..Len(table.chain[table.addr[s].bucket]) :
          /\ table.chain[table.addr[s].bucket][i] = s
          /\ Stops(table, table.addr[s]) = {i}
    BY <2>1, FoundInTable
  <2>3. PICK j \in 1..Len(table.chain[table.addr[r].bucket]) :
          /\ table.chain[table.addr[r].bucket][j] = r
          /\ Stops(table, table.addr[r]) = {j}
    BY <2>1, FoundInTable
  <2> QED
    BY <2>1, <2>2, <2>3
<1> QED
  BY <1>1, <1>2, SharedNextInv, PTL DEF SharedSpec

----------------------------------------------------------------------------
(* The refinement.                                                         *)

OwnIn(t, a) == {s \in t.live : t.addr[s] = a}

(* What a session that has no file knows of none.                          *)
NamesInv == \A s \in Sessions : session[s].fd = -1 => session[s] = NoSession

RefInv == SharedInv /\ NamesInv

----------------------------------------------------------------------------
(* The table, by address.                                                  *)

LEMMA OwnIsOne ==
  ASSUME NEW t, TableInv(Sessions, t), NEW a, NEW s \in OwnIn(t, a)
  PROVE  OwnIn(t, a) = {s}
<1>1. ASSUME NEW r \in OwnIn(t, a) PROVE r = s
  <2>1. s \in t.live /\ r \in t.live /\ t.addr[s] = a /\ t.addr[r] = a
    BY DEF OwnIn
  <2>2. PICK i \in 1..Len(t.chain[t.addr[s].bucket]) :
          t.chain[t.addr[s].bucket][i] = s /\ Stops(t, t.addr[s]) = {i}
    BY <2>1, FoundInTable
  <2>3. PICK j \in 1..Len(t.chain[t.addr[r].bucket]) :
          t.chain[t.addr[r].bucket][j] = r /\ Stops(t, t.addr[r]) = {j}
    BY <2>1, FoundInTable
  <2> QED
    BY <2>1, <2>2, <2>3
<1> QED
  BY <1>1

(* A search stops at the session of the address it is for, and then no     *)
(* other host has one in the bucket; or else at one of another host.       *)
LEMMA StopsAtServed ==
  ASSUME NEW t, TableInv(Sessions, t), NEW a \in Addrs, NEW i \in Stops(t, a),
         NEW s, s = t.chain[a.bucket][i]
  PROVE  /\ s \in t.live /\ t.addr[s] \in Addrs
         /\ t.addr[s] # a => t.addr[s] \in OtherHosts(a)
         /\ t.addr[s] = a => \A c \in OtherHosts(a) : OwnIn(t, c) = {}
<1> DEFINE chain == t.chain[a.bucket]
<1>1. a.bucket \in Buckets
  BY AddrBucket
<1>2. i \in 1..Len(chain) /\ chain[i] = s /\ AddrEq(t.addr[s], a)
  BY DEF Stops
<1>3. s \in t.live /\ t.addr[s].bucket = a.bucket
  BY <1>1, <1>2 DEF TableInv, Chained
<1>4. t.addr[s] \in Addrs
  BY <1>3 DEF TableInv, TableTypes
<1>5. ASSUME t.addr[s] # a PROVE t.addr[s] \in OtherHosts(a)
  <2>1. t.addr[s].ip # a.ip
    BY <1>2, <1>4, <1>5, AddrsAssumption DEF AddrEq
  <2> QED
    BY <1>3, <1>4, <2>1 DEF OtherHosts
<1>6. ASSUME t.addr[s] = a, NEW c \in OtherHosts(a), NEW r \in OwnIn(t, c) PROVE FALSE
  <2>1. r \in t.live /\ t.addr[r] = c /\ c.bucket = a.bucket /\ c.ip # a.ip
    BY DEF OwnIn, OtherHosts
  <2>2. PICK k \in 1..Len(chain) : chain[k] = r
    BY <2>1 DEF TableInv, Linked
  <2>3. AddrEq(t.addr[chain[k]], t.addr[chain[i]])
    BY <1>2, <1>6, <2>1, <2>2 DEF AddrEq
  <2>4. k = i
    BY <1>1, <1>2, <2>2, <2>3 DEF TableInv, Apart
  <2> QED
    BY <1>2, <1>6, <2>1, <2>2, <2>4
<1> QED
  BY <1>3, <1>4, <1>5, <1>6

(* sas_server_session_get: a session, which may be new, and its address,   *)
(* which may be another than the sender's.                                 *)
Subject(t, a, s) == Got(t, a, s).addr[s]

LEMMA GotOwn ==
  ASSUME NEW t, TableInv(Sessions, t), NEW a \in Addrs, NEW s \in Gettable(t, a),
         NEW b, b = Subject(t, a, s)
  PROVE  /\ b \in Addrs
         /\ OwnIn(Got(t, a, s), b) = {s}
         /\ \A c \in Addrs : c # b => OwnIn(Got(t, a, s), c) = OwnIn(t, c)
         /\ OwnIn(t, b) = {s} \/ (OwnIn(t, b) = {} /\ s \notin t.live)
         /\ b # a => b \in OtherHosts(a) /\ OwnIn(t, b) = {s}
         /\ b = a => \A c \in OtherHosts(a) : OwnIn(t, c) = {}
<1>1. CASE Stops(t, a) # {}
  <2>1. PICK i \in Stops(t, a) : s = t.chain[a.bucket][i]
    BY <1>1 DEF Gettable
  <2>2. Got(t, a, s) = t
    BY <1>1 DEF Got
  <2>3. b = t.addr[s]
    BY <2>2 DEF Subject
  <2>4. /\ s \in t.live /\ b \in Addrs
        /\ b # a => b \in OtherHosts(a)
        /\ b = a => \A c \in OtherHosts(a) : OwnIn(t, c) = {}
    BY <2>1, <2>3, StopsAtServed
  <2>5. s \in OwnIn(t, b)
    BY <2>3, <2>4 DEF OwnIn
  <2>6. OwnIn(t, b) = {s}
    BY <2>5, OwnIsOne
  <2> QED
    BY <2>2, <2>4, <2>6
<1>2. CASE Stops(t, a) = {}
  <2>1. s \in Sessions /\ s \notin t.live
    BY <1>2 DEF Gettable, TableInv, TableTypes
  <2>2. ASSUME NEW c, c = a \/ c \in OtherHosts(a), NEW r \in OwnIn(t, c) PROVE FALSE
    <3>1. r \in t.live /\ t.addr[r] = c /\ c.bucket = a.bucket /\ AddrEq(c, a)
      BY <2>2 DEF OwnIn, OtherHosts, AddrEq
    <3>2. PICK k \in 1..Len(t.chain[a.bucket]) : t.chain[a.bucket][k] = r
      BY <3>1 DEF TableInv, Linked
    <3> QED
      BY <1>2, <3>1, <3>2, SearchStops
  <2> DEFINE u == Got(t, a, s)
  <2>3. u.live = t.live \cup {s} /\ u.addr = [t.addr EXCEPT ![s] = a]
    BY <1>2 DEF Got
  <2>4. t.addr \in [Sessions -> Addrs] /\ t.live \subseteq Sessions
    BY DEF TableInv, TableTypes
  <2>5. b = u.addr[s]
    BY DEF Subject
  <2> HIDE DEF u
  <2>6. b = a /\ \A r \in t.live : u.addr[r] = t.addr[r]
    BY <2>1, <2>3, <2>4, <2>5
  <2>7. OwnIn(u, b) = {s}
    BY <2>2, <2>3, <2>5, <2>6 DEF OwnIn
  <2>8. ASSUME NEW c \in Addrs, c # b PROVE OwnIn(u, c) = OwnIn(t, c)
    BY <2>3, <2>5, <2>6, <2>8 DEF OwnIn
  <2>9. OwnIn(t, b) = {} /\ \A c \in OtherHosts(a) : OwnIn(t, c) = {}
    BY <2>2, <2>6
  <2> QED
    BY <2>1, <2>6, <2>7, <2>8, <2>9 DEF u
<1> QED
  BY <1>1, <1>2

(* A deletion takes one session from its address.                          *)
LEMMA RemovedOwn ==
  ASSUME Inv, NamesInv, NEW found, TableInv(Sessions, found), NEW s \in found.live, Removed(found, s)
  PROVE  /\ OwnIn(table', found.addr[s]) = {}
         /\ \A b \in Addrs : b # found.addr[s] => OwnIn(table', b) = OwnIn(found, b)
         /\ \A r \in Sessions : r # s => session'[r] = session[r]
         /\ NamesInv'
<1> DEFINE a == found.addr[s]
<1>1. s \in Sessions
  BY DEF TableInv, TableTypes
<1>2. PICK i \in 1..Len(found.chain[a.bucket]) :
        found.chain[a.bucket][i] = s /\ Stops(found, a) = {i}
  BY FoundAtOwn
<1>3. Stops(found, a) # {}
  BY <1>2
<1>4. table' = Deleted(found, s) /\ (Deletes(s) \/ UNCHANGED vars)
  BY <1>3 DEF Removed
<1>5. table'.live = found.live \ {s} /\ table'.addr = found.addr
  <2>1. table'.live = found.live \ {s}
    BY <1>4, DeletedInv
  <2>2. Deleted(found, s).addr = found.addr
    BY <1>3 DEF Deleted
  <2> QED
    BY <1>4, <2>1, <2>2
<1>6. s \in OwnIn(found, a)
  BY DEF OwnIn
<1>7. OwnIn(found, a) = {s}
  BY <1>6, OwnIsOne
<1>8. OwnIn(table', a) = {}
  BY <1>5, <1>7 DEF OwnIn
<1>9. ASSUME NEW b \in Addrs, b # a PROVE OwnIn(table', b) = OwnIn(found, b)
  BY <1>5, <1>9 DEF OwnIn
<1>10. session' = session \/ session' = [session EXCEPT ![s] = NoSession]
  BY <1>4 DEF Deletes, vars
<1>11. /\ \A r \in Sessions : r # s => session'[r] = session[r]
       /\ session'[s] = session[s] \/ session'[s] = NoSession
  BY <1>1, <1>10 DEF Inv, TypeOK
<1>12. NamesInv'
  BY <1>1, <1>11 DEF NamesInv, NoSession
<1> QED
  BY <1>8, <1>9, <1>11, <1>12

----------------------------------------------------------------------------
(* The abstract sessions.                                                  *)

Statuses == [a \in Addrs |-> StatusOf(a)]

None == [state |-> "none", name |-> Closed]

LEMMA StatusOfNone == ASSUME NEW a, Own(a) = {} PROVE StatusOf(a) = None
BY DEF StatusOf, None

LEMMA StatusOfOne == ASSUME NEW a, NEW s, Own(a) = {s} PROVE StatusOf(a) = Status(s)
<1>1. (CHOOSE r \in Own(a) : TRUE) = s
  OBVIOUS
<1> QED
  BY <1>1 DEF StatusOf

LEMMA StatusOfOneAfter ==
  ASSUME NEW a, NEW s, Own(a)' = {s} PROVE StatusOf(a)' = Status(s)'
<1>1. (CHOOSE r \in Own(a)' : TRUE) = s
  OBVIOUS
<1> QED
  BY <1>1 DEF StatusOf

(* An address whose session is left alone keeps its status.                *)
LEMMA StatusKept ==
  ASSUME SharedInv, NEW a \in Addrs, Own(a)' = Own(a),
         \A r \in Own(a) : session'[r] = session[r]
  PROVE  StatusOf(a)' = StatusOf(a)
<1>1. CASE Own(a) = {}
  BY <1>1 DEF StatusOf
<1>2. CASE Own(a) # {}
  <2>1. PICK s : s \in Own(a)
    BY <1>2
  <2>2. s \in OwnIn(table, a) /\ TableInv(Sessions, table)
    BY <2>1 DEF Own, OwnIn, SharedInv
  <2>3. Own(a) = {s}
    BY <2>2, OwnIsOne DEF Own, OwnIn
  <2>4. StatusOf(a) = Status(s) /\ StatusOf(a)' = Status(s)'
    BY <2>3, StatusOfOne, StatusOfOneAfter
  <2> QED
    BY <2>1, <2>4 DEF Status, Streaming
<1> QED
  BY <1>1, <1>2

(* A step changes at most the status of one address.                       *)
LEMMA OneChanges ==
  ASSUME SharedInv, NEW a \in Addrs,
         \A b \in Addrs : b # a =>
           Own(b)' = Own(b) /\ \A r \in Own(b) : session'[r] = session[r]
  PROVE  Statuses' = [Statuses EXCEPT ![a] = StatusOf(a)']
<1>1. \A b \in Addrs : b # a => StatusOf(b)' = StatusOf(b)
  BY StatusKept
<1> QED
  BY <1>1 DEF Statuses

LEMMA OwnOther ==
  ASSUME NEW a, NEW b, a # b, NEW s \in Own(a), NEW r \in Own(b) PROVE s # r
BY DEF Own

(* What a status says of the session's descriptor.                         *)
LEMMA StatusIs ==
  ASSUME SharedInv, NamesInv, NEW s \in Sessions
  PROVE  /\ Status(s).state \in {"initial", "streaming", "ended"}
         /\ session[s].fd = -1 <=> Status(s).state = "initial"
         /\ session[s].fd = -1 => Status(s) = [state |-> "initial", name |-> Closed]
         /\ Streaming(s) <=> Status(s).state = "streaming"
         /\ Status(s).name = session[s].name
BY DEF Status, Streaming, NamesInv, NoSession

----------------------------------------------------------------------------
(* An address has a status other than none when it has a session.          *)
LEMMA StatusOfAny ==
  ASSUME RefInv, NEW a \in Addrs PROVE StatusOf(a).state = "none" <=> Own(a) = {}
<1>1. CASE Own(a) = {}
  BY <1>1, StatusOfNone DEF None
<1>2. CASE Own(a) # {}
  <2>1. PICK s : s \in Own(a)
    BY <1>2
  <2>2. s \in OwnIn(table, a) /\ TableInv(Sessions, table) /\ s \in Sessions
    BY <2>1 DEF Own, OwnIn, RefInv, SharedInv, TableInv, TableTypes
  <2>3. Own(a) = {s}
    BY <2>2, OwnIsOne DEF Own, OwnIn
  <2>4. StatusOf(a).state = Status(s).state
    BY <2>3, StatusOfOne
  <2> QED
    BY <1>2, <2>2, <2>4, StatusIs DEF RefInv
<1> QED
  BY <1>1, <1>2

(* The session that a datagram gets is that of one of those its sender may *)
(* be served as.                                                           *)
LEMMA GotServed ==
  ASSUME RefInv, NEW a \in Addrs, NEW s \in Gettable(table, a),
         NEW b, b = Subject(table, a, s)
  PROVE  b \in Addrs /\ b \in PeerSessions!Served(a)
<1>1. TableInv(Sessions, table)
  BY DEF RefInv, SharedInv
<1>2. /\ b \in Addrs
      /\ b # a => b \in OtherHosts(a) /\ Own(b) = {s}
      /\ b = a => \A c \in OtherHosts(a) : Own(c) = {}
  BY <1>1, GotOwn DEF Own, OwnIn
<1>3. OtherHosts(a) \subseteq Addrs
  BY DEF OtherHosts
<1> DEFINE others == {q \in OtherHosts(a) : StatusOf(q).state # "none"}
<1>4. others = {q \in OtherHosts(a) : Own(q) # {}}
  BY <1>3, StatusOfAny
<1>5. PeerSessions!Served(a) = IF others = {} THEN {a} ELSE others
  <2>1. [x \in Addrs |-> OtherHosts(x)][a] = OtherHosts(a)
    OBVIOUS
  <2>2. {q \in OtherHosts(a) : [x \in Addrs |-> StatusOf(x)][q].state # "none"} = others
    BY <1>3
  <2> QED
    BY <2>1, <2>2 DEF PeerSessions!Served
<1> HIDE DEF others
<1>6. CASE b = a
  BY <1>2, <1>4, <1>5, <1>6
<1>7. CASE b # a
  BY <1>2, <1>4, <1>5, <1>7
<1> QED
  BY <1>2, <1>6, <1>7

(* The status of that address before sas_server_session_get.               *)
LEMMA GotStatus ==
  ASSUME RefInv, NEW a \in Addrs, NEW s \in Gettable(table, a),
         NEW b, b = Subject(table, a, s)
  PROVE  /\ s \in Sessions
         /\ \/ Own(b) = {s} /\ StatusOf(b) = Status(s)
            \/ Own(b) = {} /\ s \notin table.live /\ StatusOf(b) = None /\ session[s].fd = -1
<1>1. TableInv(Sessions, table)
  BY DEF RefInv, SharedInv
<1>2. s \in Sessions
  <2>1. s \in Got(table, a, s).live /\ TableInv(Sessions, Got(table, a, s))
    BY <1>1, GotInv
  <2> QED
    BY <2>1 DEF TableInv, TableTypes
<1>3. Own(b) = {s} \/ (Own(b) = {} /\ s \notin table.live)
  BY <1>1, GotOwn DEF Own, OwnIn
<1>4. s \notin table.live => session[s].fd = -1
  BY <1>2 DEF RefInv, SharedInv
<1> QED
  BY <1>2, <1>3, <1>4, StatusOfOne, StatusOfNone

LEMMA GotOthers ==
  ASSUME RefInv, NEW a \in Addrs, NEW s \in Gettable(table, a),
         NEW b, b = Subject(table, a, s), table' = Got(table, a, s)
  PROVE  Own(b)' = {s} /\ \A c \in Addrs : c # b => Own(c)' = Own(c)
BY GotOwn DEF RefInv, SharedInv, Own, OwnIn

LEMMA IgnoresSimulated ==
  ASSUME RefInv, NEW a \in Addrs, Ignores(a)
  PROVE  \E b \in PeerSessions!Served(a) : PeerSessions!Greets(a, b)
<1>1. PICK s \in Gettable(table, a) : table' = Got(table, a, s)
  BY DEF Ignores
<1>2. PICK b : b = Subject(table, a, s)
  OBVIOUS
<1>3. b \in Addrs /\ b \in PeerSessions!Served(a)
  BY <1>2, GotServed
<1>4. session' = session /\ event' = Datagram(a, Closed)
  BY DEF Ignores, vars
<1>5. Own(b)' = {s} /\ \A c \in Addrs : c # b => Own(c)' = Own(c)
  BY <1>1, <1>2, GotOthers
<1>6. Statuses' = [Statuses EXCEPT ![b] = StatusOf(b)']
  BY <1>3, <1>4, <1>5, OneChanges DEF RefInv
<1>7. StatusOf(b)' = Status(s)
  <2>1. StatusOf(b)' = Status(s)'
    BY <1>5, StatusOfOneAfter
  <2>2. Status(s)' = Status(s)
    BY <1>4 DEF Status, Streaming
  <2> QED
    BY <2>1, <2>2
<1>8. s \in Sessions
  BY <1>2, GotStatus
<1>9. PeerSessions!Greets(a, b)
  <2>1. CASE StatusOf(b) = Status(s)
    <3>1. Status(s).state # "none"
      BY <1>8, StatusIs DEF RefInv
    <3>2. Statuses' = Statuses /\ Statuses[b].state # "none"
      BY <1>3, <1>6, <1>7, <2>1, <3>1 DEF Statuses
    <3> QED
      BY <1>4, <3>2 DEF PeerSessions!Greets, Datagram, Statuses
  <2>2. CASE StatusOf(b) = None /\ session[s].fd = -1
    <3>1. Status(s) = [state |-> "initial", name |-> Closed]
      BY <1>8, <2>2, StatusIs DEF RefInv
    <3>2. Statuses[b].state = "none"
      BY <1>3, <2>2 DEF Statuses, None
    <3> QED
      BY <1>4, <1>6, <1>7, <3>1, <3>2
      DEF PeerSessions!Greets, PeerSessions!Becomes, Datagram, Statuses
  <2> QED
    BY <1>2, <2>1, <2>2, GotStatus
<1> QED
  BY <1>3, <1>9

(* It is no other address's session.                                       *)
LEMMA GotIsNotOthers ==
  ASSUME RefInv, NEW a \in Addrs, NEW s \in Gettable(table, a),
         NEW b, b = Subject(table, a, s),
         NEW c \in Addrs, c # b, NEW r \in Own(c)
  PROVE  r # s /\ r \in Sessions
<1>1. r \in table.live /\ r \in Sessions
  BY DEF Own, RefInv, SharedInv, TableInv, TableTypes
<1>2. CASE Own(b) = {s}
  BY <1>1, <1>2, OwnOther
<1>3. CASE s \notin table.live
  BY <1>1, <1>3
<1> QED
  BY <1>2, <1>3, GotStatus

(* Where the code finds no session or one that is in its initial state.    *)
LEMMA NotBegun ==
  ASSUME RefInv, NEW a \in Addrs, NEW s \in Gettable(table, a), session[s].fd = -1,
         NEW b, b = Subject(table, a, s)
  PROVE  Statuses[b].state \in {"none", "initial"}
<1>1. s \in Sessions /\ b \in Addrs
  BY GotStatus, GotServed
<1>2. CASE StatusOf(b) = Status(s)
  BY <1>1, <1>2, StatusIs DEF RefInv, Statuses
<1>3. CASE StatusOf(b) = None
  BY <1>1, <1>3 DEF None, Statuses
<1> QED
  BY <1>2, <1>3, GotStatus

LEMMA BeginsSimulated ==
  ASSUME RefInv, NEW a \in Addrs, NEW name \in Files, Begins(a, name)
  PROVE  \E b \in PeerSessions!Served(a) : PeerSessions!Asks(a, b, name)
<1>1. PICK s \in Gettable(table, a) : Opens(s, name) /\ table' = Got(table, a, s)
  BY DEF Begins
<1>2. PICK b : b = Subject(table, a, s)
  OBVIOUS
<1>3. b \in Addrs /\ b \in PeerSessions!Served(a) /\ s \in Sessions
  BY <1>2, GotServed, GotStatus
<1>4. PICK fd \in Descriptors :
        session' = [session EXCEPT ![s] = [fd |-> fd, finished |-> FALSE, name |-> name]]
  BY <1>1 DEF Opens, Lowest, Free
<1>5. /\ session'[s] = [fd |-> fd, finished |-> FALSE, name |-> name]
      /\ \A r \in Sessions : r # s => session'[r] = session[r]
  BY <1>3, <1>4 DEF RefInv, SharedInv, Inv, TypeOK
<1>6. Own(b)' = {s} /\ \A c \in Addrs : c # b => Own(c)' = Own(c)
  BY <1>1, <1>2, GotOthers
<1>7. \A c \in Addrs : c # b => \A r \in Own(c) : session'[r] = session[r]
  BY <1>2, <1>5, GotIsNotOthers
<1>8. Statuses' = [Statuses EXCEPT ![b] = StatusOf(b)']
  BY <1>3, <1>6, <1>7, OneChanges DEF RefInv
<1>9. StatusOf(b)' = [state |-> "streaming", name |-> name]
  <2>1. StatusOf(b)' = Status(s)'
    BY <1>6, StatusOfOneAfter
  <2>2. fd # -1
    BY DescriptorsAssumption
  <2> QED
    BY <1>5, <2>1, <2>2 DEF Status, Streaming
<1>10. Statuses[b].state \in {"none", "initial"}
  BY <1>1, <1>2, NotBegun DEF Opens
<1>11. event' = Datagram(a, name)
  BY DEF Begins
<1>12. PeerSessions!Asks(a, b, name)
  BY <1>8, <1>9, <1>10, <1>11 DEF PeerSessions!Asks, PeerSessions!Becomes, Datagram, Statuses
<1> QED
  BY <1>3, <1>12

(* The session that was got is deleted.                                    *)
LEMMA GotRemoved ==
  ASSUME RefInv, NEW a \in Addrs, NEW s \in Gettable(table, a),
         NEW b, b = Subject(table, a, s), Removed(Got(table, a, s), s)
  PROVE  Statuses' = [Statuses EXCEPT ![b] = None] /\ NamesInv'
<1> DEFINE found == Got(table, a, s)
<1>1. TableInv(Sessions, found) /\ s \in found.live
  BY GotInv DEF RefInv, SharedInv
<1>2. /\ b \in Addrs
      /\ OwnIn(found, b) = {s} /\ \A c \in Addrs : c # b => OwnIn(found, c) = OwnIn(table, c)
  BY GotOwn DEF RefInv, SharedInv
<1>3. found.addr[s] = b
  BY DEF Subject
<1> HIDE DEF found
<1>4. /\ OwnIn(table', b) = {}
      /\ \A c \in Addrs : c # b => OwnIn(table', c) = OwnIn(found, c)
      /\ \A r \in Sessions : r # s => session'[r] = session[r]
      /\ NamesInv'
  <2>1. Removed(found, s)
    BY DEF found
  <2> QED
    BY <1>1, <1>3, <2>1, RemovedOwn DEF RefInv, SharedInv
<1>5. Own(b)' = {} /\ \A c \in Addrs : c # b => Own(c)' = Own(c)
  BY <1>2, <1>4 DEF Own, OwnIn
<1>6. \A c \in Addrs : c # b => \A r \in Own(c) : session'[r] = session[r]
  BY <1>4, GotIsNotOthers
<1>7. Statuses' = [Statuses EXCEPT ![b] = StatusOf(b)']
  BY <1>2, <1>5, <1>6, OneChanges DEF RefInv
<1>8. StatusOf(b)' = None
  BY <1>5 DEF StatusOf, None
<1> QED
  BY <1>4, <1>7, <1>8

LEMMA RefusesSimulated ==
  ASSUME RefInv, NEW a \in Addrs, NEW name \in Files, Refuses(a, name)
  PROVE  (\E b \in PeerSessions!Served(a) : PeerSessions!Asks(a, b, name)) /\ NamesInv'
<1>1. PICK s \in Gettable(table, a) : session[s].fd = -1 /\ Removed(Got(table, a, s), s)
  BY DEF Refuses
<1>2. PICK b : b = Subject(table, a, s)
  OBVIOUS
<1>3. b \in PeerSessions!Served(a)
  BY <1>2, GotServed
<1>4. Statuses' = [Statuses EXCEPT ![b] = None] /\ NamesInv'
  BY <1>1, <1>2, GotRemoved
<1>5. Statuses[b].state \in {"none", "initial"}
  BY <1>1, <1>2, NotBegun
<1>6. event' = Datagram(a, name)
  BY DEF Refuses
<1>7. PeerSessions!Asks(a, b, name)
  BY <1>4, <1>5, <1>6 DEF PeerSessions!Asks, PeerSessions!Becomes, Datagram, Statuses, None
<1> QED
  BY <1>3, <1>4, <1>7

LEMMA ResetsSimulated ==
  ASSUME RefInv, NEW a \in Addrs, Resets(a)
  PROVE  (\E b \in PeerSessions!Served(a) : PeerSessions!Resets(a, b)) /\ NamesInv'
<1>1. PICK s \in Gettable(table, a) : Removed(Got(table, a, s), s)
  BY DEF Resets
<1>2. PICK b : b = Subject(table, a, s)
  OBVIOUS
<1>3. b \in PeerSessions!Served(a)
  BY <1>2, GotServed
<1>4. Statuses' = [Statuses EXCEPT ![b] = None] /\ NamesInv'
  BY <1>1, <1>2, GotRemoved
<1>5. event' = Datagram(a, Closed)
  BY DEF Resets
<1>6. PeerSessions!Resets(a, b)
  BY <1>4, <1>5 DEF PeerSessions!Resets, PeerSessions!Becomes, Datagram, Statuses, None
<1> QED
  BY <1>3, <1>4, <1>6

LEMMA ExpiresSimulated ==
  ASSUME RefInv, NEW s \in Sessions, Expires(s)
  PROVE  (\E a \in Addrs : PeerSessions!Expires(a)) /\ NamesInv'
<1>1. s \in table.live /\ Removed(table, s) /\ event' = Datagram(Timer, Closed)
  BY DEF Expires
<1>2. PICK a \in Addrs : a = table.addr[s] /\ TableInv(Sessions, table)
  BY DEF RefInv, SharedInv, TableInv, TableTypes
<1>3. /\ OwnIn(table', a) = {}
      /\ \A b \in Addrs : b # a => OwnIn(table', b) = OwnIn(table, b)
      /\ \A r \in Sessions : r # s => session'[r] = session[r]
      /\ NamesInv'
  BY <1>1, <1>2, RemovedOwn DEF RefInv, SharedInv
<1>4. Own(a)' = {} /\ \A b \in Addrs : b # a => Own(b)' = Own(b)
  BY <1>3 DEF Own, OwnIn
<1>5. \A b \in Addrs : b # a => \A r \in Own(b) : r # s /\ r \in Sessions
  BY <1>2 DEF Own, TableInv, TableTypes
<1>6. Statuses' = [Statuses EXCEPT ![a] = StatusOf(a)']
  BY <1>2, <1>3, <1>4, <1>5, OneChanges DEF RefInv
<1>7. StatusOf(a)' = None
  BY <1>4 DEF StatusOf, None
<1>8. PeerSessions!Expires(a)
  BY <1>1, <1>6, <1>7 DEF PeerSessions!Expires, PeerSessions!Becomes, Datagram, Statuses, None
<1> QED
  BY <1>2, <1>3, <1>8

LEMMA PullsSimulated ==
  ASSUME RefInv, NEW a \in Addrs, Pulls(a)
  PROVE  \E b \in PeerSessions!Served(a) : PeerSessions!Greets(a, b) \/ PeerSessions!Ends(a, b)
<1>1. PICK s \in Gettable(table, a) : Reads(s) \/ Finishes(s)
  BY DEF Pulls
<1>2. PICK b : b = Subject(table, a, s)
  OBVIOUS
<1>3. b \in Addrs /\ b \in PeerSessions!Served(a)
  BY <1>2, GotServed
<1>4. event' = Datagram(a, Closed) /\ table' = table /\ s \in Sessions /\ Streaming(s)
  BY <1>1, <1>2, GotStatus DEF Pulls, Reads, Finishes
<1>5. Own(b) = {s} /\ StatusOf(b) = Status(s)
  BY <1>2, <1>4, GotStatus DEF Streaming
<1>6. Statuses[b] = Status(s) /\ Status(s).state = "streaming" /\ Status(s).name = session[s].name
  BY <1>3, <1>4, <1>5, StatusIs DEF RefInv, Statuses
<1>7. \A c \in Addrs : Own(c)' = Own(c)
  BY <1>4 DEF Own
<1>8. CASE Reads(s)
  <2>1. session' = session
    BY <1>8 DEF Reads
  <2>2. \A c \in Addrs : StatusOf(c)' = StatusOf(c)
    BY <1>7, <2>1, StatusKept DEF RefInv
  <2>3. Statuses' = Statuses
    BY <2>2 DEF Statuses
  <2>4. PeerSessions!Greets(a, b)
    BY <1>4, <1>6, <2>3 DEF PeerSessions!Greets, Datagram, Statuses
  <2> QED
    BY <1>3, <2>4
<1>9. CASE Finishes(s)
  <2>1. session' = [session EXCEPT ![s].finished = TRUE]
    BY <1>9 DEF Finishes
  <2>2. session \in [Sessions -> SessionTypes]
    BY DEF RefInv, SharedInv, Inv, TypeOK
  <2>3. /\ session'[s].fd = session[s].fd /\ session'[s].finished = TRUE
        /\ session'[s].name = session[s].name
        /\ \A r \in Sessions : r # s => session'[r] = session[r]
    <3>1. session[s] \in SessionTypes
      BY <1>4, <2>2
    <3> QED
      BY <1>4, <2>1, <2>2, <3>1 DEF SessionTypes
  <2>4. \A c \in Addrs : c # b => \A r \in Own(c) : session'[r] = session[r]
    BY <1>2, <2>3, GotIsNotOthers
  <2>5. Statuses' = [Statuses EXCEPT ![b] = StatusOf(b)']
    BY <1>3, <1>7, <2>4, OneChanges DEF RefInv
  <2>6. StatusOf(b)' = Status(s)'
    BY <1>3, <1>5, <1>7, StatusOfOneAfter
  <2>7. Status(s)' = [state |-> "ended", name |-> session[s].name]
    BY <1>4, <2>3 DEF Status, Streaming
  <2>8. PeerSessions!Ends(a, b)
    BY <1>4, <1>6, <2>5, <2>6, <2>7
    DEF PeerSessions!Ends, PeerSessions!Becomes, Datagram, Statuses
  <2> QED
    BY <1>3, <2>8
<1> QED
  BY <1>1, <1>8, <1>9

----------------------------------------------------------------------------
LEMMA NamesKept == RefInv /\ [SharedNext]_sharedVars => NamesInv'
<1> SUFFICES ASSUME RefInv, [SharedNext]_sharedVars PROVE NamesInv'
  OBVIOUS
<1>1. session \in [Sessions -> SessionTypes] /\ NamesInv
  BY DEF RefInv, SharedInv, Inv, TypeOK
<1>2. ASSUME session' = session PROVE NamesInv'
  BY <1>1, <1>2 DEF NamesInv
<1>3. ASSUME NEW a \in Addrs, NEW name \in Files, Begins(a, name) PROVE NamesInv'
  <2>1. PICK s \in Gettable(table, a) : Opens(s, name)
    BY <1>3 DEF Begins
  <2>2. PICK fd \in Descriptors :
          session' = [session EXCEPT ![s] = [fd |-> fd, finished |-> FALSE, name |-> name]]
    BY <2>1 DEF Opens, Lowest, Free
  <2>3. fd # -1
    BY DescriptorsAssumption
  <2> QED
    BY <1>1, <2>2, <2>3 DEF NamesInv
<1>4. ASSUME NEW a \in Addrs, Pulls(a) PROVE NamesInv'
  <2>1. PICK s \in Gettable(table, a) : Reads(s) \/ Finishes(s)
    BY <1>4 DEF Pulls
  <2>2. CASE Reads(s)
    BY <1>2, <2>2 DEF Reads
  <2>3. CASE Finishes(s)
    <3>1. session' = [session EXCEPT ![s].finished = TRUE] /\ session[s].fd # -1 /\ s \in Sessions
      BY <2>1, <2>3, GotStatus DEF Finishes, Streaming
    <3>2. session[s] \in SessionTypes
      BY <1>1, <3>1
    <3>3. session'[s].fd = session[s].fd /\ \A r \in Sessions : r # s => session'[r] = session[r]
      BY <1>1, <3>1, <3>2 DEF SessionTypes
    <3> QED
      BY <1>1, <3>1, <3>3 DEF NamesInv
  <2> QED
    BY <2>1, <2>2, <2>3
<1>5. CASE UNCHANGED sharedVars \/ \E a \in Addrs : Ignores(a)
  BY <1>2, <1>5 DEF sharedVars, vars, Ignores
<1> QED
  BY <1>3, <1>4, <1>5, RefusesSimulated, ResetsSimulated, ExpiresSimulated DEF SharedNext

LEMMA SharedStepSimulated ==
  RefInv /\ [SharedNext]_sharedVars => [PeerSessions!Next]_(PeerSessions!vars)
<1> SUFFICES ASSUME RefInv, [SharedNext]_sharedVars
             PROVE  [PeerSessions!Next]_(PeerSessions!vars)
  OBVIOUS
<1>1. ASSUME NEW a \in Addrs, Ignores(a) PROVE PeerSessions!Next
  BY <1>1, IgnoresSimulated DEF PeerSessions!Next
<1>2. ASSUME NEW a \in Addrs, Pulls(a) PROVE PeerSessions!Next
  BY <1>2, PullsSimulated DEF PeerSessions!Next
<1>3. ASSUME NEW a \in Addrs, Resets(a) PROVE PeerSessions!Next
  BY <1>3, ResetsSimulated DEF PeerSessions!Next
<1>4. ASSUME NEW a \in Addrs, NEW name \in Files, Begins(a, name) \/ Refuses(a, name)
      PROVE  PeerSessions!Next
  <2>1. PICK b \in PeerSessions!Served(a) : PeerSessions!Asks(a, b, name)
    BY <1>4, BeginsSimulated, RefusesSimulated
  <2> QED
    BY <2>1 DEF PeerSessions!Next
<1>5. ASSUME NEW s \in Sessions, Expires(s) PROVE PeerSessions!Next
  BY <1>5, ExpiresSimulated DEF PeerSessions!Next
<1>6. CASE UNCHANGED sharedVars
  <2>1. table' = table /\ session' = session /\ event' = event
    BY <1>6 DEF sharedVars, vars
  <2>2. \A b \in Addrs : StatusOf(b)' = StatusOf(b)
    BY <2>1, StatusKept DEF RefInv, Own
  <2> QED
    BY <2>1, <2>2 DEF PeerSessions!vars
<1> QED
  BY <1>1, <1>2, <1>3, <1>4, <1>5, <1>6 DEF SharedNext

(* However many clients there are, in whatever buckets: a datagram changes *)
(* one session only, which is its sender's unless another host has one in  *)
(* its bucket, a timeout that of one address, and a file is opened for     *)
(* whoever asked for it (session.c:65-78, 98-173, 270-364).                *)
THEOREM SessionsAreSeparate == SharedSpec => ImplementsSessions
<1>1. SharedInit => RefInv
  BY SharedInitInv DEF SharedInit, Init, NoSession, RefInv, NamesInv
<1>2. RefInv /\ [SharedNext]_sharedVars => RefInv'
  BY SharedNextInv, NamesKept DEF RefInv
<1>3. SharedInit => PeerSessions!Init
  <2> SUFFICES ASSUME SharedInit PROVE PeerSessions!Init
    OBVIOUS
  <2>1. table.live = {} /\ event = Datagram(Timer, Closed)
    BY DEF SharedInit, EmptyTable
  <2>2. \A a \in Addrs : Own(a) = {}
    BY <2>1 DEF Own
  <2>3. \A a \in Addrs : StatusOf(a) = None
    BY <2>2, StatusOfNone
  <2> QED
    BY <2>1, <2>3 DEF PeerSessions!Init, PeerSessions!NoSession, None, Datagram
<1> QED
  BY <1>1, <1>2, <1>3, SharedStepSimulated, PTL
  DEF SharedSpec, ImplementsSessions, PeerSessions!Spec
=============================================================================
