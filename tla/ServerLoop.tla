----------------------------- MODULE ServerLoop -----------------------------
(***************************************************************************)
(* sas_server_run (server.c:88-159): one thread that times out sessions    *)
(* and handles datagrams, with the table that finds the session of an      *)
(* address and the heap that finds the one to time out next.               *)
(*                                                                         *)
(* What a session does with its datagrams is in ServerSession; here it     *)
(* matters only whether it is deleted meanwhile.  The heap is given an     *)
(* entry for every datagram, so that it holds sessions several times and   *)
(* ones that were freed.                                                   *)
(***************************************************************************)
EXTENDS SessionTable, TimeoutHeap

CONSTANTS
  SessionTimeout,  \* SAS_SERVER_SESSION_TIMEOUT
  MaxTime          \* bound on the clock: datagrams cease SessionTimeout before

ASSUME LoopAssumption == SessionTimeout \in Nat \ {0} /\ MaxTime \in Nat /\ Addrs # {}

VARIABLES
  now,      \* time(NULL)
  pc,       \* "expire" and "select" are the two halves of a turn
  waiting,  \* timeout_session, or {} for NULL
  table,
  heard,    \* when the session last received a datagram: a history
  corrupt   \* memory was freed twice: anything may happen

vars == <<heap, capacity, timeout, now, pc, waiting, table, heard, corrupt>>

Init ==
  /\ heap = <<>>
  /\ capacity = InitialCapacity
  /\ timeout = [session \in Sessions |-> 0]
  /\ now = 0
  /\ pc = "expire"
  /\ waiting = {}
  /\ table = EmptyTable([session \in Sessions |-> CHOOSE a \in Addrs : TRUE])
  /\ heard = [session \in Sessions |-> 0]
  /\ corrupt = FALSE

(* sas_server_timeout of a session whose time has come.  The allocator has *)
(* overwritten a part of the address of one that was freed.  That garbage  *)
(* finds an empty bucket, or a session of another address that is unlinked *)
(* while the memory is freed a second time.                                *)
Times(session) ==
  IF session \in table.live
  THEN table' = Deleted(table, session) /\ UNCHANGED corrupt
  ELSE /\ UNCHANGED table
       /\ corrupt' \in {FALSE, table.live # {}}

(* The loop over the sessions that have expired.                           *)
Expires ==
  /\ pc = "expire"
  /\ heap # <<>>
  /\ timeout[heap[1]] <= now
  /\ Times(heap[1])
  /\ heap' = Popped(heap, timeout)
  /\ UNCHANGED <<capacity, timeout, now, pc, waiting, heard>>

(* It ends with the one to wait for, or with none.                         *)
Selects ==
  /\ pc = "expire"
  /\ pc' = "select"
  /\ \/ /\ heap = <<>>
        /\ waiting' = {}
        /\ UNCHANGED heap
     \/ /\ heap # <<>>
        /\ timeout[heap[1]] > now
        /\ waiting' = {heap[1]}
        /\ heap' = Popped(heap, timeout)
  /\ UNCHANGED <<capacity, timeout, now, table, heard, corrupt>>

(* select returns 0.                                                       *)
TimesOut ==
  /\ pc = "select"
  /\ \E session \in waiting : timeout[session] <= now /\ Times(session)
  /\ pc' = "expire"
  /\ waiting' = {}
  /\ UNCHANGED <<heap, capacity, timeout, now, heard>>

(* The session that was waited for is added again.                         *)
(* Mutation: it is not.                                                    *)
NotReadded == heap

Readded ==
  IF waiting = {} THEN heap
  ELSE Added(heap, timeout, CHOOSE session \in waiting : TRUE)

(* The heap and its array after session is added too.                      *)
TimeoutAdded(session) ==
  /\ heap' = Added(Readded, timeout', session)
  /\ capacity' = Grown(Grown(capacity, Len(heap)), Len(Readded))

(* A datagram from a, which may end its session.                           *)
(* Mutation: only the first datagram sets the timeout.                     *)
ReceivesOnce(a, ends) ==
  /\ pc = "select"
  /\ now + SessionTimeout <= MaxTime
  /\ Len(heap) + 2 <= MaxEntries
  /\ \E session \in Gettable(table, a) :
       LET got == Got(table, a, session)
       IN /\ table' = IF ends THEN Deleted(got, session) ELSE got
          /\ timeout' = IF session \in table.live THEN timeout
                        ELSE [timeout EXCEPT ![session] = now + SessionTimeout]
          /\ heard' = [heard EXCEPT ![session] = now]
          /\ TimeoutAdded(session)
  /\ pc' = "expire"
  /\ waiting' = {}
  /\ UNCHANGED <<now, corrupt>>

Receives(a, ends) ==
  /\ pc = "select"
  /\ now + SessionTimeout <= MaxTime
  /\ Len(heap) + 2 <= MaxEntries
  /\ \E session \in Gettable(table, a) :
       LET got == Got(table, a, session)
       IN /\ table' = IF ends THEN Deleted(got, session) ELSE got
          /\ timeout' = [timeout EXCEPT ![session] = now + SessionTimeout]
          /\ heard' = [heard EXCEPT ![session] = now]
          /\ TimeoutAdded(session)
  /\ pc' = "expire"
  /\ waiting' = {}
  /\ UNCHANGED <<now, corrupt>>

(* recvfrom fails.                                                         *)
RecvFails ==
  /\ pc = "select"
  /\ heap' = Readded
  /\ capacity' = IF waiting = {} THEN capacity ELSE Grown(capacity, Len(heap))
  /\ pc' = "expire"
  /\ waiting' = {}
  /\ UNCHANGED <<timeout, now, table, heard, corrupt>>

Tick ==
  /\ now < MaxTime
  /\ now' = now + 1
  /\ UNCHANGED <<heap, capacity, timeout, pc, waiting, table, heard, corrupt>>

(* What the loop does when no datagram arrives.                            *)
Turn == Expires \/ Selects \/ TimesOut

Next ==
  /\ ~corrupt
  /\ \/ Turn
     \/ \E a \in Addrs, ends \in BOOLEAN : Receives(a, ends)
     \/ RecvFails
     \/ Tick

Spec == Init /\ [][Next]_vars

(* The thread runs, select returns when its timeout has passed, and time   *)
(* passes.  Nothing obliges a client to send.                              *)
Fairness == WF_vars(~corrupt /\ Turn) /\ WF_vars(~corrupt /\ Tick)

FairSpec == Spec /\ Fairness

----------------------------------------------------------------------------
(* No session is lost sight of: it has an entry in the heap, or is being   *)
(* waited for, through all its pops and being added again.                 *)
SessionsAreWatched == table.live \subseteq Entries(heap) \cup waiting

(* A session is not timed out before its peer was silent for the whole of  *)
(* the timeout, though the heap holds entries from earlier datagrams and   *)
(* from earlier sessions in the same memory (timeout.c:16-21).             *)
NeverTimedOutEarly ==
  [][Expires \/ TimesOut =>
       \A session \in table.live \ table'.live :
         now >= heard[session] + SessionTimeout]_vars

(* The chains hold the sessions allocated, each once and where its address *)
(* is searched for, and no two of the same address: what is deleted is     *)
(* what is unlinked (session.c:98-173).                                    *)
ChainsHoldSessions ==
  \A bucket \in Buckets :
    LET chain == table.chain[bucket]
    IN /\ Entries(chain) = {s \in table.live : table.addr[s].bucket = bucket}
       /\ \A i, j \in 1..Len(chain) : i # j => table.addr[chain[i]] # table.addr[chain[j]]

(* Once datagrams cease every session is forgotten, though the heap is out *)
(* of order, with keys that changed in it, and holds sessions that are     *)
(* gone (server.c:103-112, 130-155, timeout.c:56-93).  As long as others   *)
(* keep the server busy one may stay for ever: a sender whose entries are  *)
(* above the other's has a later timeout each time it is at the root.      *)
SessionsAreForgotten == <>[](table.live = {} \/ corrupt)

----------------------------------------------------------------------------
(* session.h:127-128: "Create a session for the specified address in the   *)
(* session hash table".  The session of any other address in the bucket is *)
(* returned instead (session.c:65-78, 105).                                *)
SessionsAreOfTheirAddress ==
  \A a \in Addrs : \A s \in Gettable(table, a) : s \in table.live => table.addr[s] = a
=============================================================================
