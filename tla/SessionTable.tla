---------------------------- MODULE SessionTable ----------------------------
(***************************************************************************)
(* The server's hash table of sessions (session.c:28-173).                 *)
(*                                                                         *)
(* A session is a piece of memory: malloc may return any that is not       *)
(* allocated, and free leaves its contents as they are.                    *)
(***************************************************************************)
EXTENDS Integers, Sequences, SequencesExt

CONSTANT Addrs  \* IPv6 addresses with a port, and the bucket they hash to

ASSUME AddrsAssumption ==
  /\ Addrs \subseteq [ip : Nat, port : Nat, bucket : Nat]
  /\ \A a, b \in Addrs : a.ip = b.ip /\ a.port = b.port => a = b

(* addr_hash(addr) % capacity.                                             *)
Buckets == {a.bucket : a \in Addrs}

(* A difference of the IP addresses is returned as it is, which is true.   *)
(* Mutation: the port is not looked at.                                    *)
AddrEqAnyPort(a, b) == TRUE

AddrEq(a, b) == a.ip # b.ip \/ a.port = b.port

(* The addresses in all of the memory, the sessions allocated and the      *)
(* chains of the buckets.                                                  *)
EmptyTable(addr) ==
  [addr |-> addr, live |-> {}, chain |-> [bucket \in Buckets |-> <<>>]]

(* The positions in a's chain that a search for a stops at: the first one  *)
(* that matches.                                                           *)
Stops(table, a) ==
  LET chain == table.chain[a.bucket]
      matching == {i \in 1..Len(chain) : AddrEq(table.addr[chain[i]], a)}
  IN {i \in matching : \A j \in matching : i <= j}

(* sas_server_session_get: the session found, or else one that is made, in *)
(* any memory that is free, and put at the end of the chain.               *)
Gettable(table, a) ==
  IF Stops(table, a) # {}
  THEN {table.chain[a.bucket][i] : i \in Stops(table, a)}
  ELSE DOMAIN table.addr \ table.live

Got(table, a, session) ==
  IF Stops(table, a) # {}
  THEN table
  ELSE [addr |-> [table.addr EXCEPT ![session] = a],
        live |-> table.live \cup {session},
        chain |-> [table.chain EXCEPT ![a.bucket] = Append(@, session)]]

(* sas_server_session_delete: the entry found by the session's address is  *)
(* unlinked and the session is freed; neither when there is none.          *)
(* Mutation: the first of the chain is unlinked.                           *)
DeletedFirst(table, session) ==
  LET a == table.addr[session]
  IN IF Stops(table, a) = {}
     THEN table
     ELSE [table EXCEPT !.live = @ \ {session}, !.chain[a.bucket] = Tail(@)]

Deleted(table, session) ==
  LET a == table.addr[session]
  IN IF Stops(table, a) = {}
     THEN table
     ELSE LET i == CHOOSE i \in Stops(table, a) : TRUE
          IN [table EXCEPT
                !.live = @ \ {session},
                !.chain[a.bucket] = RemoveAt(@, i)]
=============================================================================
