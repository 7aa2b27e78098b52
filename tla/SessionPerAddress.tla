------------------------- MODULE SessionPerAddress -------------------------
(***************************************************************************)
(* What the server promises its peers: each address has a session of its   *)
(* own, which begins, streams the file that was asked for, ends and is     *)
(* forgotten as if there were no others - unless it is mistaken for an     *)
(* address that has a session already, whose session it then gets.         *)
(***************************************************************************)
CONSTANTS
  Peers,
  Mistaken,  \* of each peer, those that it is mistaken for
  Files,
  Nobody,    \* the sender when a timer has expired
  NoFile     \* the file that a datagram other than a SYN asks for

VARIABLES
  event,   \* the last thing that happened: the sender and the file asked for
  status   \* of each peer's session

vars == <<event, status>>

NoSession == [state |-> "none", name |-> NoFile]

Init ==
  /\ event = [from |-> Nobody, name |-> NoFile]
  /\ status = [p \in Peers |-> NoSession]

(* Whose session a datagram of p gets to.                                  *)
Served(p) ==
  LET others == {q \in Mistaken[p] : status[q].state # "none"}
  IN IF others = {} THEN {p} ELSE others

Becomes(q, state, name) ==
  status' = [status EXCEPT ![q] = [state |-> state, name |-> name]]

(* A datagram from p that makes no difference to the session of q but for  *)
(* beginning it.                                                           *)
Greets(p, q) ==
  /\ event' = [from |-> p, name |-> NoFile]
  /\ IF status[q].state = "none" THEN Becomes(q, "initial", NoFile) ELSE UNCHANGED status

(* It asks for a file, which is opened or not.                             *)
Asks(p, q, name) ==
  /\ event' = [from |-> p, name |-> name]
  /\ status[q].state \in {"none", "initial"}
  /\ Becomes(q, "streaming", name) \/ Becomes(q, "none", NoFile)

(* It asks for a chunk, and there is none left.                            *)
Ends(p, q) ==
  /\ event' = [from |-> p, name |-> NoFile]
  /\ status[q].state = "streaming"
  /\ Becomes(q, "ended", status[q].name)

(* It resets the session.                                                  *)
Resets(p, q) ==
  /\ event' = [from |-> p, name |-> NoFile]
  /\ Becomes(q, "none", NoFile)

(* The session has been left alone for too long.                           *)
Expires(q) ==
  /\ event' = [from |-> Nobody, name |-> NoFile]
  /\ Becomes(q, "none", NoFile)

Next ==
  \/ \E p \in Peers : \E q \in Served(p) :
       \/ Greets(p, q)
       \/ \E name \in Files : Asks(p, q, name)
       \/ Ends(p, q)
       \/ Resets(p, q)
  \/ \E q \in Peers : Expires(q)

Spec == Init /\ [][Next]_vars
=============================================================================
