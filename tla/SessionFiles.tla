---------------------------- MODULE SessionFiles ----------------------------
(***************************************************************************)
(* The file descriptors of the server's sessions.  A descriptor is kept in *)
(* two places, the session and the source of its pipeline, and closed up   *)
(* to three times: at the end of the file, when the pipeline is            *)
(* deallocated and when the session is deleted.  The operating system      *)
(* gives a descriptor that was closed to whoever opens a file next.        *)
(***************************************************************************)
EXTENDS Integers, FiniteSets

CONSTANTS
  Sessions,
  Files,        \* the names of files that can be streamed
  Descriptors   \* the descriptors that the process may still open

ASSUME DescriptorsAssumption == Descriptors \subseteq Nat

VARIABLES
  file,     \* the file a descriptor is open on, or Closed
  session,  \* a session's descriptor, whether it has finished, and the
            \* file that was asked for
  streamed  \* the files a session has sent chunks of: a history

vars == <<file, session, streamed>>

Closed == "closed"
NoSession == [fd |-> -1, finished |-> FALSE, name |-> Closed]

Init ==
  /\ file = [fd \in Descriptors |-> Closed]
  /\ session = [s \in Sessions |-> NoSession]
  /\ streamed = [s \in Sessions |-> {}]

(* open(2) returns the lowest descriptor that is free, if there is one.    *)
Free == {fd \in Descriptors : file[fd] = Closed}
Lowest == {fd \in Free : \A other \in Free : fd <= other}

(* close(2), which does not mind a descriptor that is not open.            *)
AfterClose(fds) == [fd \in Descriptors |-> IF fd \in fds THEN Closed ELSE file[fd]]

(* A SYN: the file is opened and the pipeline set up.  When it is not a    *)
(* usable WAVE file it is closed again at once.                            *)
Opens(s, name) ==
  /\ session[s].fd = -1
  /\ \E fd \in Lowest :
       /\ file' = [file EXCEPT ![fd] = name]
       /\ session' = [session EXCEPT
                        ![s] = [fd |-> fd, finished |-> FALSE, name |-> name]]
  /\ UNCHANGED streamed

(* The source reads from whatever file its descriptor is open on now.      *)
Streaming(s) == session[s].fd # -1 /\ ~session[s].finished

Reads(s) ==
  LET from == file[session[s].fd]
  IN /\ Streaming(s)
     /\ from # Closed
     /\ streamed' = [streamed EXCEPT ![s] = @ \cup {from}]
     /\ UNCHANGED <<file, session>>

(* It has come to the end of the file, or read(2) has failed, as it does   *)
(* when the descriptor is closed.                                          *)
(* Mutation: the descriptor is left open.                                  *)
FinishesOpen(s) ==
  /\ Streaming(s)
  /\ file' = file
  /\ session' = [session EXCEPT ![s].finished = TRUE]
  /\ UNCHANGED streamed

Finishes(s) ==
  /\ Streaming(s)
  /\ file' = AfterClose({session[s].fd})
  /\ session' = [session EXCEPT ![s].finished = TRUE]
  /\ UNCHANGED streamed

(* sas_server_session_delete deallocates the pipeline and with it the      *)
(* source, which closes its descriptor, and closes the session's.          *)
Deletes(s) ==
  /\ session[s].fd # -1
  /\ file' = AfterClose({session[s].fd})
  /\ session' = [session EXCEPT ![s] = NoSession]
  /\ streamed' = [streamed EXCEPT ![s] = {}]

Next ==
  \E s \in Sessions :
    \/ \E name \in Files : Opens(s, name)
    \/ Reads(s)
    \/ Finishes(s)
    \/ Deletes(s)

Spec == Init /\ [][Next]_vars

----------------------------------------------------------------------------
SessionTypes == [fd : Descriptors \cup {-1}, finished : BOOLEAN, name : Files \cup {Closed}]

TypeOK ==
  /\ file \in [Descriptors -> Files \cup {Closed}]
  /\ session \in [Sessions -> SessionTypes]

(* No descriptor is lost: each that is open belongs to a session which     *)
(* still streams, and whose deletion or end will close it - even when      *)
(* sessions close the descriptors of each other (session.c:157-162,        *)
(* wav.c:76, 83, 118).                                                     *)
NoDescriptorIsLost ==
  \A fd \in Descriptors :
    file[fd] # Closed => \E s \in Sessions : Streaming(s) /\ session[s].fd = fd

----------------------------------------------------------------------------
(* session.h:85-88: "The file descriptor of the file to stream".  After    *)
(* its file has ended a session still closes the descriptor, which by then *)
(* may be another session's; and a third one's file is streamed to that.   *)
StreamsItsFile == \A s \in Sessions : streamed[s] \subseteq {session[s].name}
=============================================================================
