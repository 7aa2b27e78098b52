---------------------------- MODULE AudioStream ----------------------------
(***************************************************************************)
(* What streaming a file promises its listener: the chunks of the file in  *)
(* order, and an end.  Only a Reliable stream leaves none out.             *)
(***************************************************************************)
EXTENDS Naturals, Sequences

CONSTANTS
  NumChunks,  \* chunks 1..NumChunks make up the file
  Reliable    \* whether the transport delivers everything in order

VARIABLES
  heard,   \* the chunks the listener was given
  ending   \* "none", "complete" or "aborted"

vars == <<heard, ending>>

Last == IF heard = <<>> THEN 0 ELSE heard[Len(heard)]

Init == heard = <<>> /\ ending = "none"

(* The next chunk, or, unless the stream is Reliable, any later one.       *)
Hear ==
  /\ ending = "none"
  /\ \E k \in 1..NumChunks :
       /\ k > Last
       /\ Reliable => k = Last + 1
       /\ heard' = Append(heard, k)
  /\ UNCHANGED ending

(* The end of the file: nothing is missing from a Reliable stream.         *)
Complete ==
  /\ ending = "none"
  /\ Reliable => Last = NumChunks
  /\ ending' = "complete"
  /\ UNCHANGED heard

(* An error, a reset or silence.                                           *)
Abort ==
  /\ ending = "none"
  /\ ending' = "aborted"
  /\ UNCHANGED heard

Next == Hear \/ Complete \/ Abort

Spec == Init /\ [][Next]_vars

(* A stream that has begun ends.                                           *)
Ends == heard # <<>> ~> ending # "none"
=============================================================================
