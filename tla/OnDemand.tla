------------------------------ MODULE OnDemand ------------------------------
(***************************************************************************)
(* What rxc promises a sink: elements in order, never more of them than it *)
(* has asked for, and none once the stream is closed.                      *)
(***************************************************************************)
EXTENDS Naturals, Sequences

CONSTANT Amounts  \* what may be asked for at once

VARIABLES
  demanded,   \* how many elements were asked for
  delivered,  \* those that were delivered
  open        \* neither side has ended the stream

vars == <<demanded, delivered, open>>

Init == demanded = 0 /\ delivered = <<>> /\ open = TRUE

Demand ==
  /\ \E n \in Amounts : demanded' = demanded + n
  /\ UNCHANGED <<delivered, open>>

Deliver ==
  /\ open
  /\ Len(delivered) < demanded
  /\ delivered' = Append(delivered, Len(delivered) + 1)
  /\ UNCHANGED <<demanded, open>>

Close ==
  /\ open' = FALSE
  /\ UNCHANGED <<demanded, delivered>>

Next == Demand \/ Deliver \/ Close

Spec == Init /\ [][Next]_vars
=============================================================================
