---------------------------- MODULE TimeoutHeap -----------------------------
(***************************************************************************)
(* The heap that tells the server which session to time out next           *)
(* (timeout.c): an array of pointers to sessions, ordered by a field of    *)
(* the sessions they point to.  The array is a sequence here, so that the  *)
(* children of entry i are 2i and 2i+1.                                    *)
(*                                                                         *)
(* The specification uses the heap the way it is meant to be used, with    *)
(* sessions whose timeout does not change while they are in it.            *)
(***************************************************************************)
EXTENDS Integers, Sequences, FiniteSets

CONSTANTS
  Sessions,
  InitialCapacity,  \* SAS_SERVER_TIMEOUT_HEAP_INITIAL_CAPACITY
  MaxEntries        \* bound on the length of the heap

ASSUME HeapAssumption ==
  InitialCapacity \in Nat \ {0} /\ MaxEntries \in Nat

Swap(heap, i, j) == [heap EXCEPT ![i] = heap[j], ![j] = heap[i]]

Entries(heap) == {heap[i] : i \in 1..Len(heap)}

(* One turn of the up-heap loop: the entry at an index of the heap rises   *)
(* unless its parent is smaller.                                           *)
Rise(at, timeout) ==
  LET parent == at.index \div 2
  IN IF at.index = 1 \/ timeout[at.heap[parent]] < timeout[at.heap[at.index]]
     THEN at
     ELSE [heap |-> Swap(at.heap, at.index, parent), index |-> parent]

(* The last entry rises as far as it does.  The loop takes no more turns   *)
(* than there are entries.                                                 *)
(* Mutation: it rises once at most.                                        *)
UpHeapOnce(heap, timeout) == Rise([heap |-> heap, index |-> Len(heap)], timeout).heap

UpHeap(heap, timeout) ==
  LET up[turn \in 0..Len(heap)] ==
        IF turn = 0 THEN [heap |-> heap, index |-> Len(heap)] ELSE Rise(up[turn - 1], timeout)
  IN up[Len(heap)].heap

(* sas_server_timeout_add.                                                 *)
Added(heap, timeout, session) == UpHeap(Append(heap, session), timeout)

(* One call of sas_server_timeout_heapify: the child it continues with is  *)
(* the left one, whichever of the two is smaller than their parent.        *)
Sink(at, timeout) ==
  LET left == 2 * at.index
      lower(child) == child <= Len(at.heap) /\ timeout[at.heap[child]] < timeout[at.heap[at.index]]
  IN IF lower(left) \/ lower(left + 1)
     THEN [heap |-> Swap(at.heap, at.index, left), index |-> left]
     ELSE at

Heapify(heap, timeout) ==
  LET down[call \in 0..Len(heap)] ==
        IF call = 0 THEN [heap |-> heap, index |-> 1] ELSE Sink(down[call - 1], timeout)
  IN down[Len(heap)].heap

(* What sas_server_timeout_pop leaves of a heap: the last entry takes the  *)
(* place of the first, which it returns, and sinks.                        *)
(* Mutation: the last entry is dropped instead.                            *)
PoppedLast(heap, timeout) == SubSeq(heap, 1, Len(heap) - 1)

Popped(heap, timeout) ==
  LET rest == SubSeq(heap, 1, Len(heap) - 1)
  IN IF rest = <<>>
     THEN <<>>
     ELSE Heapify([rest EXCEPT ![1] = heap[Len(heap)]], timeout)

(* The array is doubled when it is full.                                   *)
(* Mutation: it is doubled too late.                                       *)
GrownLate(capacity, count) == IF count > capacity THEN 2 * capacity ELSE capacity

Grown(capacity, count) == IF count = capacity THEN 2 * capacity ELSE capacity

----------------------------------------------------------------------------
VARIABLES
  heap,      \* server->timeouts.heap
  capacity,  \* server->timeouts.capacity
  timeout    \* session->timeout, of every session

heapVars == <<heap, capacity, timeout>>

HeapInit ==
  /\ heap = <<>>
  /\ capacity = InitialCapacity
  /\ timeout \in [Sessions -> 1..MaxEntries]

Add ==
  /\ Len(heap) < MaxEntries
  /\ \E session \in Sessions : heap' = Added(heap, timeout, session)
  /\ capacity' = Grown(capacity, Len(heap))
  /\ UNCHANGED timeout

Pop ==
  /\ heap # <<>>
  /\ heap' = Popped(heap, timeout)
  /\ UNCHANGED <<capacity, timeout>>

HeapNext == Add \/ Pop

HeapSpec == HeapInit /\ [][HeapNext]_heapVars

----------------------------------------------------------------------------
IsHeap(h) == \A i \in 2..Len(h) : timeout[h[i \div 2]] <= timeout[h[i]]

Count(h, session) == Cardinality({i \in 1..Len(h) : h[i] = session})

(* Adding restores the order of a heap that has it, at any depth and with  *)
(* equal timeouts too (timeout.c:37-53).                                   *)
AddingKeepsOrder ==
  [][Len(heap') > Len(heap) /\ IsHeap(heap) => IsHeap(heap')]_heapVars

(* However the entries are moved, adding and popping lose and double none  *)
(* but the one added and the first (timeout.c:23-93): a session that is    *)
(* lost is never timed out, one that is doubled is timed out after it was  *)
(* freed.                                                                  *)
OthersStay ==
  [][\E session \in Sessions :
       LET change == Len(heap') - Len(heap)
       IN /\ \A other \in Sessions :
               Count(heap', other) =
                 Count(heap, other) + (IF other = session THEN change ELSE 0)
          /\ change = -1 => session = heap[1]]_heapVars

(* No entry is stored past the end of the array (timeout.c:26-36).         *)
WithinCapacity == Len(heap) <= capacity
=============================================================================
