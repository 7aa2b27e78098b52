-------------------------- MODULE ServerLoopProofs --------------------------
(***************************************************************************)
(* The heap of timeouts, for any number of entries; and the server loop,   *)
(* for any number of sessions and addresses, those of hosts that addr_eq   *)
(* takes for one another too.                                              *)
(***************************************************************************)
EXTENDS ServerLoop, SessionTableProofs, FiniteSetTheorems

(* The least element of a set of naturals, and induction over them, from   *)
(* the well-foundedness of their order.                                    *)
LessThan == {pair \in Nat \X Nat : pair[1] < pair[2]}

LEMMA LessThanWellFounded == IsWellFoundedOn(LessThan, Nat)
BY NatLessThanWellFounded DEF OpToRel, LessThan

LEMMA Least ==
  ASSUME NEW S \in SUBSET Nat, S # {}
  PROVE  \E n \in S : \A m \in S : n <= m
<1>1. PICK n \in S : \A m \in S : ~(<<m, n>> \in LessThan)
  BY LessThanWellFounded, WFMin
<1>2. ASSUME NEW m \in S PROVE n <= m
  <2>1. n \in Nat /\ m \in Nat
    OBVIOUS
  <2>2. \A i, j \in Nat : i < j => <<i, j>> \in LessThan
    BY DEF LessThan
  <2>3. ~(m < n)
    BY <1>1, <2>1, <2>2, Zenon
  <2> QED
    BY <2>1, <2>3
<1> QED
  BY <1>2

LEMMA Induction ==
  ASSUME NEW S \in SUBSET Nat, 0 \in S, \A n \in S : n + 1 \in S
  PROVE  S = Nat
<1> SUFFICES ASSUME Nat \ S # {} PROVE FALSE
  OBVIOUS
<1> DEFINE T == Nat \ S
<1>1. PICK n \in T : \A m \in T : n <= m
  BY Least
<1>2. n # 0 /\ n \in Nat
  BY <1>1
<1>3. n - 1 \in Nat /\ n - 1 \notin T
  BY <1>1, <1>2
<1>4. (n - 1) + 1 = n
  BY <1>2
<1> QED
  BY <1>1, <1>3, <1>4

(* A loop that takes count turns has a state after each of them: this is   *)
(* what the recursive functions of the model need to be what they say.     *)
Runs(S, start, step, count) ==
  {f \in [0..count -> S] : f[0] = start /\ \A n \in 1..count : f[n] = step[f[n - 1]]}

LEMMA Iteration ==
  ASSUME NEW S, NEW start \in S, NEW step \in [S -> S], NEW count \in Nat
  PROVE  Runs(S, start, step, count) # {}
<1> DEFINE IsRun(n, f) == f[0] = start /\ \A i \in 1..n : f[i] = step[f[i - 1]]
           T == {n \in Nat : \E f \in [0..n -> S] : IsRun(n, f)}
<1>1. 0 \in T
  <2> DEFINE f == [i \in 0..0 |-> start]
  <2>1. f \in [0..0 -> S] /\ IsRun(0, f)
    OBVIOUS
  <2> QED
    BY <2>1
<1>2. ASSUME NEW n \in T PROVE n + 1 \in T
  <2>1. PICK f \in [0..n -> S] : IsRun(n, f)
    OBVIOUS
  <2> DEFINE g == [i \in 0..(n + 1) |-> IF i = n + 1 THEN step[f[n]] ELSE f[i]]
  <2>2. n \in Nat /\ f[n] \in S
    OBVIOUS
  <2>3. g \in [0..(n + 1) -> S] /\ g[n + 1] = step[f[n]] /\ \A i \in 0..n : g[i] = f[i]
    BY <2>2
  <2> HIDE DEF g
  <2>4. \A i \in 1..(n + 1) : g[i] = step[g[i - 1]]
    <3>1. SUFFICES ASSUME NEW i \in 1..(n + 1) PROVE g[i] = step[g[i - 1]]
      OBVIOUS
    <3>2. CASE i = n + 1
      BY <2>2, <2>3, <3>2
    <3>3. CASE i \in 1..n
      <4>1. i \in 0..n /\ i - 1 \in 0..n
        BY <2>2, <3>3
      <4>2. f[i] = step[f[i - 1]]
        BY <2>1, <3>3
      <4> QED
        BY <2>3, <4>1, <4>2
    <3> QED
      BY <2>2, <3>2, <3>3
  <2>5. g[0] = start
    BY <2>1, <2>2, <2>3
  <2>6. IsRun(n + 1, g)
    BY <2>4, <2>5
  <2> QED
    BY <2>2, <2>3, <2>6
<1>3. T \in SUBSET Nat
  OBVIOUS
<1> HIDE DEF T
<1>4. T = Nat
  BY <1>1, <1>2, <1>3, Induction
<1> QED
  BY <1>4 DEF T, Runs

----------------------------------------------------------------------------
(* The heap while it is worked on: a position in an array of the same      *)
(* length.                                                                 *)
Positions(length) == [heap : [1..length -> Sessions], index : 1..length]

LEMMA SequencesAreFunctions ==
  ASSUME NEW S, NEW length \in Nat, NEW h
  PROVE  h \in [1..length -> S] <=> h \in Seq(S) /\ Len(h) = length
OBVIOUS

LEMMA SameSize ==
  ASSUME NEW S, IsFiniteSet(S), NEW T, NEW f \in [S -> T],
         \A a, b \in S : f[a] = f[b] => a = b,
         \A t \in T : \E s \in S : f[s] = t
  PROVE  IsFiniteSet(T) /\ Cardinality(T) = Cardinality(S)
<1>1. DOMAIN f = S
  OBVIOUS
<1>2. f \in Injection(S, T)
  BY <1>1 DEF Injection, IsInjective
<1>3. f \in Surjection(S, T)
  BY DEF Surjection
<1>4. ExistsBijection(S, T)
  BY <1>2, <1>3 DEF ExistsBijection, Bijection
<1> QED
  BY <1>4, FS_Bijection

(* Swapping keeps the entries, and how often each is there.                *)
LEMMA Swapped ==
  ASSUME NEW length \in Nat, NEW h \in [1..length -> Sessions],
         NEW i \in 1..length, NEW j \in 1..length
  PROVE  /\ Swap(h, i, j) \in [1..length -> Sessions]
         /\ Swap(h, i, j)[i] = h[j] /\ Swap(h, i, j)[j] = h[i]
         /\ \A k \in 1..length : k # i /\ k # j => Swap(h, i, j)[k] = h[k]
BY DEF Swap

LEMMA SwapKeepsCount ==
  ASSUME NEW length \in Nat, NEW h \in [1..length -> Sessions],
         NEW i \in 1..length, NEW j \in 1..length, NEW session
  PROVE  Count(Swap(h, i, j), session) = Count(h, session)
<1> DEFINE g == Swap(h, i, j)
           move == [k \in 1..length |-> IF k = i THEN j ELSE IF k = j THEN i ELSE k]
           S == {k \in 1..length : h[k] = session}
           T == {k \in 1..length : g[k] = session}
           f == [k \in S |-> move[k]]
<1>1. /\ g \in [1..length -> Sessions] /\ g[i] = h[j] /\ g[j] = h[i]
      /\ \A k \in 1..length : k # i /\ k # j => g[k] = h[k]
  BY Swapped
<1> HIDE DEF g
<1>2. /\ move \in [1..length -> 1..length]
      /\ \A k \in 1..length : move[move[k]] = k /\ g[move[k]] = h[k]
  BY <1>1
<1>3. \A k \in 1..length : g[k] = h[move[k]]
  BY <1>2
<1> HIDE DEF move
<1>4. \A k \in S : f[k] = move[k] /\ f[k] \in T
  BY <1>2
<1>6. IsFiniteSet(S)
  <2>1. IsFiniteSet(1..length)
    BY FS_Interval
  <2> QED
    BY <2>1, FS_Subset
<1>8. Cardinality(T) = Cardinality(S)
  <2>1. f \in [S -> T]
    BY <1>4
  <2>2. \A a, b \in S : f[a] = f[b] => a = b
    BY <1>2, <1>4
  <2>3. \A t \in T : \E s \in S : f[s] = t
    <3>1. SUFFICES ASSUME NEW t \in T PROVE move[t] \in S /\ f[move[t]] = t
      OBVIOUS
    <3> QED
      BY <1>2, <1>3
  <2> HIDE DEF f, S, T
  <2> QED
    BY <1>6, <2>1, <2>2, <2>3, SameSize
<1>9. Len(h) = length /\ Len(g) = length
  BY <1>1
<1> QED
  BY <1>8, <1>9 DEF Count, g

(* One turn of either loop swaps two entries or none.                      *)
SameEntries(h, g) ==
  Entries(g) = Entries(h) /\ \A session : Count(g, session) = Count(h, session)

LEMMA SwapKeepsEntries ==
  ASSUME NEW length \in Nat, NEW h \in [1..length -> Sessions],
         NEW i \in 1..length, NEW j \in 1..length
  PROVE  Swap(h, i, j) \in [1..length -> Sessions] /\ SameEntries(h, Swap(h, i, j))
<1> DEFINE g == Swap(h, i, j)
<1>1. /\ g \in [1..length -> Sessions] /\ g[i] = h[j] /\ g[j] = h[i]
      /\ \A k \in 1..length : k # i /\ k # j => g[k] = h[k]
  BY Swapped
<1>2. \A session : Count(g, session) = Count(h, session)
  BY SwapKeepsCount
<1> HIDE DEF g
<1>3. Len(h) = length /\ Len(g) = length
  BY <1>1
<1>4. ASSUME NEW session \in Entries(h) PROVE session \in Entries(g)
  <2>1. PICK k \in 1..length : session = h[k]
    BY <1>3 DEF Entries
  <2>2. session = g[j] \/ session = g[i] \/ session = g[k]
    BY <1>1, <2>1
  <2> QED
    BY <1>3, <2>2 DEF Entries
<1>5. ASSUME NEW session \in Entries(g) PROVE session \in Entries(h)
  <2>1. PICK k \in 1..length : session = g[k]
    BY <1>3 DEF Entries
  <2>2. session = h[j] \/ session = h[i] \/ session = h[k]
    BY <1>1, <2>1
  <2> QED
    BY <1>3, <2>2 DEF Entries
<1> QED
  BY <1>1, <1>2, <1>4, <1>5 DEF SameEntries, g

LEMMA RiseKeepsEntries ==
  ASSUME NEW length \in Nat, NEW at \in Positions(length), NEW time
  PROVE  Rise(at, time) \in Positions(length) /\ SameEntries(at.heap, Rise(at, time).heap)
<1> DEFINE i == at.index
           parent == i \div 2
<1>1. at.heap \in [1..length -> Sessions] /\ i \in 1..length
  BY DEF Positions
<1>2. CASE Rise(at, time) = at
  BY <1>2 DEF SameEntries
<1>3. CASE i # 1 /\ Rise(at, time) = [heap |-> Swap(at.heap, i, parent), index |-> parent]
  <2>1. parent \in 1..length
    BY <1>1, <1>3
  <2> HIDE DEF i, parent
  <2>2. /\ Swap(at.heap, i, parent) \in [1..length -> Sessions]
        /\ SameEntries(at.heap, Swap(at.heap, i, parent))
    BY <1>1, <2>1, SwapKeepsEntries
  <2> QED
    BY <1>3, <2>1, <2>2 DEF Positions
<1> QED
  BY <1>2, <1>3 DEF Rise

LEMMA SinkKeepsEntries ==
  ASSUME NEW length \in Nat, NEW at \in Positions(length), NEW time
  PROVE  Sink(at, time) \in Positions(length) /\ SameEntries(at.heap, Sink(at, time).heap)
<1> DEFINE i == at.index
           left == 2 * i
<1>1. at.heap \in [1..length -> Sessions] /\ i \in 1..length /\ Len(at.heap) = length
  BY DEF Positions
<1>2. CASE Sink(at, time) = at
  BY <1>2 DEF SameEntries
<1>3. CASE left <= length /\ Sink(at, time) = [heap |-> Swap(at.heap, i, left), index |-> left]
  <2>1. left \in 1..length
    BY <1>1, <1>3
  <2> HIDE DEF i, left
  <2>2. /\ Swap(at.heap, i, left) \in [1..length -> Sessions]
        /\ SameEntries(at.heap, Swap(at.heap, i, left))
    BY <1>1, <2>1, SwapKeepsEntries
  <2> QED
    BY <1>3, <2>1, <2>2 DEF Positions
<1>4. left + 1 <= length => left <= length
  BY <1>1
<1> QED
  BY <1>1, <1>2, <1>3, <1>4 DEF Sink

(* Induction up to a bound.                                                *)
LEMMA InductionUpTo ==
  ASSUME NEW count \in Nat, NEW T, 0 \in T, \A n \in 1..count : n - 1 \in T => n \in T
  PROVE  \A n \in 0..count : n \in T
<1> DEFINE S == {n \in Nat : n <= count => n \in T}
<1>1. S \in SUBSET Nat /\ 0 \in S
  OBVIOUS
<1>2. ASSUME NEW n \in S PROVE n + 1 \in S
  <2>1. SUFFICES ASSUME n + 1 <= count PROVE n + 1 \in T
    OBVIOUS
  <2>2. n \in T /\ n + 1 \in 1..count /\ (n + 1) - 1 = n
    BY <2>1
  <2>3. (n + 1) - 1 \in T
    BY <2>2
  <2> QED
    BY <2>2, <2>3
<1> HIDE DEF S
<1>3. S = Nat
  BY <1>1, <1>2, Induction
<1> QED
  BY <1>3 DEF S

(* The turns of the up-heap loop and the calls of heapify pass from one    *)
(* position to the next.                                                   *)
Rises(length, start, time) ==
  {u \in [0..length -> Positions(length)] :
     u[0] = start /\ \A n \in 1..length : u[n] = Rise(u[n - 1], time)}

Sinks(length, start, time) ==
  {u \in [0..length -> Positions(length)] :
     u[0] = start /\ \A n \in 1..length : u[n] = Sink(u[n - 1], time)}

LEMMA RiseIterates ==
  ASSUME NEW length \in Nat, NEW start \in Positions(length), NEW time
  PROVE  Rises(length, start, time) # {}
<1> DEFINE P == Positions(length)
           step == [at \in P |-> Rise(at, time)]
<1>1. step \in [P -> P] /\ \A at \in P : step[at] = Rise(at, time)
  BY RiseKeepsEntries
<1>2. start \in P
  OBVIOUS
<1> HIDE DEF P, step
<1>3. PICK f \in [0..length -> P] : f[0] = start /\ \A n \in 1..length : f[n] = step[f[n - 1]]
  <2>1. Runs(P, start, step, length) # {}
    BY <1>1, <1>2, Iteration
  <2> QED
    BY <2>1 DEF Runs
<1>4. \A n \in 1..length : n - 1 \in 0..length
  OBVIOUS
<1>5. \A n \in 1..length : f[n] = Rise(f[n - 1], time)
  BY <1>1, <1>3, <1>4
<1> QED
  BY <1>3, <1>5 DEF P, Rises

LEMMA UpHeapRuns ==
  ASSUME NEW length \in Nat \ {0}, NEW h \in [1..length -> Sessions], NEW time
  PROVE  \E u \in Rises(length, [heap |-> h, index |-> length], time) :
           UpHeap(h, time) = u[length].heap
<1> DEFINE P == Positions(length)
           start == [heap |-> h, index |-> length]
           Body(u) == [turn \in 0..length |-> IF turn = 0 THEN start ELSE Rise(u[turn - 1], time)]
           up == CHOOSE u : u = Body(u)
<1>1. Len(h) = length /\ length \in Nat
  OBVIOUS
<1>2. UpHeap(h, time) = up[length].heap
  BY <1>1 DEF UpHeap
<1>3. start \in P
  BY DEF Positions
<1>4. up = Body(up)
  <2>1. PICK f \in [0..length -> P] : f[0] = start /\ \A n \in 1..length : f[n] = Rise(f[n - 1], time)
    <3>1. Rises(length, start, time) # {}
      BY <1>1, <1>3, RiseIterates
    <3> QED
      BY <3>1 DEF Rises
  <2>2. f = Body(f)
    <3> HIDE DEF P, start
    <3> QED
      BY <2>1
  <2> HIDE DEF Body
  <2> QED
    BY <2>2
<1> HIDE DEF up
<1>5. up[0] = start /\ \A n \in 1..length : up[n] = Rise(up[n - 1], time)
  <2> HIDE DEF start
  <2> QED
    BY <1>4
<1>6. \A n \in 0..length : up[n] \in P
  <2> DEFINE T == {n \in 0..length : up[n] \in P}
  <2>1. 0 \in T
    BY <1>3, <1>5
  <2>2. ASSUME NEW n \in 1..length, n - 1 \in T PROVE n \in T
    BY <1>5, <2>2, RiseKeepsEntries
  <2> HIDE DEF T
  <2>3. \A n \in 0..length : n \in T
    BY <2>1, <2>2, InductionUpTo
  <2> QED
    BY <2>3 DEF T
<1>7. up \in [0..length -> P]
  <2>1. up = [n \in 0..length |-> up[n]]
    <3> HIDE DEF start
    <3> QED
      BY <1>4
  <2> HIDE DEF P
  <2> QED
    BY <1>6, <2>1
<1>8. up \in Rises(length, start, time)
  BY <1>5, <1>7 DEF Rises
<1> QED
  BY <1>2, <1>8

LEMMA SinkIterates ==
  ASSUME NEW length \in Nat, NEW start \in Positions(length), NEW time
  PROVE  Sinks(length, start, time) # {}
<1> DEFINE P == Positions(length)
           step == [at \in P |-> Sink(at, time)]
<1>1. step \in [P -> P] /\ \A at \in P : step[at] = Sink(at, time)
  BY SinkKeepsEntries
<1>2. start \in P
  OBVIOUS
<1> HIDE DEF P, step
<1>3. PICK f \in [0..length -> P] : f[0] = start /\ \A n \in 1..length : f[n] = step[f[n - 1]]
  <2>1. Runs(P, start, step, length) # {}
    BY <1>1, <1>2, Iteration
  <2> QED
    BY <2>1 DEF Runs
<1>4. \A n \in 1..length : n - 1 \in 0..length
  OBVIOUS
<1>5. \A n \in 1..length : f[n] = Sink(f[n - 1], time)
  BY <1>1, <1>3, <1>4
<1> QED
  BY <1>3, <1>5 DEF P, Sinks

LEMMA HeapifyRuns ==
  ASSUME NEW length \in Nat \ {0}, NEW h \in [1..length -> Sessions], NEW time
  PROVE  \E u \in Sinks(length, [heap |-> h, index |-> 1], time) :
           Heapify(h, time) = u[length].heap
<1> DEFINE P == Positions(length)
           start == [heap |-> h, index |-> 1]
           Body(u) == [call \in 0..length |-> IF call = 0 THEN start ELSE Sink(u[call - 1], time)]
           down == CHOOSE u : u = Body(u)
<1>1. Len(h) = length /\ length \in Nat
  OBVIOUS
<1>2. Heapify(h, time) = down[length].heap
  BY <1>1 DEF Heapify
<1>3. start \in P
  BY DEF Positions
<1>4. down = Body(down)
  <2>1. PICK f \in [0..length -> P] : f[0] = start /\ \A n \in 1..length : f[n] = Sink(f[n - 1], time)
    <3>1. Sinks(length, start, time) # {}
      BY <1>1, <1>3, SinkIterates
    <3> QED
      BY <3>1 DEF Sinks
  <2>2. f = Body(f)
    <3> HIDE DEF P, start
    <3> QED
      BY <2>1
  <2> HIDE DEF Body
  <2> QED
    BY <2>2
<1> HIDE DEF down
<1>5. down[0] = start /\ \A n \in 1..length : down[n] = Sink(down[n - 1], time)
  <2> HIDE DEF start
  <2> QED
    BY <1>4
<1>6. \A n \in 0..length : down[n] \in P
  <2> DEFINE T == {n \in 0..length : down[n] \in P}
  <2>1. 0 \in T
    BY <1>3, <1>5
  <2>2. ASSUME NEW n \in 1..length, n - 1 \in T PROVE n \in T
    BY <1>5, <2>2, SinkKeepsEntries
  <2> HIDE DEF T
  <2>3. \A n \in 0..length : n \in T
    BY <2>1, <2>2, InductionUpTo
  <2> QED
    BY <2>3 DEF T
<1>7. down \in [0..length -> P]
  <2>1. down = [n \in 0..length |-> down[n]]
    <3> HIDE DEF start
    <3> QED
      BY <1>4
  <2> HIDE DEF P
  <2> QED
    BY <1>6, <2>1
<1>8. down \in Sinks(length, start, time)
  BY <1>5, <1>7 DEF Sinks
<1> QED
  BY <1>2, <1>8

LEMMA UpHeapKeepsEntries ==
  ASSUME NEW length \in Nat \ {0}, NEW h \in [1..length -> Sessions], NEW time
  PROVE  UpHeap(h, time) \in [1..length -> Sessions] /\ SameEntries(h, UpHeap(h, time))
<1> DEFINE start == [heap |-> h, index |-> length]
<1>1. PICK u \in Rises(length, start, time) : UpHeap(h, time) = u[length].heap
  BY UpHeapRuns
<1>2. /\ u \in [0..length -> Positions(length)] /\ u[0] = start
      /\ \A n \in 1..length : u[n] = Rise(u[n - 1], time)
  BY DEF Rises
<1>3. length \in Nat /\ length \in 0..length
  OBVIOUS
<1> DEFINE T == {n \in 0..length : SameEntries(h, u[n].heap)}
<1>4. 0 \in T
  BY <1>2 DEF SameEntries
<1>5. ASSUME NEW n \in 1..length, n - 1 \in T PROVE n \in T
  <2>1. u[n - 1] \in Positions(length) /\ u[n] = Rise(u[n - 1], time)
    BY <1>2, <1>5
  <2>2. SameEntries(u[n - 1].heap, u[n].heap)
    BY <1>3, <2>1, RiseKeepsEntries
  <2> QED
    BY <1>5, <2>2 DEF SameEntries
<1> HIDE DEF T
<1>6. \A n \in 0..length : n \in T
  BY <1>3, <1>4, <1>5, InductionUpTo
<1>7. SameEntries(h, u[length].heap)
  BY <1>3, <1>6 DEF T
<1>8. u[length].heap \in [1..length -> Sessions]
  BY <1>2, <1>3 DEF Positions
<1> QED
  BY <1>1, <1>7, <1>8

LEMMA HeapifyKeepsEntries ==
  ASSUME NEW length \in Nat \ {0}, NEW h \in [1..length -> Sessions], NEW time
  PROVE  Heapify(h, time) \in [1..length -> Sessions] /\ SameEntries(h, Heapify(h, time))
<1> DEFINE start == [heap |-> h, index |-> 1]
<1>1. PICK u \in Sinks(length, start, time) : Heapify(h, time) = u[length].heap
  BY HeapifyRuns
<1>2. /\ u \in [0..length -> Positions(length)] /\ u[0] = start
      /\ \A n \in 1..length : u[n] = Sink(u[n - 1], time)
  BY DEF Sinks
<1>3. length \in Nat /\ length \in 0..length
  OBVIOUS
<1> DEFINE T == {n \in 0..length : SameEntries(h, u[n].heap)}
<1>4. 0 \in T
  BY <1>2 DEF SameEntries
<1>5. ASSUME NEW n \in 1..length, n - 1 \in T PROVE n \in T
  <2>1. u[n - 1] \in Positions(length) /\ u[n] = Sink(u[n - 1], time)
    BY <1>2, <1>5
  <2>2. SameEntries(u[n - 1].heap, u[n].heap)
    BY <1>3, <2>1, SinkKeepsEntries
  <2> QED
    BY <1>5, <2>2 DEF SameEntries
<1> HIDE DEF T
<1>6. \A n \in 0..length : n \in T
  BY <1>3, <1>4, <1>5, InductionUpTo
<1>7. SameEntries(h, u[length].heap)
  BY <1>3, <1>6 DEF T
<1>8. u[length].heap \in [1..length -> Sessions]
  BY <1>2, <1>3 DEF Positions
<1> QED
  BY <1>1, <1>7, <1>8

(* What adding a session and popping one make of the entries.              *)
LEMMA AppendedEntries ==
  ASSUME NEW h \in Seq(Sessions), NEW session \in Sessions
  PROVE  LET g == Append(h, session)
         IN /\ Entries(g) = Entries(h) \cup {session}
            /\ \A other : Count(g, other) = Count(h, other) + (IF other = session THEN 1 ELSE 0)
<1> DEFINE g == Append(h, session)
<1>1. /\ Len(g) = Len(h) + 1 /\ Len(h) \in Nat /\ g[Len(h) + 1] = session
      /\ \A i \in 1..Len(h) : g[i] = h[i]
  OBVIOUS
<1> HIDE DEF g
<1>2. \A i : i \in 1..Len(g) <=> i \in 1..Len(h) \/ i = Len(h) + 1
  BY <1>1
<1>3. Entries(g) = Entries(h) \cup {session}
  <2>1. ASSUME NEW x \in Entries(h) PROVE x \in Entries(g)
    <3>1. PICK i \in 1..Len(h) : x = h[i]
      BY DEF Entries
    <3> QED
      BY <1>1, <1>2, <3>1 DEF Entries
  <2>2. session \in Entries(g)
    BY <1>1, <1>2 DEF Entries
  <2>3. ASSUME NEW x \in Entries(g) PROVE x \in Entries(h) \cup {session}
    <3>1. PICK i \in 1..Len(g) : x = g[i]
      BY DEF Entries
    <3> QED
      BY <1>1, <1>2, <3>1 DEF Entries
  <2> QED
    BY <2>1, <2>2, <2>3
<1>4. ASSUME NEW other
      PROVE  Count(g, other) = Count(h, other) + (IF other = session THEN 1 ELSE 0)
  <2> DEFINE S == {i \in 1..Len(h) : h[i] = other}
             R == {i \in 1..Len(g) : g[i] = other}
  <2>1. IsFiniteSet(S) /\ Cardinality(S) \in Nat
    <3>1. IsFiniteSet(1..Len(h))
      BY <1>1, FS_Interval
    <3> QED
      BY <3>1, FS_Subset, FS_CardinalityType
  <2>2. Len(h) + 1 \notin S
    BY <1>1
  <2>3. R = IF other = session THEN S \cup {Len(h) + 1} ELSE S
    BY <1>1, <1>2
  <2> HIDE DEF S, R
  <2>4. Cardinality(S \cup {Len(h) + 1}) = Cardinality(S) + 1
    BY <2>1, <2>2, FS_AddElement
  <2>5. Cardinality(R) = Cardinality(S) + (IF other = session THEN 1 ELSE 0)
    BY <2>1, <2>3, <2>4
  <2> QED
    BY <2>5 DEF Count, S, R
<1> QED
  BY <1>3, <1>4 DEF g

LEMMA AddedEntries ==
  ASSUME NEW h \in Seq(Sessions), NEW session \in Sessions, NEW time
  PROVE  LET g == Added(h, time, session)
         IN /\ g \in Seq(Sessions) /\ Len(g) = Len(h) + 1
            /\ Entries(g) = Entries(h) \cup {session}
            /\ \A other : Count(g, other) = Count(h, other) + (IF other = session THEN 1 ELSE 0)
<1> DEFINE a == Append(h, session)
           length == Len(h) + 1
<1>1. length \in Nat \ {0} /\ a \in [1..length -> Sessions]
  <2>1. length \in Nat \ {0} /\ a \in Seq(Sessions) /\ Len(a) = length
    OBVIOUS
  <2> HIDE DEF a, length
  <2> QED
    BY <2>1, SequencesAreFunctions
<1>2. Added(h, time, session) = UpHeap(a, time)
  BY DEF Added
<1>3. /\ Entries(a) = Entries(h) \cup {session}
      /\ \A other : Count(a, other) = Count(h, other) + (IF other = session THEN 1 ELSE 0)
  BY AppendedEntries
<1> HIDE DEF a, length
<1>4. UpHeap(a, time) \in [1..length -> Sessions] /\ SameEntries(a, UpHeap(a, time))
  BY <1>1, UpHeapKeepsEntries
<1>5. UpHeap(a, time) \in Seq(Sessions) /\ Len(UpHeap(a, time)) = length
  BY <1>1, <1>4, SequencesAreFunctions
<1> QED
  BY <1>2, <1>3, <1>4, <1>5 DEF SameEntries, length

LEMMA PoppedEntries ==
  ASSUME NEW h \in Seq(Sessions), h # <<>>, NEW time
  PROVE  LET g == Popped(h, time)
         IN /\ g \in Seq(Sessions) /\ Len(g) = Len(h) - 1
            /\ Entries(h) = Entries(g) \cup {h[1]}
            /\ \A other : Count(h, other) = Count(g, other) + (IF other = h[1] THEN 1 ELSE 0)
<1> DEFINE length == Len(h)
           g == Popped(h, time)
           rest == SubSeq(h, 1, length - 1)
           moved == [rest EXCEPT ![1] = h[length]]
<1>1. /\ length \in Nat /\ length >= 1
      /\ rest \in Seq(Sessions) /\ Len(rest) = length - 1
      /\ \A i \in 1..(length - 1) : rest[i] = h[i]
      /\ \A i \in 1..length : h[i] \in Sessions
  <2>1. /\ length \in Nat /\ length >= 1
        /\ \A i \in 1..length : h[i] \in Sessions
    OBVIOUS
  <2>2. 1 \in Int /\ length - 1 \in Int /\ \A i \in 1..(length - 1) : h[i] \in Sessions
    BY <2>1
  <2> HIDE DEF length
  <2>3. /\ rest \in Seq(Sessions)
        /\ Len(rest) = IF 1 <= length - 1 THEN (length - 1) - 1 + 1 ELSE 0
        /\ \A i \in 1..((length - 1) - 1 + 1) : rest[i] = h[1 + i - 1]
    BY <2>2, SubSeqProperties
  <2> HIDE DEF rest
  <2> QED
    BY <2>1, <2>3
<1>2. g = IF rest = <<>> THEN <<>> ELSE Heapify(moved, time)
  BY DEF Popped
<1>3. CASE length = 1
  <2>1. rest = <<>> /\ g = <<>>
    BY <1>1, <1>2, <1>3
  <2>2. Entries(h) = {h[1]} /\ Entries(<<>>) = {}
    BY <1>3 DEF Entries
  <2>3. ASSUME NEW other
        PROVE  /\ Count(<<>>, other) = 0
               /\ Count(h, other) = IF other = h[1] THEN 1 ELSE 0
    <3>1. {i \in 1..Len(h) : h[i] = other} = IF other = h[1] THEN {1} ELSE {}
      BY <1>3
    <3>2. {i \in 1..0 : <<>>[i] = other} = {} /\ Len(<<>>) = 0
      OBVIOUS
    <3>3. Cardinality({}) = 0 /\ Cardinality({1}) = 1
      BY FS_EmptySet, FS_Singleton
    <3> QED
      BY <3>1, <3>2, <3>3 DEF Count
  <2>4. g \in Seq(Sessions) /\ Len(g) = Len(h) - 1
    BY <1>3, <2>1
  <2> QED
    BY <2>1, <2>2, <2>3, <2>4
<1>4. CASE length > 1
  <2> DEFINE less == length - 1
  <2>1. /\ less \in Nat \ {0} /\ moved \in [1..less -> Sessions]
        /\ moved[1] = h[length] /\ \A i \in 2..less : moved[i] = h[i]
    <3>1. less \in Nat \ {0} /\ length \in 1..length /\ 1 \in 1..less
      BY <1>1, <1>4
    <3>2. rest \in [1..less -> Sessions]
      <4> HIDE DEF rest, length
      <4> QED
        BY <1>1, <3>1, SequencesAreFunctions
    <3> HIDE DEF rest, length
    <3> QED
      BY <1>1, <1>4, <3>1, <3>2
  <2>2. g = Heapify(moved, time)
    <3>1. rest # <<>>
      <4> HIDE DEF rest, length
      <4> QED
        BY <1>1, <1>4
    <3> QED
      BY <1>2, <3>1
  <2> HIDE DEF g, moved, rest
  <2>3. Heapify(moved, time) \in [1..less -> Sessions] /\ SameEntries(moved, Heapify(moved, time))
    <3> HIDE DEF less
    <3> QED
      BY <2>1, HeapifyKeepsEntries
  <2>4. less \in Nat /\ g \in Seq(Sessions) /\ Len(g) = less /\ Len(moved) = less
    <3> HIDE DEF less
    <3> QED
      BY <2>1, <2>2, <2>3, SequencesAreFunctions
  <2>5. Entries(h) = Entries(moved) \cup {h[1]}
    <3>1. ASSUME NEW x \in Entries(h) PROVE x \in Entries(moved) \cup {h[1]}
      <4>1. PICK i \in 1..length : x = h[i]
        BY DEF Entries
      <4>2. CASE i = 1
        BY <4>1, <4>2
      <4>3. CASE i = length
        BY <2>1, <2>4, <4>1, <4>3 DEF Entries
      <4>4. CASE i \in 2..less
        BY <2>1, <2>4, <4>1, <4>4 DEF Entries
      <4> QED
        BY <1>1, <4>2, <4>3, <4>4
    <3>2. ASSUME NEW x \in Entries(moved) PROVE x \in Entries(h)
      <4>1. PICK i \in 1..less : x = moved[i]
        BY <2>4 DEF Entries
      <4>2. i = 1 \/ i \in 2..less
        BY <2>1
      <4> QED
        BY <1>1, <2>1, <4>1, <4>2 DEF Entries
    <3>3. h[1] \in Entries(h)
      BY <1>1 DEF Entries
    <3> QED
      BY <3>1, <3>2, <3>3
  <2>6. ASSUME NEW other
        PROVE  Count(h, other) = Count(moved, other) + (IF other = h[1] THEN 1 ELSE 0)
    <3> DEFINE R == {i \in 1..length : h[i] = other}
               S == {i \in 2..length : h[i] = other}
               T == {i \in 1..less : moved[i] = other}
               f == [i \in S |-> IF i = length THEN 1 ELSE i]
    <3>1. IsFiniteSet(S) /\ Cardinality(S) \in Nat
      <4>1. IsFiniteSet(2..length)
        BY <1>1, FS_Interval
      <4> QED
        BY <4>1, FS_Subset, FS_CardinalityType
    <3>2. R = IF other = h[1] THEN S \cup {1} ELSE S
      BY <1>1
    <3>3. 1 \notin S
      OBVIOUS
    <3>4. f \in [S -> T]
      BY <1>1, <1>4, <2>1
    <3>5. \A a, b \in S : f[a] = f[b] => a = b
      BY <1>1, <1>4
    <3>6. \A t \in T : \E s \in S : f[s] = t
      <4>1. SUFFICES ASSUME NEW t \in T PROVE \E s \in S : f[s] = t
        OBVIOUS
      <4>2. CASE t = 1
        <5>1. length \in S /\ f[length] = 1
          BY <1>1, <1>4, <2>1, <4>1, <4>2
        <5> QED
          BY <4>2, <5>1
      <4>3. CASE t \in 2..less
        <5>1. t \in S /\ f[t] = t
          BY <1>1, <1>4, <2>1, <4>1, <4>3
        <5> QED
          BY <5>1
      <4> QED
        BY <2>1, <4>1, <4>2, <4>3
    <3> HIDE DEF R, S, T, f
    <3>7. Cardinality(T) = Cardinality(S)
      BY <3>1, <3>4, <3>5, <3>6, SameSize
    <3>8. Cardinality(S \cup {1}) = Cardinality(S) + 1
      BY <3>1, <3>3, FS_AddElement
    <3>9. Cardinality(R) = Cardinality(T) + (IF other = h[1] THEN 1 ELSE 0)
      BY <3>1, <3>2, <3>7, <3>8
    <3> QED
      BY <2>4, <3>9 DEF Count, R, T
  <2> QED
    BY <2>2, <2>3, <2>4, <2>5, <2>6 DEF SameEntries, g
<1> QED
  BY <1>1, <1>3, <1>4

----------------------------------------------------------------------------
(* The order of the heap but for the entry at position i, which may be     *)
(* smaller than its parent: its children are in order with its parent.     *)
Parent(k) == k \div 2

Ordered(h, time) == \A k \in 2..Len(h) : time[h[Parent(k)]] <= time[h[k]]

OrderedBut(length, h, i, time) ==
  /\ \A k \in 2..length : k # i => time[h[Parent(k)]] <= time[h[k]]
  /\ \A k \in 2..length : i > 1 /\ Parent(k) = i => time[h[Parent(i)]] <= time[h[k]]

LEMMA ParentIsAbove ==
  ASSUME NEW k \in Nat, k >= 2
  PROVE  Parent(k) \in Nat /\ 1 <= Parent(k) /\ Parent(k) < k
BY DEF Parent

LEMMA RiseKeepsOrder ==
  ASSUME NEW length \in Nat, NEW at \in Positions(length), NEW time \in [Sessions -> Int],
         OrderedBut(length, at.heap, at.index, time)
  PROVE  LET to == Rise(at, time)
         IN /\ OrderedBut(length, to.heap, to.index, time)
            /\ \/ to.index < at.index
               \/ to = at /\ \A k \in 2..length :
                               time[at.heap[Parent(k)]] <= time[at.heap[k]]
<1> DEFINE h == at.heap
           i == at.index
           p == Parent(i)
           g == Swap(h, i, p)
<1>1. h \in [1..length -> Sessions] /\ i \in 1..length
  BY DEF Positions
<1>2. Rise(at, time) = IF i = 1 \/ time[h[p]] < time[h[i]] THEN at ELSE [heap |-> g, index |-> p]
  BY DEF Rise, Parent
<1>3. CASE i = 1 \/ time[h[p]] < time[h[i]]
  <2>1. Rise(at, time) = at
    BY <1>2, <1>3
  <2>2. ASSUME NEW k \in 2..length PROVE time[h[Parent(k)]] <= time[h[k]]
    <3>1. CASE k # i
      BY <2>2, <3>1 DEF OrderedBut
    <3>2. CASE k = i
      <4>1. p \in 1..length /\ time[h[p]] < time[h[i]]
        BY <1>1, <1>3, <3>2, ParentIsAbove
      <4>2. time[h[p]] \in Int /\ time[h[i]] \in Int
        BY <1>1, <4>1
      <4> QED
        BY <3>2, <4>1, <4>2
    <3> QED
      BY <3>1, <3>2
  <2> QED
    BY <2>1, <2>2
<1>4. CASE i # 1 /\ ~(time[h[p]] < time[h[i]])
  <2>1. p \in 1..length /\ p < i
    BY <1>1, <1>4, ParentIsAbove
  <2>2. /\ g[i] = h[p] /\ g[p] = h[i]
        /\ \A k \in 1..length : k # i /\ k # p => g[k] = h[k]
    <3> HIDE DEF h, i, p
    <3> QED
      BY <1>1, <2>1, Swapped DEF g
  <2> DEFINE v == [k \in 1..length |-> time[h[k]]]
             w == [k \in 1..length |-> time[g[k]]]
  <2>3. v \in [1..length -> Int]
    BY <1>1
  <2>4. w[i] = v[p] /\ w[p] = v[i] /\ v[i] <= v[p]
        /\ \A k \in 1..length : k # i /\ k # p => w[k] = v[k]
    <3>1. time[h[i]] \in Int /\ time[h[p]] \in Int
      BY <1>1, <2>1
    <3>2. /\ v[p] = time[h[p]] /\ v[i] = time[h[i]]
          /\ w[p] = time[g[p]] /\ w[i] = time[g[i]]
      BY <1>1, <2>1
    <3>3. \A k \in 1..length : v[k] = time[h[k]] /\ w[k] = time[g[k]]
      OBVIOUS
    <3> HIDE DEF v, w, h, i, p, g
    <3>4. v[i] <= v[p]
      BY <1>4, <3>1, <3>2
    <3> QED
      BY <2>2, <3>2, <3>3, <3>4
  <2>5. \A k \in 2..length : Parent(k) \in 1..length /\ Parent(k) < k
    BY ParentIsAbove
  <2>6. \A k \in 2..length : k # i => v[Parent(k)] <= v[k]
    BY <2>5 DEF OrderedBut
  <2>7. \A k \in 2..length : i > 1 /\ Parent(k) = i => v[p] <= v[k]
    BY <2>1, <2>5 DEF OrderedBut
  <2> HIDE DEF v, w, h, i, p, g
  <2>8. i \in 2..length /\ Parent(i) = p
    BY <1>1, <1>4 DEF p
  <2>9. ASSUME NEW k \in 2..length, k # p PROVE w[Parent(k)] <= w[k]
    <3>1. CASE k = i
      BY <2>1, <2>4, <2>8, <3>1
    <3>2. CASE k # i /\ Parent(k) = i
      BY <2>4, <2>5, <2>7, <2>8, <2>9, <3>2
    <3>3. CASE k # i /\ Parent(k) = p
      <4>1. w[k] = v[k] /\ v[p] <= v[k] /\ w[Parent(k)] = v[i] /\ v[i] <= v[p]
        BY <2>4, <2>6, <2>9, <3>3
      <4>2. v[k] \in Int /\ v[p] \in Int /\ v[i] \in Int
        BY <2>1, <2>3, <2>8
      <4> QED
        BY <4>1, <4>2
    <3>4. CASE k # i /\ Parent(k) # i /\ Parent(k) # p
      BY <2>4, <2>5, <2>6, <2>9, <3>4
    <3> QED
      BY <3>1, <3>2, <3>3, <3>4
  <2>10. ASSUME NEW k \in 2..length, p > 1, Parent(k) = p PROVE w[Parent(p)] <= w[k]
    <3>1. p \in 2..length /\ p # i /\ Parent(p) \in 1..length /\ Parent(p) < p
      BY <2>1, <2>5, <2>8, <2>10
    <3>2. w[Parent(p)] = v[Parent(p)] /\ v[Parent(p)] <= v[p]
      BY <2>1, <2>4, <2>6, <2>8, <3>1
    <3>3. CASE k = i
      BY <2>4, <3>2, <3>3
    <3>4. CASE k # i
      <4>1. k # p
        BY <2>5, <2>10
      <4>2. w[k] = v[k] /\ v[p] <= v[k]
        BY <2>4, <2>6, <2>10, <3>4, <4>1
      <4>3. v[k] \in Int /\ v[p] \in Int /\ v[Parent(p)] \in Int
        BY <2>3, <3>1
      <4> QED
        BY <3>2, <4>2, <4>3
    <3> QED
      BY <3>3, <3>4
  <2>11. OrderedBut(length, g, p, time)
    <3>1. \A k \in 1..length : w[k] = time[g[k]]
      BY DEF w
    <3>2. p > 1 => Parent(p) \in 1..length
      BY <2>1, <2>5, <2>8
    <3> QED
      BY <2>1, <2>5, <2>9, <2>10, <3>1, <3>2 DEF OrderedBut
  <2>12. Rise(at, time) = [heap |-> g, index |-> p]
    BY <1>2, <1>4
  <2> QED
    BY <2>1, <2>11, <2>12 DEF i
<1> QED
  BY <1>3, <1>4

LEMMA UpHeapOrders ==
  ASSUME NEW length \in Nat \ {0}, NEW h \in [1..length -> Sessions],
         NEW time \in [Sessions -> Int], OrderedBut(length, h, length, time)
  PROVE  Ordered(UpHeap(h, time), time)
<1> DEFINE start == [heap |-> h, index |-> length]
<1>1. PICK u \in Rises(length, start, time) : UpHeap(h, time) = u[length].heap
  BY UpHeapRuns
<1>2. /\ u \in [0..length -> Positions(length)] /\ u[0] = start
      /\ \A n \in 1..length : u[n] = Rise(u[n - 1], time)
  BY DEF Rises
<1>3. length \in Nat /\ length \in 0..length /\ length > 0
  OBVIOUS
<1> DEFINE Full(g) == \A k \in 2..length : time[g[Parent(k)]] <= time[g[k]]
           Still(at) == Rise(at, time) = at /\ Full(at.heap)
           T == {n \in 0..length :
                   /\ OrderedBut(length, u[n].heap, u[n].index, time)
                   /\ u[n].index <= length - n \/ Still(u[n])}
<1>4. 0 \in T
  BY <1>2, <1>3
<1>5. ASSUME NEW n \in 1..length, n - 1 \in T PROVE n \in T
  <2>1. u[n - 1] \in Positions(length) /\ u[n] = Rise(u[n - 1], time) /\ u[n] \in Positions(length)
    BY <1>2, <1>5
  <2>2. OrderedBut(length, u[n - 1].heap, u[n - 1].index, time)
    BY <1>5
  <2>3. /\ OrderedBut(length, u[n].heap, u[n].index, time)
        /\ u[n].index < u[n - 1].index \/ (u[n] = u[n - 1] /\ Full(u[n - 1].heap))
    BY <1>3, <2>1, <2>2, RiseKeepsOrder
  <2>4. u[n - 1].index \in Nat /\ u[n].index \in Nat
    BY <2>1 DEF Positions
  <2>5. u[n - 1].index <= length - (n - 1) \/ Still(u[n - 1])
    BY <1>5
  <2>6. n \in 0..length
    OBVIOUS
  <2>7. u[n].index <= length - n \/ Still(u[n])
    <3>1. CASE Still(u[n - 1])
      BY <2>1, <3>1
    <3>2. CASE u[n] = u[n - 1] /\ Full(u[n - 1].heap)
      BY <2>1, <3>2
    <3>3. CASE u[n].index < u[n - 1].index /\ u[n - 1].index <= length - (n - 1)
      <4> HIDE DEF Full, T, start, Still
      <4>1. n \in Nat
        OBVIOUS
      <4> QED
        BY <1>3, <2>4, <4>1, <3>3
    <3> QED
      BY <2>3, <2>5, <3>1, <3>2, <3>3
  <2> QED
    BY <2>3, <2>6, <2>7
<1> HIDE DEF T
<1>6. \A n \in 0..length : n \in T
  BY <1>3, <1>4, <1>5, InductionUpTo
<1>7. u[length].index <= 0 \/ Full(u[length].heap)
  BY <1>3, <1>6 DEF T
<1>8. u[length].heap \in [1..length -> Sessions] /\ u[length].index >= 1
  <2> HIDE DEF T, Full, start
  <2>1. u[length] \in Positions(length)
    BY <1>2, <1>3
  <2> QED
    BY <2>1 DEF Positions
<1>9. Len(u[length].heap) = length
  BY <1>3, <1>8, SequencesAreFunctions
<1>10. Full(u[length].heap)
  <2> HIDE DEF T, Full, start
  <2>1. u[length] \in Positions(length)
    BY <1>2, <1>3
  <2>2. u[length].index \in 1..length
    BY <2>1 DEF Positions
  <2> QED
    BY <1>7, <2>2
<1> QED
  BY <1>1, <1>9, <1>10 DEF Ordered

LEMMA AddedOrders ==
  ASSUME NEW h \in Seq(Sessions), NEW session \in Sessions,
         NEW time \in [Sessions -> Int], Ordered(h, time)
  PROVE  Ordered(Added(h, time, session), time)
<1> DEFINE a == Append(h, session)
           length == Len(h) + 1
<1>1. length \in Nat \ {0} /\ a \in [1..length -> Sessions]
  <2>1. length \in Nat \ {0} /\ a \in Seq(Sessions) /\ Len(a) = length
    OBVIOUS
  <2> HIDE DEF a, length
  <2> QED
    BY <2>1, SequencesAreFunctions
<1>2. OrderedBut(length, a, length, time)
  <2>1. Len(h) \in Nat /\ \A i \in 1..Len(h) : a[i] = h[i]
    OBVIOUS
  <2>2. ASSUME NEW k \in 2..length
        PROVE  /\ Parent(k) \in 1..Len(h) /\ Parent(k) < k
               /\ k # length => k \in 2..Len(h)
    BY <2>1, ParentIsAbove
  <2>3. ASSUME NEW k \in 2..length, k # length PROVE time[a[Parent(k)]] <= time[a[k]]
    <3>1. k \in 2..Len(h) /\ k \in 1..Len(h) /\ Parent(k) \in 1..Len(h)
      BY <2>2, <2>3
    <3> HIDE DEF a
    <3> QED
      BY <2>1, <3>1 DEF Ordered
  <2>4. \A k \in 2..length : Parent(k) # length
    BY <2>1, <2>2
  <2> HIDE DEF a, length
  <2> QED
    BY <2>3, <2>4 DEF OrderedBut
<1> HIDE DEF a, length
<1> QED
  BY <1>1, <1>2, UpHeapOrders DEF Added, a

----------------------------------------------------------------------------
(* The heap in a state of its own, and what its steps make of it.          *)
HeapInv ==
  /\ heap \in Seq(Sessions)
  /\ capacity \in Nat \ {0}
  /\ Len(heap) <= capacity
  /\ timeout \in [Sessions -> Int]

LEMMA GrownFits ==
  ASSUME NEW c \in Nat \ {0}, NEW count \in Nat, count <= c
  PROVE  Grown(c, count) \in Nat \ {0} /\ count + 1 <= Grown(c, count)
BY DEF Grown

LEMMA HeapInitInv == HeapInit => HeapInv
<1> SUFFICES ASSUME HeapInit PROVE HeapInv
  OBVIOUS
<1>1. heap \in Seq(Sessions) /\ Len(heap) = 0
  BY DEF HeapInit
<1>2. capacity \in Nat \ {0} /\ timeout \in [Sessions -> Int]
  BY HeapAssumption DEF HeapInit
<1> QED
  BY <1>1, <1>2 DEF HeapInv

LEMMA HeapNextInv == HeapInv /\ [HeapNext]_heapVars => HeapInv'
<1> SUFFICES ASSUME HeapInv, [HeapNext]_heapVars PROVE HeapInv'
  OBVIOUS
<1>1. Len(heap) \in Nat
  BY DEF HeapInv
<1>2. CASE Add
  <2>1. PICK session \in Sessions : heap' = Added(heap, timeout, session)
    BY <1>2 DEF Add
  <2>2. heap' \in Seq(Sessions) /\ Len(heap') = Len(heap) + 1
    BY <2>1, AddedEntries DEF HeapInv
  <2>3. capacity' = Grown(capacity, Len(heap)) /\ timeout' = timeout
    BY <1>2 DEF Add
  <2>4. capacity' \in Nat \ {0} /\ Len(heap) + 1 <= capacity'
    BY <1>1, <2>3, GrownFits DEF HeapInv
  <2> QED
    BY <2>2, <2>3, <2>4 DEF HeapInv
<1>3. CASE Pop
  <2>1. heap # <<>> /\ heap' = Popped(heap, timeout) /\ UNCHANGED <<capacity, timeout>>
    BY <1>3 DEF Pop
  <2>2. heap' \in Seq(Sessions) /\ Len(heap') = Len(heap) - 1
    BY <2>1, PoppedEntries DEF HeapInv
  <2> QED
    BY <1>1, <2>1, <2>2 DEF HeapInv
<1>4. CASE UNCHANGED heapVars
  BY <1>4 DEF heapVars, HeapInv
<1> QED
  BY <1>2, <1>3, <1>4 DEF HeapNext

LEMMA HeapInvariance == HeapSpec => []HeapInv
BY HeapInitInv, HeapNextInv, PTL DEF HeapSpec

(* However many entries are added, none is stored past the end of the      *)
(* array (timeout.c:26-36).                                                *)
THEOREM HeapStaysWithin == HeapSpec => []WithinCapacity
<1>1. HeapInv => WithinCapacity
  BY DEF HeapInv, WithinCapacity
<1> QED
  BY <1>1, HeapInvariance, PTL

(* Adding a session and popping the first lose and double no other, at any *)
(* depth of the heap and whatever the timeouts are (timeout.c:23-93).      *)
THEOREM NoneLostOrDoubled == HeapSpec => OthersStay
<1> DEFINE change == Len(heap') - Len(heap)
           Stays(session) ==
             /\ \A other \in Sessions :
                  Count(heap', other) =
                    Count(heap, other) + (IF other = session THEN change ELSE 0)
             /\ change = -1 => session = heap[1]
<1>1. ASSUME HeapInv, HeapNext PROVE \E session \in Sessions : Stays(session)
  <2>1. Len(heap) \in Nat /\ \A other : Count(heap, other) \in Nat
    <3>1. Len(heap) \in Nat
      BY <1>1 DEF HeapInv
    <3>2. ASSUME NEW other PROVE Count(heap, other) \in Nat
      <4>1. IsFiniteSet(1..Len(heap))
        BY <3>1, FS_Interval
      <4>2. IsFiniteSet({i \in 1..Len(heap) : heap[i] = other})
        BY <4>1, FS_Subset
      <4> QED
        BY <4>2, FS_CardinalityType DEF Count
    <3> QED
      BY <3>1, <3>2
  <2>2. CASE Add
    <3>1. PICK session \in Sessions : heap' = Added(heap, timeout, session)
      BY <2>2 DEF Add
    <3>2. /\ Len(heap') = Len(heap) + 1
          /\ \A other : Count(heap', other) =
                          Count(heap, other) + (IF other = session THEN 1 ELSE 0)
      BY <1>1, <3>1, AddedEntries DEF HeapInv
    <3>3. change = 1
      BY <2>1, <3>2
    <3> HIDE DEF change
    <3> QED
      BY <3>2, <3>3
  <2>3. CASE Pop
    <3>1. heap # <<>> /\ heap' = Popped(heap, timeout)
      BY <2>3 DEF Pop
    <3>2. /\ heap' \in Seq(Sessions) /\ Len(heap') = Len(heap) - 1
          /\ \A other : Count(heap, other) =
                          Count(heap', other) + (IF other = heap[1] THEN 1 ELSE 0)
      BY <1>1, <3>1, PoppedEntries DEF HeapInv
    <3>3. heap[1] \in Sessions
      BY <1>1, <3>1 DEF HeapInv
    <3>4. change = -1
      BY <2>1, <3>2
    <3>5. ASSUME NEW other PROVE Count(heap', other) \in Nat
      <4>1. Len(heap') \in Nat
        BY <3>2
      <4>2. IsFiniteSet(1..Len(heap'))
        BY <4>1, FS_Interval
      <4>3. IsFiniteSet({i \in 1..Len(heap') : heap'[i] = other})
        BY <4>2, FS_Subset
      <4> QED
        BY <4>3, FS_CardinalityType DEF Count
    <3>6. ASSUME NEW other
          PROVE  Count(heap', other) =
                   Count(heap, other) + (IF other = heap[1] THEN change ELSE 0)
      <4> DEFINE c == Count(heap, other)
                 d == Count(heap', other)
      <4>1. c = d + (IF other = heap[1] THEN 1 ELSE 0) /\ d \in Nat
        BY <3>2, <3>5
      <4> HIDE DEF c, d, change
      <4>2. d = c + (IF other = heap[1] THEN change ELSE 0)
        BY <4>1, <3>4
      <4> QED
        BY <4>2 DEF c, d
    <3> HIDE DEF change
    <3> QED
      BY <3>3, <3>6
  <2> QED
    BY <1>1, <2>2, <2>3 DEF HeapNext
<1>2. HeapInv /\ [HeapNext]_heapVars => [\E session \in Sessions : Stays(session)]_heapVars
  BY <1>1
<1> QED
  BY <1>2, HeapInvariance, PTL DEF HeapSpec, OthersStay

(* The order of a heap is restored by adding to it, at any depth, and      *)
(* where timeouts are equal (timeout.c:37-53).                             *)
THEOREM OrderIsRestored == HeapSpec => AddingKeepsOrder
<1>1. ASSUME HeapInv, HeapNext, Len(heap') > Len(heap), IsHeap(heap) PROVE IsHeap(heap')
  <2>1. CASE Add
    <3>1. PICK session \in Sessions : heap' = Added(heap, timeout, session)
      BY <2>1 DEF Add
    <3>2. Ordered(heap, timeout)
      BY <1>1 DEF IsHeap, Ordered, Parent
    <3>3. Ordered(heap', timeout)
      BY <1>1, <3>1, <3>2, AddedOrders DEF HeapInv
    <3>4. timeout' = timeout
      BY <2>1 DEF Add
    <3> QED
      BY <3>3, <3>4 DEF IsHeap, Ordered, Parent
  <2>2. CASE Pop
    <3>1. Len(heap') = Len(heap) - 1 /\ Len(heap) \in Nat
      BY <1>1, <2>2, PoppedEntries DEF Pop, HeapInv
    <3> QED
      BY <1>1, <3>1
  <2> QED
    BY <1>1, <2>1, <2>2 DEF HeapNext
<1>2. HeapInv /\ [HeapNext]_heapVars
        => [Len(heap') > Len(heap) /\ IsHeap(heap) => IsHeap(heap')]_heapVars
  BY <1>1
<1> QED
  BY <1>2, HeapInvariance, PTL DEF HeapSpec, AddingKeepsOrder

----------------------------------------------------------------------------
(* A session's timeout counts from the last datagram it was given.         *)
TimesInv ==
  /\ now \in Nat
  /\ heard \in [Sessions -> Nat]
  /\ timeout \in [Sessions -> Nat]
  /\ \A session \in table.live : timeout[session] = heard[session] + SessionTimeout

LoopInv == TableInv(Sessions, table) /\ TimesInv

LEMMA InitInv == Init => LoopInv
<1> SUFFICES ASSUME Init PROVE LoopInv
  OBVIOUS
<1> DEFINE any == CHOOSE a \in Addrs : TRUE
<1>1. any \in Addrs
  BY LoopAssumption
<1>2. table = EmptyTable([session \in Sessions |-> any])
  BY DEF Init
<1> HIDE DEF any
<1>3. TableInv(Sessions, table)
  BY <1>1, <1>2, EmptyTableInv
<1>4. table.live = {}
  BY <1>2 DEF EmptyTable
<1>5. TimesInv
  BY <1>4 DEF Init, TimesInv
<1> QED
  BY <1>3, <1>5 DEF LoopInv

(* Timing out takes a session that is allocated out of the table, and one  *)
(* that was freed leaves it alone (timeout.c:16-21).                       *)
LEMMA TimesKeepsInv ==
  ASSUME LoopInv, NEW session, Times(session), UNCHANGED <<now, heard, timeout>>
  PROVE  /\ LoopInv'
         /\ table.live \ table'.live \subseteq {session}
<1>1. CASE session \in table.live
  <2>1. table' = Deleted(table, session)
    BY <1>1 DEF Times
  <2>2. TableInv(Sessions, table') /\ table'.live = table.live \ {session}
    BY <1>1, <2>1, DeletedInv DEF LoopInv
  <2>3. TimesInv'
    BY <2>2 DEF LoopInv, TimesInv
  <2>4. LoopInv'
    BY <2>2, <2>3 DEF LoopInv, TableInv, TableTypes, Chained, Apart, Linked
  <2> QED
    BY <2>2, <2>4
<1>2. CASE session \notin table.live
  <2>1. table' = table
    BY <1>2 DEF Times
  <2> QED
    BY <2>1 DEF LoopInv, TimesInv, TableInv, TableTypes, Chained, Apart, Linked
<1> QED
  BY <1>1, <1>2

(* A datagram leaves its session's timeout in step with its arrival, and   *)
(* those of the other sessions as they are (server.c:150-156).             *)
LEMMA ReceivesInv ==
  ASSUME LoopInv, NEW a \in Addrs, NEW ends \in BOOLEAN, Receives(a, ends)
  PROVE  LoopInv'
<1>1. PICK session \in Gettable(table, a) :
        /\ table' = IF ends THEN Deleted(Got(table, a, session), session)
                    ELSE Got(table, a, session)
        /\ timeout' = [timeout EXCEPT ![session] = now + SessionTimeout]
        /\ heard' = [heard EXCEPT ![session] = now]
  BY DEF Receives
<1>2. now' = now
  BY DEF Receives
<1> DEFINE got == Got(table, a, session)
<1>3. TableInv(Sessions, got) /\ session \in got.live
  BY GotInv DEF LoopInv
<1>4. session \in Sessions
  BY <1>3 DEF TableInv, TableTypes
<1>5. got.live \subseteq table.live \cup {session}
  BY DEF Got
<1>6. TableInv(Sessions, table') /\ table'.live \subseteq table.live \cup {session}
  <2>1. CASE ends
    <3>1. table' = Deleted(got, session)
      BY <1>1, <2>1
    <3>2. TableInv(Sessions, table') /\ table'.live = got.live \ {session}
      BY <1>3, <3>1, DeletedInv
    <3> QED
      BY <3>2, <1>5
  <2>2. CASE ~ends
    BY <1>1, <1>3, <1>5, <2>2
  <2> QED
    BY <2>1, <2>2
<1> HIDE DEF got
<1>7. TimesInv'
  <2>1. now + SessionTimeout \in Nat
    BY LoopAssumption DEF LoopInv, TimesInv
  <2>2. heard' \in [Sessions -> Nat] /\ timeout' \in [Sessions -> Nat]
    BY <1>1, <1>4, <2>1 DEF LoopInv, TimesInv
  <2>3. ASSUME NEW other \in table'.live
        PROVE  timeout'[other] = heard'[other] + SessionTimeout
    <3>1. CASE other = session
      BY <3>1, <1>1, <1>4 DEF LoopInv, TimesInv
    <3>2. CASE other # session
      <4>1. other \in table.live /\ other \in Sessions
        BY <3>2, <1>6 DEF LoopInv, TableInv, TableTypes
      <4> QED
        BY <3>2, <4>1, <1>1 DEF LoopInv, TimesInv
    <3> QED
      BY <3>1, <3>2
  <2> QED
    BY <1>2, <2>2, <2>3 DEF LoopInv, TimesInv
<1> QED
  BY <1>6, <1>7 DEF LoopInv, TableInv, TableTypes, Chained, Apart, Linked

(* The invariant is inductive.                                             *)
LEMMA NextInv == LoopInv /\ [Next]_vars => LoopInv'
<1> SUFFICES ASSUME LoopInv, [Next]_vars PROVE LoopInv'
  OBVIOUS
<1>1. CASE Expires
  BY <1>1, TimesKeepsInv DEF Expires
<1>2. CASE Selects
  BY <1>2 DEF Selects, LoopInv, TimesInv, TableInv, TableTypes, Chained, Apart, Linked
<1>3. CASE TimesOut
  <2>1. PICK session \in waiting : Times(session)
    BY <1>3 DEF TimesOut
  <2> QED
    BY <1>3, <2>1, TimesKeepsInv DEF TimesOut
<1>4. ASSUME NEW a \in Addrs, NEW ends \in BOOLEAN, Receives(a, ends) PROVE LoopInv'
  BY <1>4, ReceivesInv
<1>5. CASE RecvFails
  BY <1>5 DEF RecvFails, LoopInv, TimesInv, TableInv, TableTypes, Chained, Apart, Linked
<1>6. CASE Tick
  BY <1>6 DEF Tick, LoopInv, TimesInv, TableInv, TableTypes, Chained, Apart, Linked
<1>7. CASE UNCHANGED vars
  BY <1>7 DEF vars, LoopInv, TimesInv, TableInv, TableTypes, Chained, Apart, Linked
<1> QED
  BY <1>1, <1>2, <1>3, <1>4, <1>5, <1>6, <1>7 DEF Next, Turn

LEMMA Invariance == Spec => []LoopInv
BY InitInv, NextInv, PTL DEF Spec

----------------------------------------------------------------------------
(* Each chain holds the sessions of its bucket, each once, and no two of   *)
(* the same address: what a lookup finds and what a deletion unlinks is    *)
(* the session that is meant, be the hosts confused or not                 *)
(* (session.c:98-173).                                                     *)
THEOREM ChainsStayWhole == Spec => []ChainsHoldSessions
<1>1. ASSUME TableInv(Sessions, table), NEW bucket \in Buckets
      PROVE  LET chain == table.chain[bucket]
             IN /\ Entries(chain) = {s \in table.live : table.addr[s].bucket = bucket}
                /\ \A i, j \in 1..Len(chain) : i # j => table.addr[chain[i]] # table.addr[chain[j]]
  <2> DEFINE chain == table.chain[bucket]
  <2>1. ASSUME NEW s \in Entries(chain) PROVE s \in table.live /\ table.addr[s].bucket = bucket
    BY <1>1 DEF Entries, TableInv, Chained
  <2>2. ASSUME NEW s \in table.live, table.addr[s].bucket = bucket PROVE s \in Entries(chain)
    BY <1>1, <2>2 DEF Entries, TableInv, Linked
  <2>3. \A i, j \in 1..Len(chain) : i # j => table.addr[chain[i]] # table.addr[chain[j]]
    BY <1>1, AddrEqFacts DEF TableInv, Apart
  <2> QED
    BY <2>1, <2>2, <2>3
<1>2. LoopInv => ChainsHoldSessions
  BY <1>1 DEF LoopInv, ChainsHoldSessions
<1> QED
  BY <1>2, Invariance, PTL

(* Whatever stale entries the heap has, and in whatever order it gives     *)
(* them, a session is only timed out when its peer has been silent for the *)
(* whole of the timeout (server.c:103-111, 129-131).                       *)
THEOREM NoneTimedOutEarly == Spec => NeverTimedOutEarly
<1>1. ASSUME LoopInv, NEW session, timeout[session] <= now, NEW lost \in table.live,
             Times(session), UNCHANGED <<now, heard, timeout>>, lost \notin table'.live
      PROVE  now >= heard[lost] + SessionTimeout
  <2>1. lost = session
    BY <1>1, TimesKeepsInv
  <2> QED
    BY <1>1, <2>1 DEF LoopInv, TimesInv
<1>2. ASSUME LoopInv, Expires, NEW lost \in table.live \ table'.live
      PROVE  now >= heard[lost] + SessionTimeout
  BY <1>1, <1>2 DEF Expires
<1>3. ASSUME LoopInv, TimesOut, NEW lost \in table.live \ table'.live
      PROVE  now >= heard[lost] + SessionTimeout
  <2>1. PICK session \in waiting : timeout[session] <= now /\ Times(session)
    BY <1>3 DEF TimesOut
  <2>2. UNCHANGED <<now, heard, timeout>>
    BY <1>3 DEF TimesOut
  <2> QED
    BY <1>1, <1>3, <2>1, <2>2
<1>4. LoopInv => [Expires \/ TimesOut =>
                    \A session \in table.live \ table'.live :
                      now >= heard[session] + SessionTimeout]_vars
  BY <1>2, <1>3
<1> QED
  BY <1>4, Invariance, PTL DEF NeverTimedOutEarly

----------------------------------------------------------------------------
(* What the loop keeps in the heap: it is waiting for no session but in    *)
(* select, and for one that it has popped.                                 *)
WatchInv ==
  /\ heap \in Seq(Sessions)
  /\ capacity \in Nat \ {0}
  /\ Len(heap) <= capacity
  /\ waiting = {} \/ \E session \in Sessions : waiting = {session}
  /\ pc = "expire" => waiting = {}
  /\ table.live \subseteq Entries(heap) \cup waiting

LEMMA InitWatch == Init => WatchInv
<1> SUFFICES ASSUME Init PROVE WatchInv
  OBVIOUS
<1>1. heap \in Seq(Sessions) /\ Len(heap) = 0 /\ waiting = {}
  BY DEF Init
<1>2. capacity \in Nat \ {0}
  BY HeapAssumption DEF Init
<1>3. table.live = {}
  BY DEF Init, EmptyTable
<1> QED
  BY <1>1, <1>2, <1>3 DEF WatchInv

(* A session that is timed out needs no watching any more, and one that    *)
(* was freed needed none.                                                  *)
LEMMA TimesLeavesOthers ==
  ASSUME LoopInv, NEW session, Times(session)
  PROVE  table'.live \subseteq table.live \ {session}
<1>1. CASE session \in table.live
  BY <1>1, DeletedInv DEF Times, LoopInv
<1>2. CASE session \notin table.live
  BY <1>2 DEF Times
<1> QED
  BY <1>1, <1>2

(* The session that was waited for is back in the heap, within the array   *)
(* that is grown for it.                                                   *)
LEMMA ReaddedHolds ==
  ASSUME WatchInv
  PROVE  /\ Readded \in Seq(Sessions)
         /\ Entries(Readded) = Entries(heap) \cup waiting
         /\ Len(Readded) = Len(heap) + (IF waiting = {} THEN 0 ELSE 1)
<1>1. heap \in Seq(Sessions) /\ Len(heap) \in Nat
  BY DEF WatchInv
<1>2. CASE waiting = {}
  BY <1>1, <1>2 DEF Readded
<1>3. CASE waiting # {}
  <2>1. PICK session \in Sessions : waiting = {session}
    BY <1>3 DEF WatchInv
  <2>2. Readded = Added(heap, timeout, session)
    BY <2>1 DEF Readded
  <2>3. /\ Added(heap, timeout, session) \in Seq(Sessions)
        /\ Len(Added(heap, timeout, session)) = Len(heap) + 1
        /\ Entries(Added(heap, timeout, session)) = Entries(heap) \cup {session}
    BY <1>1, AddedEntries
  <2> QED
    BY <1>3, <2>1, <2>2, <2>3
<1> QED
  BY <1>2, <1>3

LEMMA ReceivesWatch ==
  ASSUME LoopInv, WatchInv, NEW a \in Addrs, NEW ends \in BOOLEAN, Receives(a, ends)
  PROVE  WatchInv'
<1>1. PICK session \in Gettable(table, a) :
        /\ table' = IF ends THEN Deleted(Got(table, a, session), session)
                    ELSE Got(table, a, session)
        /\ TimeoutAdded(session)
  BY DEF Receives
<1>2. waiting' = {}
  BY DEF Receives
<1> DEFINE got == Got(table, a, session)
<1>3. TableInv(Sessions, got) /\ session \in got.live
  BY GotInv DEF LoopInv
<1>4. session \in Sessions
  BY <1>3 DEF TableInv, TableTypes
<1>5. got.live \subseteq table.live \cup {session}
  BY DEF Got
<1>6. table'.live \subseteq table.live \cup {session}
  <2> HIDE DEF got
  <2>1. CASE ends
    BY <1>1, <1>3, <1>5, <2>1, DeletedInv DEF got
  <2>2. CASE ~ends
    BY <1>1, <1>5, <2>2 DEF got
  <2> QED
    BY <2>1, <2>2
<1> HIDE DEF got
<1>7. /\ Readded \in Seq(Sessions)
      /\ Entries(Readded) = Entries(heap) \cup waiting
      /\ Len(Readded) = Len(heap) + (IF waiting = {} THEN 0 ELSE 1)
  BY ReaddedHolds
<1>8. heap' = Added(Readded, timeout', session)
  BY <1>1 DEF TimeoutAdded
<1>9. /\ heap' \in Seq(Sessions) /\ Len(heap') = Len(Readded) + 1
      /\ Entries(heap') = Entries(Readded) \cup {session}
  BY <1>4, <1>7, <1>8, AddedEntries
<1>10. capacity' \in Nat \ {0} /\ Len(heap') <= capacity'
  <2>1. Len(heap) \in Nat /\ capacity \in Nat \ {0} /\ Len(heap) <= capacity
    BY DEF WatchInv
  <2>2. capacity' = Grown(Grown(capacity, Len(heap)), Len(Readded))
    BY <1>1 DEF TimeoutAdded
  <2> DEFINE c == Grown(capacity, Len(heap))
  <2>3. c \in Nat \ {0} /\ Len(heap) + 1 <= c
    BY <2>1, GrownFits
  <2> HIDE DEF c
  <2>4. Len(Readded) \in Nat /\ Len(Readded) <= c
    BY <1>7, <2>1, <2>3
  <2> QED
    BY <1>9, <2>2, <2>3, <2>4, GrownFits DEF c
<1>11. table'.live \subseteq Entries(heap')
  BY <1>6, <1>7, <1>9 DEF WatchInv
<1> QED
  BY <1>2, <1>9, <1>10, <1>11 DEF WatchInv

LEMMA RecvFailsWatch == ASSUME LoopInv, WatchInv, RecvFails PROVE WatchInv'
<1>1. /\ Readded \in Seq(Sessions)
      /\ Entries(Readded) = Entries(heap) \cup waiting
      /\ Len(Readded) = Len(heap) + (IF waiting = {} THEN 0 ELSE 1)
  BY ReaddedHolds
<1>2. /\ heap' = Readded /\ waiting' = {} /\ table' = table
      /\ capacity' = IF waiting = {} THEN capacity ELSE Grown(capacity, Len(heap))
  BY DEF RecvFails
<1>3. Len(heap) \in Nat /\ capacity \in Nat \ {0} /\ Len(heap) <= capacity
  BY DEF WatchInv
<1>4. capacity' \in Nat \ {0} /\ Len(heap') <= capacity'
  <2>1. CASE waiting = {}
    BY <1>1, <1>2, <1>3, <2>1
  <2>2. CASE waiting # {}
    <3>1. Grown(capacity, Len(heap)) \in Nat \ {0} /\ Len(heap) + 1 <= Grown(capacity, Len(heap))
      BY <1>3, GrownFits
    <3> QED
      BY <1>1, <1>2, <2>2, <3>1
  <2> QED
    BY <2>1, <2>2
<1> QED
  BY <1>1, <1>2, <1>4 DEF WatchInv

LEMMA NextWatch == LoopInv /\ WatchInv /\ [Next]_vars => WatchInv'
<1> SUFFICES ASSUME LoopInv, WatchInv, [Next]_vars PROVE WatchInv'
  OBVIOUS
<1>1. heap \in Seq(Sessions) /\ Len(heap) \in Nat
  BY DEF WatchInv
<1>2. ASSUME heap # <<>>
      PROVE  /\ Popped(heap, timeout) \in Seq(Sessions)
             /\ Len(Popped(heap, timeout)) = Len(heap) - 1
             /\ Entries(heap) = Entries(Popped(heap, timeout)) \cup {heap[1]}
             /\ heap[1] \in Sessions
  BY <1>1, <1>2, PoppedEntries
<1>3. CASE Expires
  <2>1. /\ heap # <<>> /\ Times(heap[1]) /\ heap' = Popped(heap, timeout)
        /\ UNCHANGED <<capacity, pc, waiting>>
    BY <1>3 DEF Expires
  <2>2. table'.live \subseteq table.live \ {heap[1]}
    BY <2>1, TimesLeavesOthers
  <2>3. table'.live \subseteq Entries(heap') \cup waiting'
    BY <1>2, <2>1, <2>2 DEF WatchInv
  <2>4. heap' \in Seq(Sessions) /\ Len(heap') <= capacity'
    <3>1. Len(heap) <= capacity /\ capacity \in Nat
      BY DEF WatchInv
    <3> QED
      BY <1>1, <1>2, <2>1, <3>1
  <2> QED
    BY <2>1, <2>3, <2>4 DEF WatchInv
<1>4. CASE Selects
  <2>1. waiting = {} /\ pc' = "select" /\ UNCHANGED <<capacity, table>>
    BY <1>4 DEF Selects, WatchInv
  <2>2. CASE heap = <<>> /\ waiting' = {} /\ UNCHANGED heap
    BY <2>1, <2>2 DEF WatchInv
  <2>3. CASE heap # <<>> /\ waiting' = {heap[1]} /\ heap' = Popped(heap, timeout)
    <3>1. table'.live \subseteq Entries(heap') \cup waiting'
      BY <1>2, <2>1, <2>3 DEF WatchInv
    <3>2. heap' \in Seq(Sessions) /\ Len(heap') <= capacity'
      <4>1. Len(heap) <= capacity /\ capacity \in Nat
        BY DEF WatchInv
      <4> QED
        BY <1>1, <1>2, <2>1, <2>3, <4>1
    <3>3. capacity' \in Nat \ {0} /\ waiting' = {heap[1]} /\ heap[1] \in Sessions
      BY <1>2, <2>1, <2>3 DEF WatchInv
    <3> QED
      BY <2>1, <3>1, <3>2, <3>3 DEF WatchInv
  <2> QED
    BY <1>4, <2>2, <2>3 DEF Selects
<1>5. CASE TimesOut
  <2>1. /\ \E session \in waiting : Times(session)
        /\ waiting' = {} /\ UNCHANGED <<heap, capacity>>
    BY <1>5 DEF TimesOut
  <2>2. PICK session \in waiting : Times(session)
    BY <2>1
  <2>3. waiting = {session}
    BY <2>2 DEF WatchInv
  <2>4. table'.live \subseteq table.live \ {session}
    BY <2>2, TimesLeavesOthers
  <2>5. table'.live \subseteq Entries(heap')
    BY <2>1, <2>3, <2>4 DEF WatchInv
  <2> QED
    BY <2>1, <2>5 DEF WatchInv
<1>6. ASSUME NEW a \in Addrs, NEW ends \in BOOLEAN, Receives(a, ends) PROVE WatchInv'
  BY <1>6, ReceivesWatch
<1>7. CASE RecvFails
  BY <1>7, RecvFailsWatch
<1>8. CASE Tick
  BY <1>8 DEF Tick, WatchInv
<1>9. CASE UNCHANGED vars
  BY <1>9 DEF vars, WatchInv
<1> QED
  BY <1>3, <1>4, <1>5, <1>6, <1>7, <1>8, <1>9 DEF Next, Turn

LEMMA Watching == Spec => []WatchInv
<1>1. Init => WatchInv
  BY InitWatch
<1>2. LoopInv /\ WatchInv /\ [Next]_vars => WatchInv'
  BY NextWatch
<1> QED
  BY <1>1, <1>2, Invariance, PTL DEF Spec

(* No session that is allocated is lost sight of: between the datagrams,   *)
(* the timeouts and the errors it is in the heap, or is the one that is    *)
(* waited for (server.c:103-156).                                          *)
THEOREM EachIsWatched == Spec => []SessionsAreWatched
<1>1. WatchInv => SessionsAreWatched
  BY DEF WatchInv, SessionsAreWatched
<1> QED
  BY <1>1, Watching, PTL

(* The loop, which adds two entries for a datagram and never looks whether *)
(* they are there already, overruns the array of the heap no more than the *)
(* heap by itself does (server.c:139-156, timeout.c:26-36).                *)
THEOREM ArrayIsNotOverrun == Spec => []WithinCapacity
<1>1. WatchInv => WithinCapacity
  BY DEF WatchInv, WithinCapacity
<1> QED
  BY <1>1, Watching, PTL
=============================================================================
