------------------------- MODULE SessionTableProofs -------------------------
(***************************************************************************)
(* What the hash table keeps to, whatever hosts its addresses are of: the  *)
(* lemmas on making and deleting sessions that the proofs about ServerLoop *)
(* and SharedServer have in common.                                        *)
(***************************************************************************)
EXTENDS SessionTable, SequenceTheorems, TLAPS

TableTypes(S) ==
  [addr : [S -> Addrs], live : SUBSET S, chain : [Buckets -> Seq(S)]]

(* The sessions of the chains are allocated and where they are searched    *)
(* for, addr_eq tells each of them from all others, and there are no       *)
(* more.                                                                   *)
Chained(t) ==
  \A bucket \in Buckets : \A i \in 1..Len(t.chain[bucket]) :
    /\ t.chain[bucket][i] \in t.live
    /\ t.addr[t.chain[bucket][i]].bucket = bucket

Apart(t) ==
  \A bucket \in Buckets : \A i, j \in 1..Len(t.chain[bucket]) :
    AddrEq(t.addr[t.chain[bucket][i]], t.addr[t.chain[bucket][j]]) => i = j

Linked(t) ==
  \A s \in t.live : \E i \in 1..Len(t.chain[t.addr[s].bucket]) :
    t.chain[t.addr[s].bucket][i] = s

TableInv(S, t) == t \in TableTypes(S) /\ Chained(t) /\ Apart(t) /\ Linked(t)

(* Taking an element out of a sequence moves up those behind it.           *)
LEMMA RemoveAtElements ==
  ASSUME NEW S, NEW q \in Seq(S), NEW i \in 1..Len(q)
  PROVE  /\ RemoveAt(q, i) \in Seq(S)
         /\ Len(RemoveAt(q, i)) = Len(q) - 1
         /\ \A j \in 1..(Len(q) - 1) :
              RemoveAt(q, i)[j] = IF j < i THEN q[j] ELSE q[j + 1]
<1> DEFINE front == SubSeq(q, 1, i - 1)
           back == SubSeq(q, i + 1, Len(q))
<1>1. /\ front \in Seq(S)
      /\ Len(front) = i - 1
      /\ \A j \in 1..(i - 1) : front[j] = q[j]
  BY SubSeqProperties
<1>2. /\ back \in Seq(S)
      /\ Len(back) = Len(q) - i
      /\ \A j \in 1..(Len(q) - i) : back[j] = q[j + i]
  BY SubSeqProperties
<1> HIDE DEF front, back
<1>3. /\ front \o back \in Seq(S)
      /\ Len(front \o back) = Len(front) + Len(back)
      /\ \A j \in 1..(Len(front) + Len(back)) :
           (front \o back)[j] = IF j <= Len(front) THEN front[j] ELSE back[j - Len(front)]
  BY <1>1, <1>2, ConcatProperties, Zenon
<1>4. RemoveAt(q, i) = front \o back
  BY DEF RemoveAt, front, back
<1>5. Len(q) \in Nat /\ Len(front) + Len(back) = Len(q) - 1
  BY <1>1, <1>2
<1>6. ASSUME NEW j \in 1..(Len(q) - 1)
      PROVE  (front \o back)[j] = IF j < i THEN q[j] ELSE q[j + 1]
  <2>1. CASE j < i
    BY <2>1, <1>1, <1>3, <1>5
  <2>2. CASE j >= i
    <3>1. j - (i - 1) \in 1..(Len(q) - i)
      BY <2>2, <1>5
    <3>2. (front \o back)[j] = back[j - (i - 1)]
      BY <2>2, <1>1, <1>3, <1>5
    <3>3. back[j - (i - 1)] = q[j - (i - 1) + i]
      BY <3>1, <1>2
    <3>4. j - (i - 1) + i = j + 1
      BY <1>5
    <3> QED
      BY <2>2, <3>2, <3>3, <3>4
  <2> QED
    BY <2>1, <2>2, <1>5
<1> QED
  BY <1>3, <1>4, <1>5, <1>6, Zenon

(* Every address has a bucket.                                             *)
LEMMA AddrBucket == \A a \in Addrs : a.bucket \in Buckets
BY DEF Buckets

LEMMA AddrEqFacts ==
  /\ \A a : AddrEq(a, a)
  /\ \A a, b : AddrEq(a, b) <=> AddrEq(b, a)
BY DEF AddrEq

(* A search stops at a session of the bucket, if there is one that addr_eq *)
(* calls equal: either there is just that one, or the whole chain is of    *)
(* another host and the first is taken (session.c:65-78, 105).             *)
LEMMA SearchStops ==
  ASSUME NEW S, NEW t, TableInv(S, t), NEW a \in Addrs
  PROVE  /\ Stops(t, a) \subseteq 1..Len(t.chain[a.bucket])
         /\ Stops(t, a) = {} =>
              \A i \in 1..Len(t.chain[a.bucket]) : ~AddrEq(t.addr[t.chain[a.bucket][i]], a)
<1> DEFINE chain == t.chain[a.bucket]
           matching == {i \in 1..Len(chain) : AddrEq(t.addr[chain[i]], a)}
<1>1. a.bucket \in Buckets /\ chain \in Seq(S) /\ Len(chain) \in Nat
  BY AddrBucket DEF TableInv, TableTypes
<1>2. Stops(t, a) = {i \in matching : \A j \in matching : i <= j}
  BY DEF Stops
<1>3. \A i, j \in 1..Len(chain) : AddrEq(t.addr[chain[i]], t.addr[chain[j]]) => i = j
  BY <1>1 DEF TableInv, Apart
<1>4. ASSUME NEW i \in matching PROVE Stops(t, a) # {}
  <2>1. CASE t.addr[chain[i]].ip # a.ip
    <3>1. 1 \in 1..Len(chain)
      BY <1>1
    <3>2. t.addr[chain[1]].ip = t.addr[chain[i]].ip
      BY <1>3, <3>1 DEF AddrEq
    <3>3. 1 \in matching
      BY <2>1, <3>1, <3>2 DEF AddrEq
    <3>4. \A j \in 1..Len(chain) : 1 <= j
      BY <1>1
    <3>5. \A j \in matching : 1 <= j
      BY <3>4
    <3>6. 1 \in {k \in matching : \A j \in matching : k <= j}
      BY <3>3, <3>5
    <3>7. 1 \in Stops(t, a)
      BY <1>2, <3>6, Zenon
    <3> QED
      BY <3>7
  <2>2. CASE t.addr[chain[i]].ip = a.ip
    <3>1. t.addr[chain[i]].port = a.port
      BY <2>2 DEF AddrEq
    <3>2. ASSUME NEW j \in matching PROVE j = i
      <4>1. j # i => ~AddrEq(t.addr[chain[j]], t.addr[chain[i]])
        BY <1>3
      <4> QED
        BY <2>2, <3>1, <4>1 DEF AddrEq
    <3>3. \A j \in matching : i <= j
      <4>1. i \in Int
        BY <1>1
      <4>2. i <= i
        BY <4>1
      <4> QED
        BY <3>2, <4>2, Zenon
    <3> QED
      BY <1>2, <3>3
  <2> QED
    BY <2>1, <2>2
<1>5. Stops(t, a) = {} => matching = {}
  BY <1>4
<1> QED
  BY <1>2, <1>5

(* A session that is allocated is found by its address.                    *)
LEMMA FoundAtOwn ==
  ASSUME NEW S, NEW t, TableInv(S, t), NEW s \in t.live
  PROVE  \E i \in 1..Len(t.chain[t.addr[s].bucket]) :
           /\ t.chain[t.addr[s].bucket][i] = s
           /\ Stops(t, t.addr[s]) = {i}
<1> DEFINE a == t.addr[s]
           chain == t.chain[a.bucket]
           matching == {i \in 1..Len(chain) : AddrEq(t.addr[chain[i]], a)}
<1>1. s \in S /\ a \in Addrs /\ a.bucket \in Buckets /\ chain \in Seq(S) /\ Len(chain) \in Nat
  BY AddrBucket DEF TableInv, TableTypes
<1>2. PICK i \in 1..Len(chain) : chain[i] = s
  BY DEF TableInv, Linked
<1>3. i \in matching /\ \A j \in matching : j = i
  BY <1>1, <1>2, AddrEqFacts DEF TableInv, Apart
<1>4. Stops(t, a) = {j \in matching : \A k \in matching : j <= k}
  BY DEF Stops
<1> HIDE DEF matching
<1>5. matching = {i}
  BY <1>3
<1>6. Stops(t, a) = {i}
  <2>1. i \in Int
    BY <1>1
  <2> QED
    BY <1>4, <1>5, <2>1
<1> QED
  BY <1>2, <1>6

(* sas_server_session_get returns a session that is in the table, and      *)
(* leaves the others there (session.c:98-140).                             *)
LEMMA GotInv ==
  ASSUME NEW S, NEW t, TableInv(S, t), NEW a \in Addrs, NEW s \in Gettable(t, a)
  PROVE  /\ TableInv(S, Got(t, a, s))
         /\ s \in Got(t, a, s).live
         /\ t.live \subseteq Got(t, a, s).live
<1> DEFINE chain == t.chain[a.bucket]
<1>1. a.bucket \in Buckets /\ chain \in Seq(S)
  BY AddrBucket DEF TableInv, TableTypes
<1>2. CASE Stops(t, a) # {}
  <2>1. Got(t, a, s) = t
    BY <1>2 DEF Got
  <2>2. s \in t.live
    BY <1>1, <1>2, SearchStops DEF Gettable, TableInv, Chained
  <2> QED
    BY <2>1, <2>2
<1>3. CASE Stops(t, a) = {}
  <2> DEFINE u == Got(t, a, s)
  <2>1. s \in S /\ s \notin t.live
    BY <1>3 DEF Gettable, TableInv, TableTypes
  <2>2. /\ u.addr = [t.addr EXCEPT ![s] = a]
        /\ u.live = t.live \cup {s}
        /\ u.chain = [t.chain EXCEPT ![a.bucket] = Append(chain, s)]
        /\ u = [addr |-> u.addr, live |-> u.live, chain |-> u.chain]
    BY <1>3 DEF Got
  <2>3. /\ Append(chain, s) \in Seq(S)
        /\ Len(Append(chain, s)) = Len(chain) + 1
        /\ \A i \in 1..Len(chain) : Append(chain, s)[i] = chain[i]
        /\ Append(chain, s)[Len(chain) + 1] = s
    BY <1>1, <2>1, AppendProperties
  <2>4. \A i \in 1..Len(chain) : ~AddrEq(t.addr[chain[i]], a) /\ ~AddrEq(a, t.addr[chain[i]])
    BY <1>3, SearchStops, AddrEqFacts
  <2>5. \A bucket \in Buckets : \A i \in 1..Len(t.chain[bucket]) : t.chain[bucket][i] # s
    BY <2>1 DEF TableInv, Chained
  <2> HIDE DEF u
  <2>6. u \in TableTypes(S)
    <3>1. u.addr \in [S -> Addrs] /\ u.live \in SUBSET S
      BY <2>1, <2>2 DEF TableInv, TableTypes
    <3>2. u.chain \in [Buckets -> Seq(S)]
      BY <1>1, <2>2, <2>3 DEF TableInv, TableTypes
    <3> QED
      BY <2>2, <3>1, <3>2 DEF TableTypes
  <2>7. \A bucket \in Buckets : bucket # a.bucket => u.chain[bucket] = t.chain[bucket]
    BY <2>2 DEF TableInv, TableTypes
  <2>8. u.chain[a.bucket] = Append(chain, s)
    BY <1>1, <2>2 DEF TableInv, TableTypes
  <2>9. u.addr[s] = a /\ \A r \in S : r # s => u.addr[r] = t.addr[r]
    BY <2>1, <2>2 DEF TableInv, TableTypes
  <2>10. \A bucket \in Buckets : \A i \in 1..Len(t.chain[bucket]) :
           t.chain[bucket][i] \in S /\ u.addr[t.chain[bucket][i]] = t.addr[t.chain[bucket][i]]
    BY <2>5, <2>9 DEF TableInv, TableTypes
  <2>11. Chained(u)
    <3> SUFFICES ASSUME NEW bucket \in Buckets, NEW i \in 1..Len(u.chain[bucket])
                 PROVE  /\ u.chain[bucket][i] \in u.live
                        /\ u.addr[u.chain[bucket][i]].bucket = bucket
      BY DEF Chained
    <3>1. CASE bucket = a.bucket /\ i = Len(chain) + 1
      BY <3>1, <2>2, <2>3, <2>8, <2>9
    <3>2. CASE i \in 1..Len(t.chain[bucket]) /\ u.chain[bucket][i] = t.chain[bucket][i]
      <4>1. t.chain[bucket][i] \in t.live /\ t.addr[t.chain[bucket][i]].bucket = bucket
        BY <3>2 DEF TableInv, Chained
      <4> QED
        BY <3>2, <4>1, <2>2, <2>10
    <3>3. CASE bucket = a.bucket /\ i # Len(chain) + 1
      <4>1. Len(chain) \in Nat /\ i \in 1..(Len(chain) + 1)
        BY <3>3, <1>1, <2>3, <2>8
      <4>2. i \in 1..Len(chain)
        BY <3>3, <4>1
      <4> QED
        BY <3>3, <3>2, <4>2, <2>3, <2>8
    <3>4. CASE bucket # a.bucket
      BY <3>4, <3>2, <2>7
    <3> QED
      BY <3>1, <3>3, <3>4
  <2>12. Apart(u)
    <3> SUFFICES ASSUME NEW bucket \in Buckets,
                        NEW i \in 1..Len(u.chain[bucket]), NEW j \in 1..Len(u.chain[bucket]),
                        AddrEq(u.addr[u.chain[bucket][i]], u.addr[u.chain[bucket][j]])
                 PROVE  i = j
      BY DEF Apart
    <3>1. CASE bucket # a.bucket
      <4>1. u.chain[bucket] = t.chain[bucket]
        BY <3>1, <2>7
      <4>2. AddrEq(t.addr[t.chain[bucket][i]], t.addr[t.chain[bucket][j]])
        BY <4>1, <2>10
      <4> QED
        BY <4>1, <4>2 DEF TableInv, Apart
    <3>2. CASE bucket = a.bucket
      <4>1. Len(chain) \in Nat /\ i \in 1..(Len(chain) + 1) /\ j \in 1..(Len(chain) + 1)
        <5>1. Len(chain) \in Nat
          BY <1>1
        <5>2. Len(u.chain[bucket]) = Len(chain) + 1
          BY <3>2, <2>3, <2>8
        <5> QED
          BY <5>1, <5>2
      <4>2. \A n \in 1..Len(chain) :
              u.chain[bucket][n] = chain[n] /\ u.addr[u.chain[bucket][n]] = t.addr[chain[n]]
        <5> SUFFICES ASSUME NEW n \in 1..Len(chain)
                     PROVE  /\ u.chain[bucket][n] = chain[n]
                            /\ u.addr[u.chain[bucket][n]] = t.addr[chain[n]]
          OBVIOUS
        <5>1. u.chain[bucket][n] = chain[n]
          BY <3>2, <2>3, <2>8
        <5>2. u.addr[chain[n]] = t.addr[chain[n]]
          BY <1>1, <2>10
        <5> QED
          BY <5>1, <5>2
      <4>3. u.addr[u.chain[bucket][Len(chain) + 1]] = a
        BY <3>2, <2>3, <2>8, <2>9
      <4>4. CASE i \in 1..Len(chain) /\ j \in 1..Len(chain)
        <5>1. AddrEq(t.addr[chain[i]], t.addr[chain[j]])
          BY <4>2, <4>4
        <5> QED
          BY <4>4, <5>1, <1>1 DEF TableInv, Apart
      <4>5. CASE i = Len(chain) + 1 /\ j \in 1..Len(chain)
        BY <4>2, <4>3, <4>5, <2>4
      <4>6. CASE i \in 1..Len(chain) /\ j = Len(chain) + 1
        BY <4>2, <4>3, <4>6, <2>4
      <4>7. CASE i = Len(chain) + 1 /\ j = Len(chain) + 1
        BY <4>7
      <4>8. \A n \in 1..(Len(chain) + 1) : n \in 1..Len(chain) \/ n = Len(chain) + 1
        BY <4>1
      <4> QED
        BY <4>1, <4>4, <4>5, <4>6, <4>7, <4>8, Zenon
    <3> QED
      BY <3>1, <3>2
  <2>13. Linked(u)
    <3> SUFFICES ASSUME NEW r \in u.live
                 PROVE  \E i \in 1..Len(u.chain[u.addr[r].bucket]) :
                          u.chain[u.addr[r].bucket][i] = r
      BY DEF Linked
    <3>1. CASE r = s
      BY <3>1, <1>1, <2>3, <2>8, <2>9
    <3>2. CASE r # s
      <4>1. r \in t.live /\ r \in S /\ u.addr[r] = t.addr[r] /\ t.addr[r] \in Addrs
        BY <3>2, <2>2, <2>9 DEF TableInv, TableTypes
      <4>2. PICK i \in 1..Len(t.chain[t.addr[r].bucket]) : t.chain[t.addr[r].bucket][i] = r
        BY <4>1 DEF TableInv, Linked
      <4>3. CASE t.addr[r].bucket # a.bucket
        <5>1. u.chain[t.addr[r].bucket] = t.chain[t.addr[r].bucket]
          BY <4>1, <4>3, <2>7, AddrBucket
        <5> QED
          BY <4>1, <4>2, <5>1
      <4>4. CASE t.addr[r].bucket = a.bucket
        <5>1. i \in 1..Len(chain) /\ i \in 1..(Len(chain) + 1) /\ chain[i] = r
          BY <4>2, <4>4, <1>1
        <5>2. u.chain[a.bucket][i] = r /\ i \in 1..Len(u.chain[a.bucket])
          BY <5>1, <2>3, <2>8
        <5> QED
          BY <4>1, <4>4, <5>2
      <4> QED
        BY <4>3, <4>4
    <3> QED
      BY <3>1, <3>2
  <2> QED
    BY <2>2, <2>6, <2>11, <2>12, <2>13 DEF TableInv, u
<1> QED
  BY <1>2, <1>3

(* sas_server_session_delete unlinks the session that it frees             *)
(* (session.c:142-173).                                                    *)
LEMMA DeletedInv ==
  ASSUME NEW S, NEW t, TableInv(S, t), NEW s \in t.live
  PROVE  TableInv(S, Deleted(t, s)) /\ Deleted(t, s).live = t.live \ {s}
<1> DEFINE a == t.addr[s]
           chain == t.chain[a.bucket]
           u == Deleted(t, s)
<1>1. PICK k \in 1..Len(chain) : chain[k] = s /\ Stops(t, a) = {k}
  BY FoundAtOwn
<1>2. s \in S /\ a \in Addrs /\ a.bucket \in Buckets /\ chain \in Seq(S)
  BY AddrBucket DEF TableInv, TableTypes
<1>3. /\ u.addr = t.addr
      /\ u.live = t.live \ {s}
      /\ u.chain = [t.chain EXCEPT ![a.bucket] = RemoveAt(chain, k)]
      /\ u = [addr |-> u.addr, live |-> u.live, chain |-> u.chain]
  BY <1>1 DEF Deleted, TableInv, TableTypes
<1>4. /\ RemoveAt(chain, k) \in Seq(S)
      /\ Len(RemoveAt(chain, k)) = Len(chain) - 1
      /\ \A j \in 1..(Len(chain) - 1) :
           RemoveAt(chain, k)[j] = IF j < k THEN chain[j] ELSE chain[j + 1]
  BY <1>2, RemoveAtElements
<1> HIDE DEF u
<1>5. u \in TableTypes(S)
  BY <1>2, <1>3, <1>4 DEF TableInv, TableTypes
<1>6. \A bucket \in Buckets : bucket # a.bucket => u.chain[bucket] = t.chain[bucket]
  BY <1>3 DEF TableInv, TableTypes
<1>7. u.chain[a.bucket] = RemoveAt(chain, k)
  BY <1>2, <1>3 DEF TableInv, TableTypes
<1> DEFINE moved(j) == IF j < k THEN j ELSE j + 1
<1>8. /\ Len(chain) \in Nat
      /\ Len(u.chain[a.bucket]) = Len(chain) - 1
      /\ \A j \in 1..(Len(chain) - 1) :
           /\ moved(j) \in 1..Len(chain)
           /\ moved(j) # k
           /\ u.chain[a.bucket][j] = chain[moved(j)]
  <2>1. Len(chain) \in Nat /\ Len(u.chain[a.bucket]) = Len(chain) - 1
    <3>1. Len(chain) \in Nat
      BY <1>2
    <3>2. Len(u.chain[a.bucket]) = Len(chain) - 1
      BY <1>4, <1>7, Zenon
    <3> QED
      BY <3>1, <3>2
  <2> SUFFICES ASSUME NEW j \in 1..(Len(chain) - 1)
               PROVE  /\ moved(j) \in 1..Len(chain)
                      /\ moved(j) # k
                      /\ u.chain[a.bucket][j] = chain[moved(j)]
    BY <2>1
  <2>2. moved(j) \in 1..Len(chain) /\ moved(j) # k
    BY <2>1
  <2>3. u.chain[a.bucket][j] = IF j < k THEN chain[j] ELSE chain[j + 1]
    BY <1>4, <1>7
  <2> QED
    BY <2>2, <2>3
<1>9. \A i, j \in 1..(Len(chain) - 1) : moved(i) = moved(j) => i = j
  <2> SUFFICES ASSUME NEW i \in 1..(Len(chain) - 1), NEW j \in 1..(Len(chain) - 1),
                      moved(i) = moved(j)
               PROVE  i = j
    OBVIOUS
  <2>1. i \in Int /\ j \in Int /\ k \in Int
    BY <1>2
  <2> QED
    BY <2>1
<1>10. \A i \in 1..Len(chain) : i # k => \E j \in 1..(Len(chain) - 1) : moved(j) = i
  <2> SUFFICES ASSUME NEW i \in 1..Len(chain), i # k
               PROVE  \E j \in 1..(Len(chain) - 1) : moved(j) = i
    OBVIOUS
  <2>0. Len(chain) \in Nat
    BY <1>8
  <2>1. CASE i < k
    <3>1. i \in 1..(Len(chain) - 1) /\ moved(i) = i
      BY <2>0, <2>1
    <3> QED
      BY <3>1
  <2>2. CASE i > k
    <3>1. i - 1 \in 1..(Len(chain) - 1) /\ moved(i - 1) = i
      BY <2>0, <2>2
    <3> QED
      BY <3>1
  <2>3. i < k \/ i > k
    BY <1>2
  <2> QED
    BY <2>1, <2>2, <2>3, Zenon
<1> HIDE DEF moved
<1>11. \A i \in 1..Len(chain) : i # k => chain[i] # s
  BY <1>1, <1>2, AddrEqFacts DEF TableInv, Apart
<1>12. Chained(u)
  <2> SUFFICES ASSUME NEW bucket \in Buckets, NEW i \in 1..Len(u.chain[bucket])
               PROVE  /\ u.chain[bucket][i] \in u.live
                      /\ u.addr[u.chain[bucket][i]].bucket = bucket
    BY DEF Chained
  <2>1. CASE bucket = a.bucket
    <3>1. /\ i \in 1..(Len(chain) - 1) /\ moved(i) \in 1..Len(chain) /\ moved(i) # k
          /\ u.chain[bucket][i] = chain[moved(i)]
      BY <2>1, <1>8
    <3>2. chain[moved(i)] \in t.live /\ t.addr[chain[moved(i)]].bucket = a.bucket
      BY <3>1, <1>2 DEF TableInv, Chained
    <3>3. chain[moved(i)] # s
      BY <3>1, <1>11
    <3> QED
      BY <2>1, <3>1, <3>2, <3>3, <1>3
  <2>2. CASE bucket # a.bucket
    BY <2>2, <1>3, <1>6 DEF TableInv, Chained
  <2> QED
    BY <2>1, <2>2
<1>13. Apart(u)
  <2> SUFFICES ASSUME NEW bucket \in Buckets,
                      NEW i \in 1..Len(u.chain[bucket]), NEW j \in 1..Len(u.chain[bucket]),
                      AddrEq(u.addr[u.chain[bucket][i]], u.addr[u.chain[bucket][j]])
               PROVE  i = j
    BY DEF Apart
  <2>1. CASE bucket = a.bucket
    <3>1. /\ i \in 1..(Len(chain) - 1) /\ j \in 1..(Len(chain) - 1)
          /\ moved(i) \in 1..Len(chain) /\ moved(j) \in 1..Len(chain)
          /\ AddrEq(t.addr[chain[moved(i)]], t.addr[chain[moved(j)]])
      BY <2>1, <1>3, <1>8
    <3>2. moved(i) = moved(j)
      BY <3>1, <1>2 DEF TableInv, Apart
    <3> QED
      BY <3>1, <3>2, <1>9
  <2>2. CASE bucket # a.bucket
    BY <2>2, <1>3, <1>6 DEF TableInv, Apart
  <2> QED
    BY <2>1, <2>2
<1>14. Linked(u)
  <2> SUFFICES ASSUME NEW r \in u.live
               PROVE  \E i \in 1..Len(u.chain[u.addr[r].bucket]) :
                        u.chain[u.addr[r].bucket][i] = r
    BY DEF Linked
  <2>1. r \in t.live /\ r # s /\ u.addr[r] = t.addr[r] /\ t.addr[r].bucket \in Buckets
    BY <1>3, AddrBucket DEF TableInv, TableTypes
  <2>2. PICK i \in 1..Len(t.chain[t.addr[r].bucket]) : t.chain[t.addr[r].bucket][i] = r
    BY <2>1 DEF TableInv, Linked
  <2>3. CASE t.addr[r].bucket = a.bucket
    <3>1. i \in 1..Len(chain) /\ chain[i] = r /\ i # k
      BY <2>1, <2>2, <2>3, <1>1
    <3>2. PICK j \in 1..(Len(chain) - 1) : moved(j) = i
      BY <3>1, <1>10
    <3> QED
      BY <3>1, <3>2, <2>1, <2>3, <1>8
  <2>4. CASE t.addr[r].bucket # a.bucket
    BY <2>1, <2>2, <2>4, <1>6
  <2> QED
    BY <2>3, <2>4
<1> QED
  BY <1>3, <1>5, <1>12, <1>13, <1>14 DEF TableInv, u

(* The table of a server that has heard from nobody.                       *)
LEMMA EmptyTableInv ==
  ASSUME NEW S, NEW a \in Addrs
  PROVE  TableInv(S, EmptyTable([s \in S |-> a]))
<1> DEFINE t == EmptyTable([s \in S |-> a])
<1>1. t = [addr |-> [s \in S |-> a], live |-> {}, chain |-> [bucket \in Buckets |-> <<>>]]
  BY DEF EmptyTable
<1> HIDE DEF t
<1>2. \A bucket \in Buckets : t.chain[bucket] = <<>>
  BY <1>1
<1>3. t \in TableTypes(S)
  BY <1>1 DEF TableTypes
<1> QED
  BY <1>1, <1>2, <1>3 DEF TableInv, Chained, Apart, Linked, t
=============================================================================
