----------------------- MODULE GuestMerkleTreeProofs -----------------------
(***************************************************************************)
(* Proofs about the airdrop guest's Merkle tree, for any values and lists  *)
(* of any length: the build hashes every node once its children are there, *)
(* every value has a proof, and the root fixes the values.                 *)
(***************************************************************************)
EXTENDS GuestMerkleTree, FiniteSetTheorems, NaturalsInduction, WellFoundedInduction,
        TLAPS

-----------------------------------------------------------------------------
(* Induction *)

\* Induction over the naturals, for a set: a least number left out would have a
\* predecessor that is in.
LEMMA NatSetInduction ==
  ASSUME NEW S, 0 \in S, \A n \in Nat : n \in S => n + 1 \in S
  PROVE  \A n \in Nat : n \in S
<1> SUFFICES ASSUME Nat \ S # {} PROVE FALSE
  OBVIOUS
<1>1. PICK n \in Nat \ S : \A m \in Nat \ S : ~(<<m, n>> \in OpToRel(<, Nat))
  BY NatLessThanWellFounded, WFMin
<1>2. n - 1 \in Nat /\ n - 1 < n /\ n - 1 + 1 = n
  OBVIOUS
<1>3. <<n - 1, n>> \in OpToRel(<, Nat)
  BY <1>2 DEF OpToRel
<1>4. n - 1 \in S
  BY <1>1, <1>2, <1>3
<1> QED
  BY <1>2, <1>4

\* Downwards, from a number to all below it.
LEMMA DownInduction ==
  ASSUME NEW N \in Nat, NEW S, N \in S,
         \A k \in 0..(N - 1) : k + 1 \in S => k \in S
  PROVE  \A k \in 0..N : k \in S
<1> DEFINE D == {d \in Nat : d <= N => N - d \in S}
<1>1. 0 \in D
  OBVIOUS
<1>2. \A d \in Nat : d \in D => d + 1 \in D
  <2> SUFFICES ASSUME NEW d \in Nat, d \in D, d + 1 <= N
               PROVE  N - (d + 1) \in S
    OBVIOUS
  <2> DEFINE k == N - (d + 1)
  <2>1. k \in 0..(N - 1) /\ k + 1 = N - d /\ d <= N
    OBVIOUS
  <2> QED
    BY <2>1
<1> HIDE DEF D
<1>3. \A d \in Nat : d \in D
  BY <1>1, <1>2, NatSetInduction
<1>4. ASSUME NEW k \in 0..N PROVE k \in S
  <2>1. N - k \in Nat /\ N - k <= N /\ N - (N - k) = k
    OBVIOUS
  <2> QED
    BY <1>3, <2>1 DEF D
<1> QED
  BY <1>4

-----------------------------------------------------------------------------
(* The heap over a list *)

\* A list the guest can be given, other than the empty one.
IsList(list) == list \in Lists /\ list # <<>>

\* Such a list is a sequence of values of some length.
LEMMA ListType ==
  ASSUME NEW list, IsList(list)
  PROVE  /\ Len(list) \in Nat \ {0} /\ DOMAIN list = 1..Len(list)
         /\ \A k \in 1..Len(list) : list[k] \in Values
<1>1. PICK m \in 0..MaxLeaves : list \in [1..m -> Values]
  BY DEF IsList, Lists, BoundedSeq, SeqOf
<1>2. m \in Nat /\ list \in Seq(Values) /\ Len(list) = m
  BY <1>1, MaxLeavesAssumption
<1>3. m # 0
  BY <1>1, <1>2 DEF IsList
<1> QED
  BY <1>1, <1>2, <1>3

\* One place of a heap: the hash there, and the indices of the list below it.
Hash(list, N, k) ==
  IF k >= Len(list) - 1 THEN LeafHash(list[2 * Len(list) - 1 - k])
  ELSE HashPair(N[LeftChildIndex(k)], N[RightChildIndex(k)])

Under(list, L, k) ==
  IF k >= Len(list) - 1 THEN {2 * Len(list) - 1 - k}
  ELSE L[LeftChildIndex(k)] \cup L[RightChildIndex(k)]

\* The places of the heap over a list.
Places(list) == 0..(2 * Len(list) - 2)

\* N holds the hashes of the heap, L the indices below its places.
Heap(list, N, L) ==
  /\ N = [k \in Places(list) |-> Hash(list, N, k)]
  /\ L = [k \in Places(list) |-> Under(list, L, k)]

\* Every list has a heap: the build, place by place from the last one down.
LEMMA HeapExists ==
  ASSUME NEW list, IsList(list)
  PROVE  \E N, L : Heap(list, N, L)
<1> DEFINE n == Len(list)  P == 0..(2 * n - 2)
<1>1. n \in Nat /\ n >= 1
  BY ListType
<1> DEFINE
      Upto(N, L, q) ==
        /\ N = [k \in P |-> N[k]] /\ L = [k \in P |-> L[k]]
        /\ \A k \in P : k >= q => N[k] = Hash(list, N, k) /\ L[k] = Under(list, L, k)
      S == {q \in 0..(n - 1) : \E N, L : Upto(N, L, q)}
<1>2. n - 1 \in S
  <2> DEFINE N == [k \in P |-> LeafHash(list[2 * n - 1 - k])]
             L == [k \in P |-> {2 * n - 1 - k}]
  <2>1. Upto(N, L, n - 1)
    BY <1>1 DEF Hash, Under
  <2>2. n - 1 \in 0..(n - 1)
    BY <1>1
  <2> HIDE DEF N, L, n, Upto
  <2> QED
    BY <2>1, <2>2
<1>3. \A q \in 0..(n - 1 - 1) : q + 1 \in S => q \in S
  <2> SUFFICES ASSUME NEW q \in 0..(n - 1 - 1), q + 1 \in S PROVE q \in S
    OBVIOUS
  <2>1. PICK N, L : Upto(N, L, q + 1)
    BY DEF S
  <2> DEFINE M == [N EXCEPT ![q] = HashPair(N[LeftChildIndex(q)], N[RightChildIndex(q)])]
             K == [L EXCEPT ![q] = L[LeftChildIndex(q)] \cup L[RightChildIndex(q)]]
  <2>2. /\ M = [k \in P |-> M[k]] /\ K = [k \in P |-> K[k]] /\ q \in P
    <3>1. N = [k \in P |-> N[k]] /\ L = [k \in P |-> L[k]]
      BY <2>1
    <3>2. DOMAIN N = P /\ DOMAIN L = P
      BY <3>1
    <3>3. M = [k \in DOMAIN N |-> M[k]] /\ K = [k \in DOMAIN L |-> K[k]]
      OBVIOUS
    <3>4. q \in P
      BY <1>1
    <3> HIDE DEF M, K, P
    <3> QED
      BY <3>2, <3>3, <3>4
  <2>3. M[q] = HashPair(N[LeftChildIndex(q)], N[RightChildIndex(q)])
        /\ K[q] = L[LeftChildIndex(q)] \cup L[RightChildIndex(q)]
    BY <2>1, <2>2
  <2>4. \A k \in P : k # q => M[k] = N[k] /\ K[k] = L[k]
    BY <2>1, <2>2
  <2> HIDE DEF M, K
  <2>5. ASSUME NEW k \in P, k >= q
        PROVE  M[k] = Hash(list, M, k) /\ K[k] = Under(list, K, k)
    <3> DEFINE l == LeftChildIndex(k)  r == RightChildIndex(k)
    <3>1. CASE k >= n - 1
      <4>1. k # q /\ k >= q + 1
        BY <1>1, <3>1
      <4> QED
        BY <2>1, <2>4, <3>1, <4>1 DEF Hash, Under
    <3>2. CASE ~(k >= n - 1)
      <4>1. l \in P /\ r \in P /\ l # q /\ r # q
        BY <1>1, <2>5, <3>2 DEF LeftChildIndex, RightChildIndex
      <4>2. M[l] = N[l] /\ M[r] = N[r] /\ K[l] = L[l] /\ K[r] = L[r]
        BY <2>4, <4>1
      <4> HIDE DEF l, r
      <4>3. Hash(list, M, k) = HashPair(N[l], N[r]) /\ Under(list, K, k) = L[l] \cup L[r]
        BY <3>2, <4>2 DEF Hash, Under, l, r
      <4>4. CASE k = q
        BY <2>3, <4>3, <4>4 DEF l, r
      <4>5. CASE k # q
        <5>1. k >= q + 1
          BY <2>5, <4>5, <1>1
        <5>2. N[k] = HashPair(N[l], N[r]) /\ L[k] = L[l] \cup L[r]
          BY <2>1, <3>2, <5>1 DEF Hash, Under, l, r
        <5> QED
          BY <2>4, <4>3, <4>5, <5>2
      <4> QED
        BY <4>4, <4>5
    <3> QED
      BY <3>1, <3>2
  <2>6. Upto(M, K, q)
    BY <2>2, <2>5
  <2>7. q \in 0..(n - 1)
    BY <1>1
  <2> HIDE DEF n, Upto
  <2> QED
    BY <2>6, <2>7
<1>4. 0 \in S
  <2>1. n - 1 \in Nat /\ 0 \in 0..(n - 1)
    BY <1>1
  <2> HIDE DEF S, n
  <2> QED
    BY <1>2, <1>3, <2>1, DownInduction
<1>5. PICK N, L : Upto(N, L, 0)
  BY <1>4
<1>6. \A k \in P : k >= 0
  OBVIOUS
<1>7. N = [k \in P |-> N[k]] /\ L = [k \in P |-> L[k]]
  BY <1>5
<1> QED
  BY <1>5, <1>6, <1>7 DEF Heap, Places

\* N holds the hashes of the heap.
Hashed(list, N) == N = [k \in Places(list) |-> Hash(list, N, k)]

\* The hashes of a list's heap are determined by the list.
LEMMA HashesUnique ==
  ASSUME NEW list, IsList(list), NEW N, Hashed(list, N), NEW M, Hashed(list, M)
  PROVE  N = M
<1> DEFINE n == Len(list)  last == 2 * n - 2
           S == {q \in 0..last : \A k \in q..last : N[k] = M[k]}
<1>1. n \in Nat /\ n >= 1
  BY ListType
<1>2. \A k \in 0..last : N[k] = Hash(list, N, k) /\ M[k] = Hash(list, M, k)
  BY DEF Hashed, Places
<1>3. ASSUME NEW q \in 0..last, \A k \in (q + 1)..last : N[k] = M[k]
      PROVE  N[q] = M[q]
  <2>1. CASE q >= n - 1
    BY <1>2, <2>1 DEF Hash
  <2>2. CASE ~(q >= n - 1)
    <3>1. LeftChildIndex(q) \in (q + 1)..last /\ RightChildIndex(q) \in (q + 1)..last
      BY <1>1, <2>2 DEF LeftChildIndex, RightChildIndex
    <3>2. /\ N[LeftChildIndex(q)] = M[LeftChildIndex(q)]
          /\ N[RightChildIndex(q)] = M[RightChildIndex(q)]
      BY <1>3, <3>1
    <3> QED
      BY <1>2, <2>2, <3>2 DEF Hash
  <2> QED
    BY <2>1, <2>2
<1>4. last \in Nat /\ last \in 0..last
  BY <1>1
<1>5. last \in S
  <2>1. \A k \in (last + 1)..last : N[k] = M[k]
    BY <1>1
  <2>2. N[last] = M[last]
    BY <1>3, <1>4, <2>1
  <2>3. \A k \in last..last : k = last
    BY <1>4
  <2> HIDE DEF last
  <2> QED
    BY <1>4, <2>2, <2>3
<1>6. \A q \in 0..(last - 1) : q + 1 \in S => q \in S
  <2> SUFFICES ASSUME NEW q \in 0..(last - 1), q + 1 \in S PROVE q \in S
    OBVIOUS
  <2>1. q \in 0..last
    BY <1>4
  <2>2. N[q] = M[q]
    BY <1>3, <2>1
  <2>3. \A k \in q..last : k = q \/ k \in (q + 1)..last
    BY <1>4
  <2> HIDE DEF last
  <2> QED
    BY <2>1, <2>2, <2>3
<1>7. 0 \in S
  <2>1. 0 \in 0..last
    BY <1>4
  <2> HIDE DEF S, last
  <2> QED
    BY <1>4, <1>5, <1>6, <2>1, DownInduction
<1>8. \A k \in 0..last : N[k] = M[k]
  BY <1>7
<1>9. N = [k \in 0..last |-> N[k]] /\ M = [k \in 0..last |-> M[k]]
  <2>1. \A f : Hashed(list, f) => f = [k \in 0..last |-> f[k]]
    BY DEF Hashed, Places
  <2> QED
    BY <2>1
<1> HIDE DEF last
<1> QED
  BY <1>8, <1>9

\* The recursive definition of a list's root finds the top of its heap.
LEMMA RootIsTop ==
  ASSUME NEW list, IsList(list), NEW N, Hashed(list, N)
  PROVE  RootOf(list) = N[0]
<1> DEFINE Node == CHOOSE f : f = [k \in Places(list) |-> Hash(list, f, k)]
<1>1. RootOf(list) = Node[0]
  BY Zenon DEF RootOf, Places, Hash
<1>2. Hashed(list, Node)
  BY Zenon DEF Hashed
<1> HIDE DEF Node
<1>3. Node = N
  BY <1>2, HashesUnique
<1> QED
  BY <1>1, <1>3

-----------------------------------------------------------------------------
(* What stands below a place *)

\* The places j..2j cut every path from the root to a leaf once: the sets below
\* them share no index and together hold all of the list's.
Cut(list, L, j) ==
  /\ \A k \in j..(2 * j), m \in j..(2 * j) : k # m => L[k] \cap L[m] = {}
  /\ \A x : x \in 1..Len(list) <=> \E k \in j..(2 * j) : x \in L[k]

\* The leaves are a cut, and hashing one more node leaves a cut: its two children
\* go, it comes.
LEMMA AllCuts ==
  ASSUME NEW list, IsList(list), NEW N, NEW L, Heap(list, N, L)
  PROVE  \A j \in 0..(Len(list) - 1) : Cut(list, L, j)
<1> DEFINE n == Len(list)
           S == {j \in 0..(n - 1) : Cut(list, L, j)}
<1>1. n \in Nat /\ n >= 1
  BY ListType
<1>2. \A k \in 0..(2 * n - 2) : L[k] = Under(list, L, k)
  BY DEF Heap, Places
<1>3. n - 1 \in S
  <2>1. \A k \in (n - 1)..(2 * (n - 1)) : L[k] = {2 * n - 1 - k}
    <3> TAKE k \in (n - 1)..(2 * (n - 1))
    <3>1. k >= n - 1 /\ k \in 0..(2 * n - 2)
      BY <1>1
    <3>2. Under(list, L, k) = {2 * n - 1 - k}
      BY <3>1, Zenon DEF Under
    <3> QED
      BY <1>2, <3>1, <3>2, Zenon
  <2>2. \A k \in (n - 1)..(2 * (n - 1)), m \in (n - 1)..(2 * (n - 1)) :
          k # m => L[k] \cap L[m] = {}
    BY <1>1, <2>1
  <2>3. ASSUME NEW x
        PROVE  x \in 1..n <=> \E k \in (n - 1)..(2 * (n - 1)) : x \in L[k]
    <3>1. ASSUME x \in 1..n
          PROVE  \E k \in (n - 1)..(2 * (n - 1)) : x \in L[k]
      <4>1. 2 * n - 1 - x \in (n - 1)..(2 * (n - 1))
            /\ 2 * n - 1 - (2 * n - 1 - x) = x
        BY <1>1, <3>1
      <4>2. x \in L[2 * n - 1 - x]
        BY <2>1, <4>1
      <4> QED
        BY <4>1, <4>2
    <3>2. ASSUME NEW k \in (n - 1)..(2 * (n - 1)), x \in L[k]
          PROVE  x \in 1..n
      <4>1. x = 2 * n - 1 - k
        BY <2>1, <3>2
      <4> QED
        BY <1>1, <4>1
    <3> QED
      BY <3>1, <3>2
  <2>4. n - 1 \in 0..(n - 1)
    BY <1>1
  <2> QED
    BY <2>2, <2>3, <2>4 DEF Cut
<1>4. \A j \in 0..(n - 1 - 1) : j + 1 \in S => j \in S
  <2> SUFFICES ASSUME NEW j \in 0..(n - 1 - 1), j + 1 \in S PROVE j \in S
    OBVIOUS
  <2> DEFINE l == 2 * j + 1  r == 2 * j + 2  old == (j + 1)..(2 * (j + 1))
  <2>1. L[j] = L[l] \cup L[r]
    <3>1. j \in 0..(2 * n - 2) /\ ~(j >= n - 1)
      BY <1>1
    <3> QED
      BY <1>2, <3>1 DEF Under, LeftChildIndex, RightChildIndex
  <2>2. l \in old /\ r \in old /\ l # r
    OBVIOUS
  <2>3. \A k \in j..(2 * j) : k = j \/ (k \in old /\ k # l /\ k # r)
    OBVIOUS
  <2>4. \A k \in old : k = l \/ k = r \/ k \in j..(2 * j)
    OBVIOUS
  <2>5. /\ \A k \in old, m \in old : k # m => L[k] \cap L[m] = {}
        /\ \A x : x \in 1..n <=> \E k \in old : x \in L[k]
    BY DEF Cut
  <2>6. j \in j..(2 * j) /\ j \in 0..(n - 1)
    BY <1>1
  <2> HIDE DEF old, l, r
  <2>7. ASSUME NEW k \in j..(2 * j), NEW m \in j..(2 * j), k # m
        PROVE  L[k] \cap L[m] = {}
    <3>1. CASE k = j
      BY <2>1, <2>2, <2>3, <2>5, <2>7, <3>1
    <3>2. CASE m = j
      BY <2>1, <2>2, <2>3, <2>5, <2>7, <3>2
    <3>3. CASE k # j /\ m # j
      BY <2>3, <2>5, <2>7, <3>3
    <3> QED
      BY <3>1, <3>2, <3>3
  <2>8. \A x : x \in 1..n <=> \E k \in j..(2 * j) : x \in L[k]
    <3>1. ASSUME NEW x, NEW k \in old, x \in L[k]
          PROVE  \E m \in j..(2 * j) : x \in L[m]
      BY <2>1, <2>4, <2>6, <3>1
    <3>2. ASSUME NEW x, NEW k \in j..(2 * j), x \in L[k]
          PROVE  \E m \in old : x \in L[m]
      BY <2>1, <2>2, <2>3, <3>2
    <3> QED
      BY <2>5, <3>1, <3>2
  <2> QED
    BY <2>6, <2>7, <2>8 DEF Cut
<1>5. \A j \in 0..(n - 1) : j \in S
  <2>1. n - 1 \in Nat
    BY <1>1
  <2> HIDE DEF S, n
  <2> QED
    BY <1>3, <1>4, <2>1, DownInduction
<1> QED
  BY <1>5

\* How often the value v stands below place k.
Occ(list, L, k, v) == Cardinality({x \in L[k] : list[x] = v})

\* Below an inner place stand the values of its two children, none counted twice.
LEMMA OccSplits ==
  ASSUME NEW list, IsList(list), NEW N, NEW L, Heap(list, N, L), NEW v
  PROVE  /\ \A k \in Places(list) : Occ(list, L, k, v) \in Nat
         /\ \A k \in 0..(Len(list) - 2) :
              Occ(list, L, k, v) = Occ(list, L, LeftChildIndex(k), v)
                                   + Occ(list, L, RightChildIndex(k), v)
<1> DEFINE n == Len(list)  At(k) == {x \in L[k] : list[x] = v}
<1>1. n \in Nat /\ n >= 1
  BY ListType
<1>2. \A k \in 0..(2 * n - 2) : L[k] = Under(list, L, k)
  BY DEF Heap, Places
<1>3. ASSUME NEW k \in 0..(2 * n - 2) PROVE L[k] \subseteq 1..n
  <2>1. CASE k <= n - 1
    <3>1. k \in 0..(n - 1) /\ k \in k..(2 * k)
      BY <2>1
    <3>2. Cut(list, L, k)
      BY <3>1, AllCuts
    <3> QED
      BY <3>1, <3>2 DEF Cut
  <2>2. CASE ~(k <= n - 1)
    <3>1. L[k] = {2 * n - 1 - k}
      <4>1. k >= n - 1
        BY <1>1, <2>2
      <4>2. Under(list, L, k) = {2 * n - 1 - k}
        BY <4>1, Zenon DEF Under
      <4> QED
        BY <1>2, <4>2, Zenon
    <3> QED
      BY <1>1, <2>2, <3>1
  <2> QED
    BY <2>1, <2>2
<1>4. ASSUME NEW k \in 0..(2 * n - 2)
      PROVE  IsFiniteSet(At(k)) /\ Cardinality(At(k)) \in Nat
  <2>1. IsFiniteSet(1..n)
    BY <1>1, FS_Interval
  <2>2. At(k) \in SUBSET (1..n)
    BY <1>3
  <2> HIDE DEF At, n
  <2> QED
    BY <2>1, <2>2, FS_Subset, FS_CardinalityType
<1>5. ASSUME NEW k \in 0..(n - 2)
      PROVE  Occ(list, L, k, v) = Occ(list, L, LeftChildIndex(k), v)
                                  + Occ(list, L, RightChildIndex(k), v)
  <2> DEFINE l == LeftChildIndex(k)  r == RightChildIndex(k)
  <2>1. /\ l \in (k + 1)..(2 * (k + 1)) /\ r \in (k + 1)..(2 * (k + 1)) /\ l # r
        /\ l \in 0..(2 * n - 2) /\ r \in 0..(2 * n - 2) /\ k \in 0..(2 * n - 2)
        /\ k + 1 \in 0..(n - 1) /\ ~(k >= n - 1)
    BY <1>1 DEF LeftChildIndex, RightChildIndex
  <2>2. L[k] = L[l] \cup L[r]
    BY <1>2, <2>1 DEF Under
  <2> HIDE DEF l, r
  <2>3. L[l] \cap L[r] = {}
    BY <2>1, AllCuts DEF Cut
  <2>4. At(k) = At(l) \cup At(r) /\ At(l) \cap At(r) = {}
    BY <2>2, <2>3
  <2>5. /\ IsFiniteSet(At(l)) /\ Cardinality(At(l)) \in Nat
        /\ IsFiniteSet(At(r)) /\ Cardinality(At(r)) \in Nat
    BY <1>4, <2>1
  <2>6. /\ Occ(list, L, k, v) = Cardinality(At(k))
        /\ Occ(list, L, l, v) = Cardinality(At(l))
        /\ Occ(list, L, r, v) = Cardinality(At(r))
    BY DEF Occ
  <2> HIDE DEF At
  <2>7. Cardinality(At(l) \cup At(r))
          = Cardinality(At(l)) + Cardinality(At(r)) - Cardinality(At(l) \cap At(r))
    BY <2>5, FS_Union
  <2>8. Cardinality(At(l) \cap At(r)) = 0
    BY <2>4, FS_EmptySet
  <2> QED
    BY <2>4, <2>5, <2>6, <2>7, <2>8 DEF l, r
<1>6. \A k \in Places(list) : Occ(list, L, k, v) \in Nat
  BY <1>4 DEF Occ, Places
<1> QED
  BY <1>5, <1>6

\* Hashes of leaves and of pairs are different, and each tells what was hashed.
LEMMA HashesBind ==
  /\ \A v, w : LeafHash(v) = LeafHash(w) => v = w
  /\ \A v, l, r : LeafHash(v) # HashPair(l, r)
  /\ \A l, r, a, b : HashPair(l, r) = HashPair(a, b) =>
       (l = a /\ r = b) \/ (l = b /\ r = a)
  /\ \A v : LeafHash(v) # Default
  /\ \A l, r : HashPair(l, r) # Default
<1>1. \A v, w : LeafHash(v) = LeafHash(w) => v = w
  BY DEF LeafHash
<1>2. \A v, l, r : LeafHash(v) # HashPair(l, r)
  BY DEF LeafHash, HashPair
<1>3. ASSUME NEW l, NEW r, NEW a, NEW b, HashPair(l, r) = HashPair(a, b)
      PROVE  (l = a /\ r = b) \/ (l = b /\ r = a)
  <2>1. {l, r} = {a, b}
    BY <1>3 DEF HashPair
  <2> QED
    BY <2>1
<1>4. \A v : LeafHash(v) # Default
  BY DEF LeafHash, Default
<1>5. \A l, r : HashPair(l, r) # Default
  BY DEF HashPair, Default
<1> QED
  BY <1>1, <1>2, <1>3, <1>4, <1>5

\* Places of two heaps with one hash have the same values below them, although a
\* pair's hash forgets the order of its halves and either heap may be the larger.
LEMMA HashFixesValues ==
  ASSUME NEW A, IsList(A), NEW N, NEW L, Heap(A, N, L),
         NEW B, IsList(B), NEW M, NEW K, Heap(B, M, K), NEW v
  PROVE  \A k \in Places(A), m \in Places(B) :
           N[k] = M[m] => Occ(A, L, k, v) = Occ(B, K, m, v)
<1> DEFINE a == Len(A)  b == Len(B)  last == 2 * a - 2
           Same(k) == \A m \in Places(B) : N[k] = M[m] => Occ(A, L, k, v) = Occ(B, K, m, v)
           S == {q \in 0..last : \A k \in q..last : Same(k)}
<1>1. a \in Nat /\ a >= 1 /\ b \in Nat /\ b >= 1
  BY ListType
<1>2. \A k \in 0..last : N[k] = Hash(A, N, k) /\ L[k] = Under(A, L, k)
  BY DEF Heap, Places
<1>3. \A m \in 0..(2 * b - 2) : M[m] = Hash(B, M, m) /\ K[m] = Under(B, K, m)
  BY DEF Heap, Places
<1>4. ASSUME NEW k \in 0..last, \A q \in (k + 1)..last : Same(q)
      PROVE  Same(k)
  <2> SUFFICES ASSUME NEW m \in 0..(2 * b - 2), N[k] = M[m]
               PROVE  Occ(A, L, k, v) = Occ(B, K, m, v)
    BY DEF Places
  <2>1. CASE k >= a - 1 /\ m >= b - 1
    <3> DEFINE x == 2 * a - 1 - k  y == 2 * b - 1 - m
    <3>1. Hash(A, N, k) = LeafHash(A[x]) /\ Hash(B, M, m) = LeafHash(B[y])
      BY <2>1, Zenon DEF Hash
    <3>2. L[k] = {x} /\ K[m] = {y}
      <4>1. Under(A, L, k) = {x} /\ Under(B, K, m) = {y}
        BY <2>1, Zenon DEF Under
      <4> QED
        BY <1>2, <1>3, <4>1, Zenon
    <3> HIDE DEF x, y
    <3>3. A[x] = B[y]
      BY <1>2, <1>3, <3>1, HashesBind
    <3>4. CASE A[x] = v
      <4>1. {z \in L[k] : A[z] = v} = {x} /\ {z \in K[m] : B[z] = v} = {y}
        BY <3>2, <3>3, <3>4
      <4> QED
        BY <4>1, FS_Singleton DEF Occ
    <3>5. CASE A[x] # v
      <4>1. {z \in L[k] : A[z] = v} = {} /\ {z \in K[m] : B[z] = v} = {}
        BY <3>2, <3>3, <3>5
      <4> QED
        BY <4>1 DEF Occ
    <3> QED
      BY <3>4, <3>5
  <2>2. CASE k >= a - 1 /\ ~(m >= b - 1)
    <3>1. /\ Hash(A, N, k) = LeafHash(A[2 * a - 1 - k])
          /\ Hash(B, M, m) = HashPair(M[LeftChildIndex(m)], M[RightChildIndex(m)])
      BY <2>2, Zenon DEF Hash
    <3>2. LeafHash(A[2 * a - 1 - k])
            = HashPair(M[LeftChildIndex(m)], M[RightChildIndex(m)])
      BY <1>2, <1>3, <3>1, Zenon
    <3> QED
      BY <3>2, HashesBind
  <2>4. CASE ~(k >= a - 1) /\ m >= b - 1
    <3>1. /\ Hash(A, N, k) = HashPair(N[LeftChildIndex(k)], N[RightChildIndex(k)])
          /\ Hash(B, M, m) = LeafHash(B[2 * b - 1 - m])
      BY <2>4, Zenon DEF Hash
    <3>2. LeafHash(B[2 * b - 1 - m])
            = HashPair(N[LeftChildIndex(k)], N[RightChildIndex(k)])
      BY <1>2, <1>3, <3>1, Zenon
    <3> QED
      BY <3>2, HashesBind
  <2>3. CASE ~(k >= a - 1) /\ ~(m >= b - 1)
    <3> DEFINE l == LeftChildIndex(k)  r == RightChildIndex(k)
               x == LeftChildIndex(m)  y == RightChildIndex(m)
    <3>1. /\ l \in (k + 1)..last /\ r \in (k + 1)..last /\ k \in 0..(a - 2)
          /\ l \in 0..last /\ r \in 0..last
          /\ x \in 0..(2 * b - 2) /\ y \in 0..(2 * b - 2) /\ m \in 0..(b - 2)
      BY <1>1, <2>3 DEF LeftChildIndex, RightChildIndex
    <3>2. N[k] = HashPair(N[l], N[r]) /\ M[m] = HashPair(M[x], M[y])
      BY <1>2, <1>3, <2>3, Zenon DEF Hash
    <3>3. /\ Occ(A, L, k, v) = Occ(A, L, l, v) + Occ(A, L, r, v)
          /\ Occ(B, K, m, v) = Occ(B, K, x, v) + Occ(B, K, y, v)
      BY <3>1, OccSplits
    <3>4. /\ Occ(A, L, l, v) \in Nat /\ Occ(A, L, r, v) \in Nat
      BY <3>1, OccSplits DEF Places
    <3> HIDE DEF l, r, x, y
    <3>5. (N[l] = M[x] /\ N[r] = M[y]) \/ (N[l] = M[y] /\ N[r] = M[x])
      <4>1. HashPair(N[l], N[r]) = HashPair(M[x], M[y])
        BY <3>2
      <4>2. {N[l], N[r]} = {M[x], M[y]}
        BY <4>1, HashesBind
      <4> QED
        BY <4>2
    <3>6. Same(l) /\ Same(r)
      BY <1>4, <3>1
    <3>7. \/ Occ(A, L, l, v) = Occ(B, K, x, v) /\ Occ(A, L, r, v) = Occ(B, K, y, v)
          \/ Occ(A, L, l, v) = Occ(B, K, y, v) /\ Occ(A, L, r, v) = Occ(B, K, x, v)
      BY <3>1, <3>5, <3>6 DEF Places
    <3> QED
      BY <3>3, <3>4, <3>7
  <2> QED
    BY <2>1, <2>2, <2>3, <2>4
<1>5. last \in Nat /\ last \in 0..last
  BY <1>1
<1> HIDE DEF Same
<1>6. last \in S
  <2>1. \A k \in (last + 1)..last : Same(k)
    BY <1>5
  <2>2. Same(last)
    BY <1>4, <1>5, <2>1
  <2>3. \A k \in last..last : k = last
    BY <1>5
  <2> HIDE DEF last
  <2> QED
    BY <1>5, <2>2, <2>3
<1>7. \A q \in 0..(last - 1) : q + 1 \in S => q \in S
  <2> SUFFICES ASSUME NEW q \in 0..(last - 1), q + 1 \in S PROVE q \in S
    OBVIOUS
  <2>1. q \in 0..last
    BY <1>5
  <2>2. Same(q)
    BY <1>4, <2>1
  <2>3. \A k \in q..last : k = q \/ k \in (q + 1)..last
    BY <1>5
  <2> HIDE DEF last
  <2> QED
    BY <2>1, <2>2, <2>3
<1>8. 0 \in S
  <2>1. 0 \in 0..last
    BY <1>5
  <2> HIDE DEF S, last
  <2> QED
    BY <1>5, <1>6, <1>7, <2>1, DownInduction
<1>9. \A k \in 0..last : Same(k)
  BY <1>8
<1> QED
  BY <1>9 DEF Same, Places

\* How often a list holds each value.
Occurrences(list) == [v \in Values |-> Cardinality({k \in DOMAIN list : list[k] = v})]

\* Two lists with one root hold each value equally often.
THEOREM RootBinds ==
  ASSUME NEW A, IsList(A), NEW B, IsList(B), RootOf(A) = RootOf(B)
  PROVE  Occurrences(A) = Occurrences(B)
<1>1. PICK N, L : Heap(A, N, L)
  BY HeapExists
<1>2. PICK M, K : Heap(B, M, K)
  BY HeapExists
<1>3. N[0] = M[0]
  BY <1>1, <1>2, RootIsTop DEF Heap, Hashed
<1>4. 0 \in Places(A) /\ 0 \in Places(B)
  BY ListType DEF Places
<1>5. ASSUME NEW C, IsList(C), NEW O, NEW J, Heap(C, O, J), NEW v
      PROVE  Cardinality({k \in DOMAIN C : C[k] = v}) = Occ(C, J, 0, v)
  <2>1. Len(C) \in Nat \ {0} /\ DOMAIN C = 1..Len(C)
    BY <1>5, ListType
  <2>2. 0 \in 0..(Len(C) - 1) /\ \A k \in 0..(2 * 0) : k = 0
    BY <2>1
  <2>3. Cut(C, J, 0)
    BY <1>5, <2>2, AllCuts
  <2>4. J[0] = 1..Len(C)
    <3>1. \A x : x \in 1..Len(C) <=> x \in J[0]
      BY <2>2, <2>3 DEF Cut
    <3> QED
      BY <3>1
  <2> QED
    BY <2>1, <2>4, Zenon DEF Occ
<1>6. \A v : Occ(A, L, 0, v) = Occ(B, K, 0, v)
  BY <1>1, <1>2, <1>3, <1>4, HashFixesValues
<1>7. \A v \in Values : Cardinality({k \in DOMAIN A : A[k] = v})
                          = Cardinality({k \in DOMAIN B : B[k] = v})
  BY <1>1, <1>2, <1>5, <1>6
<1> QED
  BY <1>7 DEF Occurrences

-----------------------------------------------------------------------------
(* Proofs *)

\* Max of a set of indices that is not empty is the greatest of them.
LEMMA MaxOfIndices ==
  ASSUME NEW m \in Nat, NEW s \in SUBSET (1..m), s # {}
  PROVE  Max(s) \in s /\ \A y \in s : Max(s) >= y
<1> DEFINE S == {d \in 0..m : m - d \in s}
<1>1. S \in SUBSET Nat /\ S # {}
  <2>1. PICK x \in s : TRUE
    OBVIOUS
  <2>2. x \in 1..m
    BY <2>1
  <2>3. m - x \in 0..m /\ m - (m - x) = x
    BY <2>2
  <2>4. m - x \in S
    BY <2>1, <2>3
  <2>5. \A d \in S : d \in Nat
    OBVIOUS
  <2> HIDE DEF S
  <2> QED
    BY <2>4, <2>5
<1>2. PICK d \in S : \A e \in S : ~(<<e, d>> \in OpToRel(<, Nat))
  BY <1>1, NatLessThanWellFounded, WFMin
<1>3. d \in S
  BY <1>2, Zenon
<1>4. \A e \in S : ~(e < d)
  <2> SUFFICES ASSUME NEW e \in S, e < d PROVE FALSE
    OBVIOUS
  <2>1. <<e, d>> \in OpToRel(<, Nat)
    BY <1>3 DEF OpToRel
  <2> QED
    BY <1>2, <2>1, Zenon
<1>5. \A y \in s : m - d >= y
  <2> TAKE y \in s
  <2>1. m - y \in S
    <3>1. m - y \in 0..m /\ m - (m - y) = y
      OBVIOUS
    <3> QED
      BY <3>1
  <2>2. ~(m - y < d) /\ d \in Nat
    BY <1>3, <1>4, <2>1
  <2> QED
    BY <2>2
<1>6. \E x \in s : \A y \in s : x >= y
  BY <1>3, <1>5
<1> QED
  BY <1>6 DEF Max

\* verifyCalldata's loop: computedHash starts as the leaf and is hashed with one
\* element of the proof after the other.
LEMMA FoldIsLoop ==
  ASSUME NEW X, NEW proof \in Seq(X), NEW leaf
  PROVE  \E c : /\ c[0] = leaf
                /\ \A j \in 1..Len(proof) : c[j] = CommutativeHash(c[j - 1], proof[j])
                /\ ProcessProof(proof, leaf) = c[Len(proof)]
<1> DEFINE
      m == Len(proof)  D == 1..m
      body(g, s) == IF s = {} THEN leaf
                    ELSE CommutativeHash(g[s \ {Max(s)}], proof[Max(s)])
      step(g) == [s \in SUBSET D |-> body(g, s)]
      iter == CHOOSE g : g = step(g)
      Good(g, n) == \A s \in SUBSET D : Cardinality(s) <= n => g[s] = body(g, s)
      S == {n \in Nat : \E g : g = [s \in SUBSET D |-> g[s]] /\ Good(g, n)}
<1>1. m \in Nat /\ DOMAIN proof = D
  OBVIOUS
<1>2. ProcessProof(proof, leaf) = iter[D]
  BY <1>1, Zenon DEF ProcessProof, FoldLeft, MapThenFoldSet
<1>3. \A s \in SUBSET D : IsFiniteSet(s) /\ Cardinality(s) \in Nat /\ Cardinality(s) <= m
  <2>1. IsFiniteSet(D) /\ Cardinality(D) = m
    BY <1>1, FS_Interval
  <2> HIDE DEF D, m
  <2> QED
    BY <2>1, FS_Subset, FS_CardinalityType
<1>4. \A s \in SUBSET D : s # {} =>
        s \ {Max(s)} \in SUBSET D /\ Cardinality(s \ {Max(s)}) = Cardinality(s) - 1
  <2> SUFFICES ASSUME NEW s \in SUBSET D, s # {}
               PROVE  Cardinality(s \ {Max(s)}) = Cardinality(s) - 1
    OBVIOUS
  <2>1. Max(s) \in s
    BY <1>1, MaxOfIndices
  <2> QED
    BY <1>3, <2>1, FS_RemoveElement
<1>5. 0 \in S
  <2> DEFINE g == [s \in SUBSET D |-> leaf]
  <2>1. Good(g, 0)
    <3> SUFFICES ASSUME NEW s \in SUBSET D, Cardinality(s) <= 0
                 PROVE  g[s] = body(g, s)
      OBVIOUS
    <3>1. s = {}
      BY <1>3, FS_EmptySet
    <3> QED
      BY <3>1
  <2>2. g = [s \in SUBSET D |-> g[s]]
    OBVIOUS
  <2> HIDE DEF g, Good, D
  <2> QED
    BY <2>1, <2>2
<1>6. \A n \in Nat : n \in S => n + 1 \in S
  <2> SUFFICES ASSUME NEW n \in Nat, n \in S PROVE n + 1 \in S
    OBVIOUS
  <2>1. PICK g : g = [s \in SUBSET D |-> g[s]] /\ Good(g, n)
    BY DEF S
  <2> DEFINE h == step(g)
  <2>2. Good(h, n + 1)
    <3> SUFFICES ASSUME NEW s \in SUBSET D, Cardinality(s) <= n + 1
                 PROVE  h[s] = body(h, s)
      OBVIOUS
    <3>1. h[s] = body(g, s)
      OBVIOUS
    <3>2. CASE s = {}
      BY <3>1, <3>2
    <3>3. CASE s # {}
      <4> DEFINE t == s \ {Max(s)}
      <4>1. t \in SUBSET D /\ Cardinality(t) <= n
        <5>1. /\ t \in SUBSET D /\ Cardinality(t) = Cardinality(s) - 1
              /\ Cardinality(s) \in Nat
          BY <1>3, <1>4, <3>3, Zenon
        <5> HIDE DEF t, D
        <5> QED
          BY <5>1
      <4>2. g[t] = body(g, t) /\ h[t] = body(g, t)
        BY <2>1, <4>1
      <4>3. body(h, s) = CommutativeHash(h[t], proof[Max(s)])
            /\ body(g, s) = CommutativeHash(g[t], proof[Max(s)])
        BY <3>3
      <4> HIDE DEF body, h, t
      <4> QED
        BY <3>1, <4>2, <4>3
    <3> QED
      BY <3>2, <3>3
  <2>3. h = [s \in SUBSET D |-> h[s]]
    OBVIOUS
  <2> HIDE DEF h, Good, D
  <2> QED
    BY <2>2, <2>3
<1>7. \E g : g = step(g)
  <2>1. m \in S
    <3> HIDE DEF S, m
    <3> QED
      BY <1>1, <1>5, <1>6, NatSetInduction
  <2>2. PICK g : g = [s \in SUBSET D |-> g[s]] /\ Good(g, m)
    BY <2>1
  <2>3. \A s \in SUBSET D : g[s] = body(g, s)
    BY <1>3, <2>2
  <2> HIDE DEF body, D
  <2> QED
    BY <2>2, <2>3
<1>8. iter = step(iter)
  <2> HIDE DEF step
  <2> QED
    BY <1>7, Zenon
<1> DEFINE c == [j \in 0..m |-> iter[1..j]]
<1> HIDE DEF iter
<1>9. c[0] = leaf
  <2>1. 1..0 = {}
    OBVIOUS
  <2>2. iter[{}] = leaf
    BY <1>8
  <2> QED
    BY <1>1, <2>1, <2>2
<1>10. ASSUME NEW j \in 1..m PROVE c[j] = CommutativeHash(c[j - 1], proof[j])
  <2>1. (1..j) \in SUBSET D /\ 1..j # {}
    <3>1. j \in 1..j /\ \A x \in 1..j : x \in 1..m
      BY <1>1
    <3> HIDE DEF m
    <3> QED
      BY <3>1
  <2>2. Max(1..j) = j
    <3>1. Max(1..j) \in 1..j /\ \A y \in 1..j : Max(1..j) >= y
      BY <1>1, <2>1, MaxOfIndices
    <3> QED
      BY <3>1
  <2>3. (1..j) \ {j} = 1..(j - 1)
    OBVIOUS
  <2>4. iter[1..j] = CommutativeHash(iter[1..(j - 1)], proof[j])
    BY <1>8, <2>1, <2>2, <2>3
  <2>5. j \in 0..m /\ j - 1 \in 0..m
    OBVIOUS
  <2> QED
    BY <2>4, <2>5
<1>11. c[m] = iter[D]
  BY <1>1
<1> HIDE DEF c, m, D
<1> QED
  BY <1>2, <1>9, <1>10, <1>11 DEF m

\* A proof's first element is hashed with the leaf, and the rest is a proof for
\* the result.
LEMMA ProofOnward ==
  ASSUME NEW X, NEW rest \in Seq(X), NEW a \in X, NEW leaf
  PROVE  ProcessProof(<<a>> \o rest, leaf) = ProcessProof(rest, CommutativeHash(leaf, a))
<1> DEFINE all == <<a>> \o rest  m == Len(rest)
<1>1. /\ all \in Seq(X) /\ Len(all) = m + 1 /\ m \in Nat
      /\ all[1] = a /\ \A j \in 1..m : all[j + 1] = rest[j]
  OBVIOUS
<1> HIDE DEF all, m
<1>2. PICK c : /\ c[0] = leaf
               /\ \A j \in 1..(m + 1) : c[j] = CommutativeHash(c[j - 1], all[j])
               /\ ProcessProof(all, leaf) = c[m + 1]
  <2>1. PICK c : /\ c[0] = leaf
                 /\ \A j \in 1..Len(all) : c[j] = CommutativeHash(c[j - 1], all[j])
                 /\ ProcessProof(all, leaf) = c[Len(all)]
    BY <1>1, FoldIsLoop
  <2>2. Len(all) = m + 1
    BY <1>1
  <2> QED
    BY <2>1, <2>2, Zenon
<1>3. PICK d : /\ d[0] = CommutativeHash(leaf, a)
               /\ \A j \in 1..m : d[j] = CommutativeHash(d[j - 1], rest[j])
               /\ ProcessProof(rest, CommutativeHash(leaf, a)) = d[m]
  BY FoldIsLoop DEF m
<1> DEFINE S == {j \in Nat : j <= m => c[j + 1] = d[j]}
<1>4. 0 \in S
  <2>1. 1 \in 1..(m + 1) /\ 1 - 1 = 0 /\ 0 + 1 = 1
    BY <1>1
  <2> QED
    BY <1>1, <1>2, <1>3, <2>1
<1>5. \A j \in Nat : j \in S => j + 1 \in S
  <2> SUFFICES ASSUME NEW j \in Nat, j \in S, j + 1 <= m
               PROVE  c[j + 1 + 1] = d[j + 1]
    OBVIOUS
  <2>1. /\ j + 1 \in 1..m /\ j + 1 + 1 \in 1..(m + 1)
        /\ j + 1 - 1 = j /\ j + 1 + 1 - 1 = j + 1 /\ j <= m
    BY <1>1
  <2>2. all[j + 1 + 1] = rest[j + 1]
    BY <1>1, <2>1
  <2>3. c[j + 1 + 1] = CommutativeHash(c[j + 1], rest[j + 1])
    BY <1>2, <2>1, <2>2
  <2>4. d[j + 1] = CommutativeHash(d[j], rest[j + 1])
    BY <1>3, <2>1
  <2> QED
    BY <2>1, <2>3, <2>4
<1> HIDE DEF S
<1>6. m \in S
  BY <1>1, <1>4, <1>5, NatSetInduction
<1>7. c[m + 1] = d[m]
  BY <1>1, <1>6 DEF S
<1> QED
  BY <1>2, <1>3, <1>7 DEF all

\* No proof at all leaves the leaf.
LEMMA EmptyProof ==
  ASSUME NEW leaf
  PROVE  ProcessProof(<<>>, leaf) = leaf
<1> DEFINE none == <<>>
<1>1. none \in Seq({}) /\ Len(none) = 0
  OBVIOUS
<1> HIDE DEF none
<1>2. PICK c : /\ c[0] = leaf
               /\ \A j \in 1..Len(none) : c[j] = CommutativeHash(c[j - 1], none[j])
               /\ ProcessProof(none, leaf) = c[Len(none)]
  BY <1>1, FoldIsLoop
<1> QED
  BY <1>1, <1>2 DEF none

\* An element in front of a sequence of such elements.
LEMMA LongerSeq ==
  ASSUME NEW X, NEW rest \in Seq(X), NEW a \in X
  PROVE  <<a>> \o rest \in Seq(X)
OBVIOUS

\* The place a place is hashed into lies above it, and its sibling beside it.
LEMMA ParentAndSibling ==
  ASSUME NEW k \in Nat \ {0}
  PROVE  /\ Parent(k) \in Nat /\ Parent(k) <= k - 1
         /\ \/ LeftChildIndex(Parent(k)) = k /\ RightChildIndex(Parent(k)) = Sibling(k)
            \/ LeftChildIndex(Parent(k)) = Sibling(k) /\ RightChildIndex(Parent(k)) = k
BY DEF Parent, Sibling, LeftChildIndex, RightChildIndex

\* The siblings on the way up, for any array of places.
Siblings(t, f, k) == IF k = 0 THEN <<>> ELSE <<t[Sibling(k)]>> \o f[Parent(k)]

\* They can be listed from the root down.
LEMMA SiblingsExist ==
  ASSUME NEW t, NEW last \in Nat
  PROVE  \E f : f = [k \in 0..last |-> Siblings(t, f, k)]
<1> DEFINE P == 0..last
           Good(f, q) == \A k \in P : k <= q => f[k] = Siblings(t, f, k)
           S == {q \in Nat : \E f : f = [k \in P |-> f[k]] /\ Good(f, q)}
<1>1. 0 \in S
  <2> DEFINE f == [k \in P |-> <<>>]
  <2>1. Good(f, 0)
    BY DEF Siblings
  <2>2. f = [k \in P |-> f[k]]
    OBVIOUS
  <2> HIDE DEF f, Good, P
  <2> QED
    BY <2>1, <2>2
<1>2. \A q \in Nat : q \in S => q + 1 \in S
  <2> SUFFICES ASSUME NEW q \in Nat, q \in S PROVE q + 1 \in S
    OBVIOUS
  <2>1. PICK f : f = [k \in P |-> f[k]] /\ Good(f, q)
    BY DEF S
  <2> DEFINE g == [k \in P |-> Siblings(t, f, k)]
  <2>2. ASSUME NEW k \in P, k <= q + 1 PROVE g[k] = Siblings(t, g, k)
    <3>1. g[k] = Siblings(t, f, k)
      OBVIOUS
    <3>2. CASE k = 0
      BY <3>1, <3>2 DEF Siblings
    <3>3. CASE k # 0
      <4>1. Parent(k) \in P /\ Parent(k) <= q
        <5>1. k \in Nat \ {0} /\ k <= last
          BY <3>3
        <5> QED
          BY <2>2, <5>1, ParentAndSibling
      <4>2. f[Parent(k)] = Siblings(t, f, Parent(k))
        BY <2>1, <4>1
      <4>3. g[Parent(k)] = f[Parent(k)]
        BY <4>1, <4>2
      <4> HIDE DEF g
      <4> QED
        BY <3>1, <3>3, <4>3 DEF Siblings
    <3> QED
      BY <3>2, <3>3
  <2>3. g = [k \in P |-> g[k]]
    OBVIOUS
  <2> HIDE DEF g, P
  <2> QED
    BY <2>2, <2>3
<1>3. last \in S
  <2> HIDE DEF S
  <2> QED
    BY <1>1, <1>2, NatSetInduction
<1>4. PICK f : f = [k \in P |-> f[k]] /\ Good(f, last)
  BY <1>3
<1>5. \A k \in P : f[k] = Siblings(t, f, k)
  BY <1>4
<1> HIDE DEF P
<1>6. f = [k \in P |-> Siblings(t, f, k)]
  BY <1>4, <1>5
<1> QED
  BY <1>6 DEF P

\* In a tree whose inner places hold the hashes of their children, the siblings
\* above any place are a proof for the hash there.
LEMMA ProofsClimb ==
  ASSUME NEW n \in Nat \ {0}, NEW t,
         \A k \in 0..(n - 2) : t[k] = HashPair(t[LeftChildIndex(k)], t[RightChildIndex(k)]),
         NEW f, f = [k \in 0..(2 * n - 2) |-> Siblings(t, f, k)]
  PROVE  \A k \in 0..(2 * n - 2) : ProcessProof(f[k], t[k]) = t[0]
<1> DEFINE last == 2 * n - 2
           X == {t[k] : k \in 0..last}
           Ok(k) == f[k] \in Seq(X) /\ ProcessProof(f[k], t[k]) = t[0]
           S == {q \in Nat : \A k \in 0..last : k <= q => Ok(k)}
<1>1. \A k \in 0..last : f[k] = Siblings(t, f, k)
  OBVIOUS
<1>2. Ok(0)
  <2>1. f[0] = <<>>
    BY <1>1 DEF Siblings
  <2>2. ProcessProof(<<>>, t[0]) = t[0]
    BY EmptyProof
  <2>3. <<>> \in Seq(X)
    OBVIOUS
  <2> HIDE DEF X
  <2> QED
    BY <2>1, <2>2, <2>3, Zenon
<1>3. ASSUME NEW k \in 1..last, Ok(Parent(k)) PROVE Ok(k)
  <2> DEFINE p == Parent(k)  s == Sibling(k)
  <2>1. k \in Nat \ {0} /\ k \in 0..last
    OBVIOUS
  <2>2. p \in 0..(n - 2) /\ s \in 0..last
    <3>1. p \in Nat /\ p <= k - 1
      BY <2>1, ParentAndSibling
    <3>2. \/ LeftChildIndex(p) = k /\ RightChildIndex(p) = s
          \/ LeftChildIndex(p) = s /\ RightChildIndex(p) = k
      BY <2>1, ParentAndSibling
    <3> HIDE DEF p, s
    <3> QED
      BY <3>1, <3>2 DEF LeftChildIndex, RightChildIndex
  <2>3. CommutativeHash(t[k], t[s]) = t[p]
    <3>1. t[p] = HashPair(t[LeftChildIndex(p)], t[RightChildIndex(p)])
      BY <2>2
    <3>2. \/ LeftChildIndex(p) = k /\ RightChildIndex(p) = s
          \/ LeftChildIndex(p) = s /\ RightChildIndex(p) = k
      BY <2>1, ParentAndSibling
    <3>3. {t[k], t[s]} = {t[LeftChildIndex(p)], t[RightChildIndex(p)]}
      BY <3>2
    <3> HIDE DEF p, s
    <3> QED
      BY <3>1, <3>3 DEF CommutativeHash, HashPair
  <2>4. f[k] = <<t[s]>> \o f[p]
    BY <1>1, <2>1 DEF Siblings
  <2>5. t[s] \in X
    BY <2>2
  <2>6. f[p] \in Seq(X) /\ ProcessProof(f[p], t[p]) = t[0]
    BY <1>3
  <2> HIDE DEF X, p, s
  <2>7. <<t[s]>> \o f[p] \in Seq(X)
    BY <2>5, <2>6, LongerSeq, Zenon
  <2>8. ProcessProof(<<t[s]>> \o f[p], t[k])
          = ProcessProof(f[p], CommutativeHash(t[k], t[s]))
    <3> DEFINE a == t[s]  rest == f[p]  leaf == t[k]
    <3>1. a \in X /\ rest \in Seq(X)
      BY <2>5, <2>6
    <3> HIDE DEF a, rest, leaf
    <3>2. ProcessProof(<<a>> \o rest, leaf) = ProcessProof(rest, CommutativeHash(leaf, a))
      BY <3>1, ProofOnward
    <3> QED
      BY <3>2 DEF a, rest, leaf
  <2>9. ProcessProof(f[k], t[k]) = t[0]
    BY <2>3, <2>4, <2>6, <2>8, Zenon
  <2> QED
    BY <2>4, <2>7, <2>9, Zenon
<1> HIDE DEF Ok
<1>4. 0 \in S
  <2>1. \A k \in 0..last : k <= 0 => k = 0
    OBVIOUS
  <2> HIDE DEF last
  <2> QED
    BY <1>2, <2>1
<1>5. \A q \in Nat : q \in S => q + 1 \in S
  <2> SUFFICES ASSUME NEW q \in Nat, q \in S, NEW k \in 0..last, k <= q + 1
               PROVE  Ok(k)
    OBVIOUS
  <2>1. CASE k = 0
    BY <1>2, <2>1
  <2>2. CASE k # 0
    <3>1. k \in 1..last /\ k \in Nat \ {0} /\ k <= last
      BY <2>2
    <3>2. Parent(k) \in 0..last /\ Parent(k) <= q
      <4>1. Parent(k) \in Nat /\ Parent(k) <= k - 1
        BY <3>1, ParentAndSibling
      <4> QED
        BY <3>1, <4>1
    <3>3. Ok(Parent(k))
      BY <3>2
    <3> QED
      BY <1>3, <3>1, <3>3
  <2> QED
    BY <2>1, <2>2
<1>6. \A q \in Nat : q \in S
  <2> HIDE DEF S
  <2> QED
    BY <1>4, <1>5, NatSetInduction
<1>7. \A k \in 0..last : Ok(k)
  <2> TAKE k \in 0..last
  <2>1. k \in Nat /\ k \in S
    BY <1>6
  <2> QED
    BY <2>1
<1> QED
  BY <1>7 DEF Ok

-----------------------------------------------------------------------------
(* The build *)

\* The place of the leaf of the element after the first k.
LeafAt(list, k) == 2 * Len(list) - 2 - k

\* The first m leaves are hashed in t, and look has their hashes and no other.
LeavesIn(list, t, look, m) ==
  /\ \A k \in 0..(m - 1) : t[LeafAt(list, k)] = LeafHash(list[k + 1])
  /\ \A k \in 0..(m - 1) : LeafHash(list[k + 1]) \in DOMAIN look
  /\ \A h \in DOMAIN look :
       \E k \in 0..(m - 1) : look[h] = LeafAt(list, k) /\ h = LeafHash(list[k + 1])

\* The inner places from q on hold the hashes of their children.
NodesIn(list, t, q) ==
  \A k \in q..(Len(list) - 2) : t[k] = HashPair(t[LeftChildIndex(k)], t[RightChildIndex(k)])

\* How far the build has come in each phase.
Inv ==
  /\ values \in Lists
  /\ phase \in {"start", "panicked", "leaves", "nodes", "committed"}
  /\ phase = "start" => i = 0 /\ hashLookup = <<>>
  /\ phase \in {"leaves", "nodes", "committed"} =>
       values # <<>> /\ tree = [k \in Places(values) |-> tree[k]]
  /\ phase = "leaves" => /\ i \in 0..Len(values)
                         /\ LeavesIn(values, tree, hashLookup, i)
  /\ phase = "nodes" => /\ i \in -1..(Len(values) - 2)
                        /\ LeavesIn(values, tree, hashLookup, Len(values))
                        /\ NodesIn(values, tree, i + 1)
  /\ phase = "committed" => /\ LeavesIn(values, tree, hashLookup, Len(values))
                            /\ NodesIn(values, tree, 0)
                            /\ root = tree[0]

\* The first loop's body: a leaf goes to a place of its own, and a repeated value
\* only moves its entry of hash_lookup.
LEMMA LeafAdded ==
  ASSUME NEW list, IsList(list), NEW t, t = [k \in Places(list) |-> t[k]], NEW look,
         NEW m \in 0..(Len(list) - 1), LeavesIn(list, t, look, m),
         NEW t2, NEW look2, NEW h, h = LeafHash(list[m + 1]),
         t2 = [t EXCEPT ![LeafAt(list, m)] = h],
         look2 = [x \in DOMAIN look \cup {h} |->
                    IF x = h THEN LeafAt(list, m) ELSE look[x]]
  PROVE  t2 = [k \in Places(list) |-> t2[k]] /\ LeavesIn(list, t2, look2, m + 1)
<1>1. Len(list) \in Nat \ {0} /\ m \in Nat
  BY ListType
<1>2. /\ LeafAt(list, m) \in Places(list)
      /\ \A k \in 0..(m - 1) : LeafAt(list, k) \in Places(list)
      /\ \A k \in 0..(m - 1) : LeafAt(list, k) # LeafAt(list, m)
  BY <1>1 DEF LeafAt, Places
<1>3. DOMAIN t = Places(list)
  OBVIOUS
<1>4. t2 = [k \in Places(list) |-> t2[k]]
  BY <1>3
<1>5. t2[LeafAt(list, m)] = h
  BY <1>2, <1>3
<1>6. \A k \in 0..(m - 1) : t2[LeafAt(list, k)] = t[LeafAt(list, k)]
  BY <1>2, <1>3
<1>7. \A k \in 0..(m + 1 - 1) : k = m \/ k \in 0..(m - 1)
  BY <1>1
<1>8. m \in 0..(m + 1 - 1) /\ \A k \in 0..(m - 1) : k \in 0..(m + 1 - 1)
  BY <1>1
<1>9. DOMAIN look2 = DOMAIN look \cup {h} /\ look2[h] = LeafAt(list, m)
  OBVIOUS
<1>10. \A x \in DOMAIN look2 : x # h => x \in DOMAIN look /\ look2[x] = look[x]
  OBVIOUS
<1>11. \A k \in 0..(m + 1 - 1) : t2[LeafAt(list, k)] = LeafHash(list[k + 1])
  BY <1>5, <1>6, <1>7 DEF LeavesIn
<1>12. \A k \in 0..(m + 1 - 1) : LeafHash(list[k + 1]) \in DOMAIN look2
  BY <1>7, <1>9 DEF LeavesIn
<1>13. ASSUME NEW x \in DOMAIN look2
       PROVE  \E k \in 0..(m + 1 - 1) :
                look2[x] = LeafAt(list, k) /\ x = LeafHash(list[k + 1])
  <2>1. CASE x = h
    BY <1>8, <1>9, <2>1
  <2>2. CASE x # h
    <3>1. x \in DOMAIN look /\ look2[x] = look[x]
      BY <1>10, <1>13, <2>2
    <3>2. PICK k \in 0..(m - 1) : look[x] = LeafAt(list, k) /\ x = LeafHash(list[k + 1])
      BY <3>1 DEF LeavesIn
    <3> QED
      BY <1>8, <3>1, <3>2
  <2> QED
    BY <2>1, <2>2
<1>14. LeavesIn(list, t2, look2, m + 1)
  <2> DEFINE l == m + 1
  <2>1. /\ \A k \in 0..(l - 1) : t2[LeafAt(list, k)] = LeafHash(list[k + 1])
        /\ \A k \in 0..(l - 1) : LeafHash(list[k + 1]) \in DOMAIN look2
    BY <1>11, <1>12
  <2>2. \A x \in DOMAIN look2 : \E k \in 0..(l - 1) :
          look2[x] = LeafAt(list, k) /\ x = LeafHash(list[k + 1])
    BY <1>13
  <2> HIDE DEF l
  <2>3. LeavesIn(list, t2, look2, l)
    BY <2>1, <2>2, Zenon DEF LeavesIn
  <2> QED
    BY <2>3 DEF l
<1> QED
  BY <1>4, <1>14, Zenon

\* The second loop's body: the children of the node are behind it, so they are
\* hashed already and stay, as the leaves do.
LEMMA NodeAdded ==
  ASSUME NEW list, IsList(list), NEW t, t = [k \in Places(list) |-> t[k]], NEW look,
         LeavesIn(list, t, look, Len(list)),
         NEW q \in 0..(Len(list) - 2), NodesIn(list, t, q + 1), NEW t2,
         t2 = [t EXCEPT ![q] = HashPair(t[LeftChildIndex(q)], t[RightChildIndex(q)])]
  PROVE  /\ t2 = [k \in Places(list) |-> t2[k]]
         /\ LeavesIn(list, t2, look, Len(list)) /\ NodesIn(list, t2, q)
<1> DEFINE n == Len(list)
           pair == HashPair(t[LeftChildIndex(q)], t[RightChildIndex(q)])
<1>1. n \in Nat \ {0} /\ DOMAIN t = Places(list) /\ q \in Places(list)
  BY ListType DEF Places
<1>2. t2 = [k \in Places(list) |-> t2[k]]
  BY <1>1
<1>3. t2[q] = pair /\ \A k \in Places(list) : k # q => t2[k] = t[k]
  BY <1>1
<1>4. \A k \in 0..(n - 1) : LeafAt(list, k) \in Places(list) /\ LeafAt(list, k) # q
  BY <1>1 DEF LeafAt, Places
<1>5. \A k \in 0..(n - 1) : t2[LeafAt(list, k)] = t[LeafAt(list, k)]
  BY <1>3, <1>4
<1>6. LeavesIn(list, t2, look, n)
  BY <1>5 DEF LeavesIn
<1>7. ASSUME NEW k \in q..(n - 2)
      PROVE  t2[k] = HashPair(t2[LeftChildIndex(k)], t2[RightChildIndex(k)])
  <2>1. /\ LeftChildIndex(k) \in Places(list) /\ LeftChildIndex(k) # q
        /\ RightChildIndex(k) \in Places(list) /\ RightChildIndex(k) # q
        /\ k \in Places(list)
    <3>1. k \in Int /\ k >= 0 /\ k >= q /\ k <= n - 2 /\ q >= 0
      BY <1>1
    <3>2. LeftChildIndex(k) = 2 * k + 1 /\ RightChildIndex(k) = 2 * k + 2
      BY <3>1 DEF LeftChildIndex, RightChildIndex
    <3> QED
      BY <1>1, <3>1, <3>2 DEF Places
  <2>2. /\ t2[LeftChildIndex(k)] = t[LeftChildIndex(k)]
        /\ t2[RightChildIndex(k)] = t[RightChildIndex(k)]
    BY <1>3, <2>1
  <2>3. CASE k = q
    BY <1>3, <2>2, <2>3
  <2>4. CASE k # q
    <3>1. k \in (q + 1)..(n - 2)
      BY <1>1, <2>4
    <3>2. t[k] = HashPair(t[LeftChildIndex(k)], t[RightChildIndex(k)])
      BY <3>1 DEF NodesIn
    <3> QED
      BY <1>3, <2>1, <2>2, <2>4, <3>2
  <2> QED
    BY <2>3, <2>4
<1> QED
  BY <1>2, <1>6, <1>7 DEF NodesIn

\* The loops keep it: no place is written twice, and none is read before both its
\* children are written.
THEOREM Invariance == Spec => []Inv
<1>1. Init => Inv
  BY DEF Init, Inv
<1>2. ASSUME Inv, [Next]_vars PROVE Inv'
  <2>1. ASSUME phase \in {"leaves", "nodes", "committed"}
        PROVE  /\ IsList(values) /\ Len(values) \in Nat \ {0}
               /\ TreeLen - 1 = 2 * Len(values) - 2 /\ 0..(TreeLen - 1) = Places(values)
               /\ \A k : LeafIndex(k) = LeafAt(values, k)
    <3>1. IsList(values) /\ Len(values) \in Nat \ {0}
      BY <1>2, <2>1, ListType DEF Inv, IsList
    <3>2. TreeLen - 1 = 2 * Len(values) - 2
      BY <3>1 DEF TreeLen
    <3> QED
      BY <3>1, <3>2 DEF LeafIndex, LeafAt, Places
  <2>2. CASE Start
    <3>1. CASE values = <<>>
      BY <1>2, <2>2, <3>1 DEF Inv, Start
    <3>2. CASE values # <<>>
      <4>1. /\ phase' = "leaves" /\ values' = values /\ i' = 0 /\ hashLookup' = <<>>
            /\ tree' = [k \in 0..(TreeLen - 1) |-> Default]
        BY <1>2, <2>2, <3>2 DEF Inv, Start
      <4>2. Len(values) \in Nat \ {0}
        BY <1>2, <3>2, ListType DEF Inv, IsList
      <4>3. 0..(TreeLen - 1) = Places(values)
        BY <4>2 DEF TreeLen, Places
      <4>4. tree' = [k \in Places(values') |-> tree'[k]]
        BY <4>1, <4>3
      <4>5. LeavesIn(values', tree', hashLookup', i')
        <5>1. DOMAIN hashLookup' = {} /\ 0..(i' - 1) = {}
          BY <4>1
        <5> QED
          BY <5>1 DEF LeavesIn
      <4>6. i' \in 0..Len(values')
        BY <4>1, <4>2
      <4> QED
        BY <1>2, <3>2, <4>1, <4>4, <4>5, <4>6 DEF Inv
    <3> QED
      BY <3>1, <3>2
  <2>3. CASE HashLeaf
    <3> DEFINE h == LeafHash(values[i + 1])
    <3>1. /\ phase = "leaves" /\ phase' = "leaves" /\ values' = values /\ i' = i + 1
          /\ i < Len(values) /\ tree' = [tree EXCEPT ![LeafIndex(i)] = h]
          /\ hashLookup' = [x \in DOMAIN hashLookup \cup {h} |->
                              IF x = h THEN LeafIndex(i) ELSE hashLookup[x]]
      BY <2>3 DEF HashLeaf
    <3>2. /\ IsList(values) /\ Len(values) \in Nat \ {0} /\ values # <<>>
          /\ tree = [k \in Places(values) |-> tree[k]]
          /\ i \in 0..Len(values) /\ LeavesIn(values, tree, hashLookup, i)
          /\ LeafIndex(i) = LeafAt(values, i)
      BY <1>2, <2>1, <3>1 DEF Inv
    <3>3. i \in 0..(Len(values) - 1) /\ i' \in 0..Len(values)
      BY <3>1, <3>2
    <3>4. /\ tree' = [k \in Places(values) |-> tree'[k]]
          /\ LeavesIn(values, tree', hashLookup', i + 1)
      <4>1. tree' = [tree EXCEPT ![LeafAt(values, i)] = h]
        BY <3>1, <3>2
      <4>2. hashLookup' = [x \in DOMAIN hashLookup \cup {h} |->
                             IF x = h THEN LeafAt(values, i) ELSE hashLookup[x]]
        BY <3>1, <3>2
      <4> QED
        BY <3>2, <3>3, <4>1, <4>2, LeafAdded
    <3> HIDE DEF h
    <3> QED
      BY <1>2, <3>1, <3>2, <3>3, <3>4 DEF Inv
  <2>4. CASE LeavesDone
    <3> DEFINE n == Len(values)
    <3>1. /\ phase = "leaves" /\ phase' = "nodes" /\ i = n /\ i' = TreeLen - n - 1
          /\ values' = values /\ tree' = tree /\ hashLookup' = hashLookup
      BY <2>4 DEF LeavesDone
    <3>2. /\ n \in Nat \ {0} /\ values # <<>> /\ TreeLen - 1 = 2 * n - 2
          /\ tree = [k \in Places(values) |-> tree[k]]
          /\ LeavesIn(values, tree, hashLookup, n)
      BY <1>2, <2>1, <3>1 DEF Inv
    <3>3. i' \in -1..(n - 2) /\ (i' + 1)..(n - 2) = {}
      BY <3>1, <3>2 DEF TreeLen
    <3>4. NodesIn(values', tree', i' + 1)
      BY <3>1, <3>3 DEF NodesIn
    <3> QED
      BY <1>2, <3>1, <3>2, <3>3, <3>4 DEF Inv
  <2>5. CASE HashNode
    <3> DEFINE pair == HashPair(tree[LeftChildIndex(i)], tree[RightChildIndex(i)])
    <3>1. /\ phase = "nodes" /\ phase' = "nodes" /\ i >= 0 /\ i' = i - 1
          /\ tree' = [tree EXCEPT ![i] = pair]
          /\ values' = values /\ hashLookup' = hashLookup
      BY <2>5 DEF HashNode, NodesLeft
    <3>2. /\ IsList(values) /\ Len(values) \in Nat \ {0} /\ values # <<>>
          /\ tree = [k \in Places(values) |-> tree[k]] /\ i \in -1..(Len(values) - 2)
          /\ LeavesIn(values, tree, hashLookup, Len(values))
          /\ NodesIn(values, tree, i + 1)
      BY <1>2, <2>1, <3>1 DEF Inv
    <3>3. i \in 0..(Len(values) - 2) /\ i' \in -1..(Len(values) - 2) /\ i' + 1 = i
      BY <3>1, <3>2
    <3>4. /\ tree' = [k \in Places(values) |-> tree'[k]]
          /\ LeavesIn(values, tree', hashLookup, Len(values))
          /\ NodesIn(values, tree', i)
      BY <3>1, <3>2, <3>3, NodeAdded
    <3> HIDE DEF pair
    <3> QED
      BY <1>2, <3>1, <3>2, <3>3, <3>4 DEF Inv
  <2>6. CASE Commit
    <3>1. /\ phase = "nodes" /\ phase' = "committed" /\ ~(i >= 0) /\ root' = tree[0]
          /\ values' = values /\ tree' = tree /\ hashLookup' = hashLookup
      BY <2>6 DEF Commit, NodesLeft
    <3>2. /\ Len(values) \in Nat \ {0} /\ tree = [k \in Places(values) |-> tree[k]]
          /\ i \in -1..(Len(values) - 2) /\ values # <<>>
          /\ LeavesIn(values, tree, hashLookup, Len(values))
          /\ NodesIn(values, tree, i + 1)
      BY <1>2, <2>1, <3>1 DEF Inv
    <3>3. i + 1 = 0
      BY <3>1, <3>2
    <3>4. NodesIn(values, tree, 0)
      BY <3>2, <3>3
    <3> QED
      BY <1>2, <3>1, <3>2, <3>4 DEF Inv
  <2>7. CASE UNCHANGED vars
    BY <1>2, <2>7 DEF Inv, vars
  <2> QED
    BY <1>2, <2>2, <2>3, <2>4, <2>5, <2>6, <2>7 DEF Next
<1> QED
  BY <1>1, <1>2, PTL DEF Spec

-----------------------------------------------------------------------------
(* The properties *)

\* Once both loops are through, the array is the heap of the list.
LEMMA BuiltIsHeap ==
  ASSUME NEW list, IsList(list), NEW t, t = [k \in Places(list) |-> t[k]], NEW look,
         LeavesIn(list, t, look, Len(list)), NodesIn(list, t, 0)
  PROVE  Hashed(list, t)
<1> DEFINE n == Len(list)
<1>1. n \in Nat \ {0}
  BY ListType
<1>2. ASSUME NEW k \in Places(list) PROVE t[k] = Hash(list, t, k)
  <2>1. CASE k >= n - 1
    <3>1. 2 * n - 2 - k \in 0..(n - 1) /\ LeafAt(list, 2 * n - 2 - k) = k
          /\ 2 * n - 2 - k + 1 = 2 * n - 1 - k
      BY <1>1, <1>2, <2>1 DEF LeafAt, Places
    <3>2. t[LeafAt(list, 2 * n - 2 - k)] = LeafHash(list[2 * n - 2 - k + 1])
      BY <3>1 DEF LeavesIn
    <3>3. t[k] = LeafHash(list[2 * n - 1 - k])
      BY <3>1, <3>2
    <3> QED
      BY <2>1, <3>3 DEF Hash
  <2>2. CASE ~(k >= n - 1)
    <3>1. k \in 0..(n - 2)
      BY <1>1, <1>2, <2>2 DEF Places
    <3> QED
      BY <2>2, <3>1 DEF Hash, NodesIn
  <2> QED
    BY <2>1, <2>2
<1>3. [k \in Places(list) |-> t[k]] = [k \in Places(list) |-> Hash(list, t, k)]
  BY <1>2
<1> QED
  BY <1>3 DEF Hashed

\* The journal has the root the recursive definition gives.
LEMMA RootCommitted == Inv /\ phase = "committed" => IsList(values) /\ root = RootOf(values)
<1> SUFFICES ASSUME Inv, phase = "committed" PROVE IsList(values) /\ root = RootOf(values)
  OBVIOUS
<1>1. IsList(values)
  BY DEF Inv, IsList
<1>2. Hashed(values, tree)
  BY <1>1, BuiltIsHeap DEF Inv
<1>3. RootOf(values) = tree[0]
  BY <1>1, <1>2, RootIsTop
<1> QED
  BY <1>1, <1>3 DEF Inv

\* The second loop reads no place that was not written, for any number of leaves,
\* and what is committed is the root of the list as its recursive definition has it.
THEOREM Hashes == Spec => []NothingUnhashed
<1>1. Inv => NothingUnhashed
  <2> SUFFICES ASSUME Inv PROVE NothingUnhashed
    OBVIOUS
  <2>1. ASSUME phase = "nodes", NEW k \in (i + 1)..(TreeLen - 1)
        PROVE  tree[k] # Default
    <3> DEFINE n == Len(values)
    <3>1. n \in Nat \ {0} /\ i \in -1..(n - 2)
      BY <2>1, ListType DEF Inv, IsList
    <3>2. LeavesIn(values, tree, hashLookup, n) /\ NodesIn(values, tree, i + 1)
      BY <2>1 DEF Inv
    <3>3. TreeLen - 1 = 2 * n - 2
      BY <3>1 DEF TreeLen
    <3>4. CASE k <= n - 2
      <4>1. k \in (i + 1)..(n - 2)
        BY <2>1, <3>1, <3>3, <3>4
      <4> QED
        BY <3>2, <4>1, HashesBind DEF NodesIn
    <3>5. CASE k > n - 2
      <4>1. 2 * n - 2 - k \in 0..(n - 1) /\ LeafAt(values, 2 * n - 2 - k) = k
        BY <2>1, <3>1, <3>3, <3>5 DEF LeafAt
      <4>2. tree[LeafAt(values, 2 * n - 2 - k)] = LeafHash(values[2 * n - 2 - k + 1])
        BY <3>2, <4>1 DEF LeavesIn
      <4> QED
        BY <4>1, <4>2, HashesBind
    <3> QED
      BY <2>1, <3>1, <3>3, <3>4, <3>5
  <2>2. ASSUME phase = "committed" PROVE root = Roots[values]
    <3>1. IsList(values) /\ root = RootOf(values)
      BY <2>2, RootCommitted
    <3> QED
      BY <3>1 DEF Roots, IsList
  <2> QED
    BY <2>1, <2>2 DEF NothingUnhashed
<1> QED
  BY <1>1, Invariance, PTL

\* ProofOf lists the siblings above each place of the array.
LEMMA ProofOfLists ==
  Inv /\ phase = "committed" =>
    ProofOf = [k \in 0..(2 * Len(values) - 2) |-> Siblings(tree, ProofOf, k)]
<1> SUFFICES ASSUME Inv, phase = "committed"
             PROVE  ProofOf = [k \in 0..(2 * Len(values) - 2) |-> Siblings(tree, ProofOf, k)]
  OBVIOUS
<1> DEFINE last == TreeLen - 1
<1>1. last = 2 * Len(values) - 2 /\ last \in Nat
  BY ListType DEF Inv, IsList, TreeLen
<1>2. \E f : f = [k \in 0..last |-> Siblings(tree, f, k)]
  <2> HIDE DEF last
  <2> QED
    BY <1>1, SiblingsExist
<1>3. ProofOf = CHOOSE f : f = [k \in 0..last |-> Siblings(tree, f, k)]
  BY Zenon DEF ProofOf, Siblings
<1> HIDE DEF last
<1>4. ProofOf = [k \in 0..last |-> Siblings(tree, ProofOf, k)]
  BY <1>2, <1>3, Zenon
<1> QED
  BY <1>1, <1>4, Zenon

\* Every value of the list has a proof the destination contract accepts, from each
\* of its places and from the one hash_lookup gives: no airdrop is unclaimable.
THEOREM Provable == Spec => []EveryValueProvable
<1>1. Inv => EveryValueProvable
  <2> SUFFICES ASSUME Inv, phase = "committed", NEW k \in 0..(Len(values) - 1)
               PROVE  /\ LeafHash(values[k + 1]) \in DOMAIN hashLookup
                      /\ \A q \in {LeafIndex(k), hashLookup[LeafHash(values[k + 1])]} :
                           ProcessProof(ProofOf[q], LeafHash(values[k + 1])) = root
    BY DEF EveryValueProvable
  <2> DEFINE n == Len(values)  h == LeafHash(values[k + 1])
  <2>1. /\ n \in Nat \ {0} /\ LeavesIn(values, tree, hashLookup, n)
        /\ NodesIn(values, tree, 0) /\ root = tree[0]
    BY ListType DEF Inv, IsList
  <2>2. \A q \in 0..(2 * n - 2) : ProcessProof(ProofOf[q], tree[q]) = tree[0]
    <3>1. \A q \in 0..(n - 2) :
            tree[q] = HashPair(tree[LeftChildIndex(q)], tree[RightChildIndex(q)])
      BY <2>1 DEF NodesIn
    <3>2. ProofOf = [q \in 0..(2 * n - 2) |-> Siblings(tree, ProofOf, q)]
      BY ProofOfLists
    <3> HIDE DEF n
    <3> DEFINE f == ProofOf
    <3>3. f = [q \in 0..(2 * n - 2) |-> Siblings(tree, f, q)]
      BY <3>2
    <3> HIDE DEF f
    <3>4. \A q \in 0..(2 * n - 2) : ProcessProof(f[q], tree[q]) = tree[0]
      BY <2>1, <3>1, <3>3, ProofsClimb
    <3> QED
      BY <3>4 DEF f
  <2>3. \A j \in 0..(n - 1) : LeafAt(values, j) \in 0..(2 * n - 2)
    BY <2>1 DEF LeafAt
  <2>4. ASSUME NEW j \in 0..(n - 1), LeafHash(values[j + 1]) = h
        PROVE  ProcessProof(ProofOf[LeafAt(values, j)], h) = root
    <3>1. tree[LeafAt(values, j)] = h
      BY <2>1, <2>4 DEF LeavesIn
    <3>2. ProcessProof(ProofOf[LeafAt(values, j)], tree[LeafAt(values, j)]) = tree[0]
      BY <2>2, <2>3
    <3> QED
      BY <2>1, <3>1, <3>2, Zenon
  <2>5. h \in DOMAIN hashLookup
    BY <2>1 DEF LeavesIn
  <2>6. PICK j \in 0..(n - 1) : hashLookup[h] = LeafAt(values, j) /\ h = LeafHash(values[j + 1])
    <3> HIDE DEF h
    <3> QED
      BY <2>1, <2>5 DEF LeavesIn
  <2>7. LeafIndex(k) = LeafAt(values, k)
    BY <2>1 DEF LeafIndex, LeafAt, TreeLen
  <2>8. ProcessProof(ProofOf[LeafIndex(k)], h) = root
    BY <2>4, <2>7, Zenon
  <2>9. ProcessProof(ProofOf[hashLookup[h]], h) = root
    BY <2>4, <2>6, Zenon
  <2> HIDE DEF h
  <2>10. \A q \in {LeafIndex(k), hashLookup[h]} : ProcessProof(ProofOf[q], h) = root
    BY <2>8, <2>9, Zenon
  <2> QED
    BY <2>5, <2>10 DEF h
<1> QED
  BY <1>1, Invariance, PTL

\* A value occurs in a list if it does so at least once.
LEMMA OccurringValues ==
  ASSUME NEW A, IsList(A)
  PROVE  ToSet(A) = {v \in Values : Occurrences(A)[v] # 0}
<1>1. Len(A) \in Nat /\ DOMAIN A = 1..Len(A) /\ \A k \in DOMAIN A : A[k] \in Values
  BY ListType
<1>2. ASSUME NEW v \in Values
      PROVE  v \in ToSet(A) <=> Occurrences(A)[v] # 0
  <2> DEFINE places == {k \in DOMAIN A : A[k] = v}
  <2>1. IsFiniteSet(places)
    <3>1. IsFiniteSet(1..Len(A)) /\ places \subseteq 1..Len(A)
      BY <1>1, FS_Interval
    <3> QED
      BY <3>1, FS_Subset
  <2>2. Cardinality(places) = 0 <=> places = {}
    BY <2>1, FS_EmptySet
  <2>3. v \in ToSet(A) <=> places # {}
    BY DEF ToSet
  <2>4. Occurrences(A)[v] = Cardinality(places)
    BY DEF Occurrences
  <2> QED
    BY <2>2, <2>3, <2>4
<1> QED
  BY <1>1, <1>2 DEF ToSet

\* A committed root stands for one set of values: whoever finds another list with it
\* has found the same values.
THEOREM RootFixes == Spec => []RootFixesValues
<1>1. Inv => RootFixesValues
  <2> SUFFICES ASSUME Inv, phase = "committed", NEW list \in DOMAIN Roots, Roots[list] = root
               PROVE  ToSet(list) = ToSet(values)
    BY DEF RootFixesValues
  <2>1. IsList(list) /\ RootOf(list) = root
    BY DEF Roots, IsList
  <2>2. IsList(values) /\ RootOf(values) = root
    BY RootCommitted
  <2>3. Occurrences(list) = Occurrences(values)
    BY <2>1, <2>2, RootBinds
  <2>4. /\ ToSet(list) = {v \in Values : Occurrences(list)[v] # 0}
        /\ ToSet(values) = {v \in Values : Occurrences(values)[v] # 0}
    BY <2>1, <2>2, OccurringValues
  <2> QED
    BY <2>3, <2>4
<1> QED
  BY <1>1, Invariance, PTL
=============================================================================
