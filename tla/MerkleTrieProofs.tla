-------------------------- MODULE MerkleTrieProofs --------------------------
(***************************************************************************)
(* Proofs about the sparse Merkle Patricia trie, for keys of any length    *)
(* and any map: whichever nodes are read and in whatever order, the trie   *)
(* built from them keeps the root, answers for the keys that were asked    *)
(* for, and is wrong for none.                                             *)
(***************************************************************************)
EXTENDS MerkleTrie, NaturalsInduction, WellFoundedInduction, SequenceTheorems, TLAPS

-----------------------------------------------------------------------------
(* Induction *)

\* Induction over the naturals, for a set: a least number left out would have a
\* predecessor that is in.
LEMMA NatSetInduction ==
  ASSUME NEW S, 0 \in S, \A n \in Nat : n \in S => n + 1 \in S
  PROVE  \A n \in Nat : n \in S
<1> SUFFICES ASSUME Nat \ S # {} PROVE FALSE
  OBVIOUS
<1>1. PICK n \in Nat \ S : \A m \in Nat \ S : ~(<<m, n>> \in OpToRel(<, Nat))
  BY NatLessThanWellFounded, WFMin
<1>2. n - 1 \in Nat /\ n - 1 < n /\ n - 1 + 1 = n
  OBVIOUS
<1>3. <<n - 1, n>> \in OpToRel(<, Nat)
  BY <1>2 DEF OpToRel
<1>4. n - 1 \in S
  BY <1>1, <1>2, <1>3
<1> QED
  BY <1>2, <1>4

-----------------------------------------------------------------------------
(* Items and nodes by height *)

\* What the items, and the nodes, of a height are built from.
ItemsUnder(e, h) == IF h = 0 THEN {} ELSE Referenced(e[h - 1])
NodesUnder(f, h) == IF h = 0 THEN {} ELSE f[h - 1]

\* The items can be built height by height.
LEMMA EncodedExists ==
  \E e : e = [h \in 0..KeyLength |-> ItemsOver(ItemsUnder(e, h))]
<1> DEFINE P == 0..KeyLength
           Good(e, q) == \A h \in P : h < q => e[h] = ItemsOver(ItemsUnder(e, h))
           S == {q \in Nat : \E e : e = [h \in P |-> e[h]] /\ Good(e, q)}
<1>1. 0 \in S
  <2> DEFINE e == [h \in P |-> {}]
  <2>1. Good(e, 0)
    OBVIOUS
  <2>2. e = [h \in P |-> e[h]]
    OBVIOUS
  <2> HIDE DEF e, Good, P
  <2> QED
    BY <2>1, <2>2
<1>2. \A q \in Nat : q \in S => q + 1 \in S
  <2> SUFFICES ASSUME NEW q \in Nat, q \in S PROVE q + 1 \in S
    OBVIOUS
  <2>1. PICK e : e = [h \in P |-> e[h]] /\ Good(e, q)
    BY DEF S
  <2> DEFINE g == [h \in P |-> ItemsOver(ItemsUnder(e, h))]
  <2>2. ASSUME NEW h \in P, h < q + 1 PROVE g[h] = ItemsOver(ItemsUnder(g, h))
    <3>1. g[h] = ItemsOver(ItemsUnder(e, h))
      OBVIOUS
    <3>2. CASE h = 0
      BY <3>1, <3>2 DEF ItemsUnder
    <3>3. CASE h # 0
      <4>1. h - 1 \in P /\ h - 1 < q
        BY <2>2, <3>3, TrieAssumption
      <4>2. e[h - 1] = ItemsOver(ItemsUnder(e, h - 1)) /\ g[h - 1] = e[h - 1]
        BY <2>1, <4>1
      <4> HIDE DEF g
      <4> QED
        BY <3>1, <3>3, <4>2 DEF ItemsUnder
    <3> QED
      BY <3>2, <3>3
  <2>3. g = [h \in P |-> g[h]]
    OBVIOUS
  <2> HIDE DEF g, P
  <2> QED
    BY <2>2, <2>3
<1>3. KeyLength + 1 \in S
  <2> HIDE DEF S
  <2> QED
    BY <1>1, <1>2, NatSetInduction, TrieAssumption
<1>4. PICK e : e = [h \in P |-> e[h]] /\ Good(e, KeyLength + 1)
  BY <1>3
<1>5. \A h \in P : e[h] = ItemsOver(ItemsUnder(e, h))
  BY <1>4, TrieAssumption
<1> HIDE DEF P
<1>6. e = [h \in P |-> ItemsOver(ItemsUnder(e, h))]
  BY <1>4, <1>5
<1> QED
  BY <1>6 DEF P

\* So these are the items of a height.
LEMMA EncodedDef ==
  \A h \in 0..KeyLength : Encoded[h] = ItemsOver(ItemsUnder(Encoded, h))
<1>1. Encoded = CHOOSE e : e = [h \in 0..KeyLength |-> ItemsOver(ItemsUnder(e, h))]
  BY Zenon DEF Encoded, ItemsUnder
<1>2. Encoded = [h \in 0..KeyLength |-> ItemsOver(ItemsUnder(Encoded, h))]
  BY <1>1, EncodedExists, Zenon
<1> QED
  BY <1>2, Zenon

\* The nodes too.
LEMMA NodesExist ==
  \E f : f = [h \in 0..KeyLength |-> NodesOver(NodesUnder(f, h), Encoded[h])]
<1> DEFINE P == 0..KeyLength
           Good(f, q) == \A h \in P : h < q => f[h] = NodesOver(NodesUnder(f, h), Encoded[h])
           S == {q \in Nat : \E f : f = [h \in P |-> f[h]] /\ Good(f, q)}
<1>1. 0 \in S
  <2> DEFINE f == [h \in P |-> {}]
  <2>1. Good(f, 0)
    OBVIOUS
  <2>2. f = [h \in P |-> f[h]]
    OBVIOUS
  <2> HIDE DEF f, Good, P
  <2> QED
    BY <2>1, <2>2
<1>2. \A q \in Nat : q \in S => q + 1 \in S
  <2> SUFFICES ASSUME NEW q \in Nat, q \in S PROVE q + 1 \in S
    OBVIOUS
  <2>1. PICK f : f = [h \in P |-> f[h]] /\ Good(f, q)
    BY DEF S
  <2> DEFINE g == [h \in P |-> NodesOver(NodesUnder(f, h), Encoded[h])]
  <2>2. ASSUME NEW h \in P, h < q + 1 PROVE g[h] = NodesOver(NodesUnder(g, h), Encoded[h])
    <3>1. g[h] = NodesOver(NodesUnder(f, h), Encoded[h])
      OBVIOUS
    <3>2. CASE h = 0
      BY <3>1, <3>2 DEF NodesUnder
    <3>3. CASE h # 0
      <4>1. h - 1 \in P /\ h - 1 < q
        BY <2>2, <3>3, TrieAssumption
      <4>2. f[h - 1] = NodesOver(NodesUnder(f, h - 1), Encoded[h - 1]) /\ g[h - 1] = f[h - 1]
        BY <2>1, <4>1
      <4> HIDE DEF g
      <4> QED
        BY <3>1, <3>3, <4>2 DEF NodesUnder
    <3> QED
      BY <3>2, <3>3
  <2>3. g = [h \in P |-> g[h]]
    OBVIOUS
  <2> HIDE DEF g, P
  <2> QED
    BY <2>2, <2>3
<1>3. KeyLength + 1 \in S
  <2> HIDE DEF S
  <2> QED
    BY <1>1, <1>2, NatSetInduction, TrieAssumption
<1>4. PICK f : f = [h \in P |-> f[h]] /\ Good(f, KeyLength + 1)
  BY <1>3
<1>5. \A h \in P : f[h] = NodesOver(NodesUnder(f, h), Encoded[h])
  BY <1>4, TrieAssumption
<1> HIDE DEF P
<1>6. f = [h \in P |-> NodesOver(NodesUnder(f, h), Encoded[h])]
  BY <1>4, <1>5
<1> QED
  BY <1>6 DEF P

\* So these are the nodes of a height.
LEMMA NodesDef ==
  \A h \in 0..KeyLength : Nodes[h] = NodesOver(NodesUnder(Nodes, h), Encoded[h])
<1>1. Nodes = CHOOSE f : f = [h \in 0..KeyLength |-> NodesOver(NodesUnder(f, h), Encoded[h])]
  BY Zenon DEF Nodes, NodesUnder
<1>2. Nodes = [h \in 0..KeyLength |-> NodesOver(NodesUnder(Nodes, h), Encoded[h])]
  BY <1>1, NodesExist, Zenon
<1> QED
  BY <1>2, Zenon
\* More references make more items, and more children more nodes.
LEMMA OverMonotonic ==
  /\ \A a, b : a \subseteq b => ItemsOver(a) \subseteq ItemsOver(b)
  /\ \A a, b : a \subseteq b => Referenced(a) \subseteq Referenced(b)
  /\ \A a, b, i, j : a \subseteq b /\ i \subseteq j => NodesOver(a, i) \subseteq NodesOver(b, j)
<1>1. ASSUME NEW a, NEW b, a \subseteq b PROVE [Nibbles -> a] \subseteq [Nibbles -> b]
  BY <1>1
<1>2. ASSUME NEW a, NEW b, a \subseteq b PROVE ItemsOver(a) \subseteq ItemsOver(b)
  BY <1>1, <1>2 DEF ItemsOver
<1>3. ASSUME NEW a, NEW b, a \subseteq b PROVE Referenced(a) \subseteq Referenced(b)
  BY <1>3 DEF Referenced
<1>4. ASSUME NEW a, NEW b, NEW i, NEW j, a \subseteq b, i \subseteq j
      PROVE  NodesOver(a, i) \subseteq NodesOver(b, j)
  BY <1>1, <1>4 DEF NodesOver
<1> QED
  BY <1>2, <1>3, <1>4

\* A height has all that a lower one has.
LEMMA HeightMonotonic ==
  \A h \in 0..KeyLength : \A j \in 0..h :
    Encoded[j] \subseteq Encoded[h] /\ Nodes[j] \subseteq Nodes[h]
<1> DEFINE Onward(h) == h < KeyLength =>
             Encoded[h] \subseteq Encoded[h + 1] /\ Nodes[h] \subseteq Nodes[h + 1]
           S == {h \in Nat : Onward(h)}
<1>1. 0 \in S
  <2> SUFFICES ASSUME 0 < KeyLength
               PROVE  Encoded[0] \subseteq Encoded[1] /\ Nodes[0] \subseteq Nodes[1]
    OBVIOUS
  <2>1. 0 \in 0..KeyLength /\ 1 \in 0..KeyLength
    BY TrieAssumption
  <2>2. Encoded[0] = ItemsOver({}) /\ Nodes[0] = NodesOver({}, Encoded[0])
    BY <2>1, EncodedDef, NodesDef DEF ItemsUnder, NodesUnder
  <2>3. Encoded[1] = ItemsOver(ItemsUnder(Encoded, 1))
        /\ Nodes[1] = NodesOver(NodesUnder(Nodes, 1), Encoded[1])
    BY <2>1, EncodedDef, NodesDef
  <2>4. Encoded[0] \subseteq Encoded[1]
    BY <2>2, <2>3, OverMonotonic
  <2> QED
    BY <2>2, <2>3, <2>4, OverMonotonic
<1>2. \A h \in Nat : h \in S => h + 1 \in S
  <2> SUFFICES ASSUME NEW h \in Nat, h \in S, h + 1 < KeyLength
               PROVE  /\ Encoded[h + 1] \subseteq Encoded[h + 2]
                      /\ Nodes[h + 1] \subseteq Nodes[h + 2]
    OBVIOUS
  <2>1. h + 1 \in 0..KeyLength /\ h + 2 \in 0..KeyLength /\ h + 1 # 0 /\ h + 2 # 0
        /\ (h + 1) - 1 = h /\ (h + 2) - 1 = h + 1 /\ h < KeyLength
    BY TrieAssumption
  <2>2. Encoded[h] \subseteq Encoded[h + 1] /\ Nodes[h] \subseteq Nodes[h + 1]
    BY <2>1
  <2>3. Encoded[h + 1] = ItemsOver(Referenced(Encoded[h]))
        /\ Nodes[h + 1] = NodesOver(Nodes[h], Encoded[h + 1])
    BY <2>1, EncodedDef, NodesDef DEF ItemsUnder, NodesUnder
  <2>4. Encoded[h + 2] = ItemsOver(Referenced(Encoded[h + 1]))
        /\ Nodes[h + 2] = NodesOver(Nodes[h + 1], Encoded[h + 2])
    BY <2>1, EncodedDef, NodesDef DEF ItemsUnder, NodesUnder
  <2>5. Encoded[h + 1] \subseteq Encoded[h + 2]
    BY <2>2, <2>3, <2>4, OverMonotonic
  <2> QED
    BY <2>2, <2>3, <2>4, <2>5, OverMonotonic
<1>3. \A h \in Nat : h \in S
  <2> HIDE DEF S
  <2> QED
    BY <1>1, <1>2, NatSetInduction
<1> DEFINE D == {d \in Nat : \A j \in Nat : j + d <= KeyLength =>
                    Encoded[j] \subseteq Encoded[j + d] /\ Nodes[j] \subseteq Nodes[j + d]}
<1>4. 0 \in D
  OBVIOUS
<1>5. \A d \in Nat : d \in D => d + 1 \in D
  <2> SUFFICES ASSUME NEW d \in Nat, d \in D PROVE d + 1 \in D
    OBVIOUS
  <2>1. ASSUME NEW j \in Nat, j + (d + 1) <= KeyLength
        PROVE  /\ Encoded[j] \subseteq Encoded[j + (d + 1)]
               /\ Nodes[j] \subseteq Nodes[j + (d + 1)]
    <3>1. j + d \in Nat /\ j + d < KeyLength /\ (j + d) + 1 = j + (d + 1) /\ j + d <= KeyLength
      BY <2>1, TrieAssumption
    <3>2. Encoded[j] \subseteq Encoded[j + d] /\ Nodes[j] \subseteq Nodes[j + d]
      BY <3>1
    <3>3. Onward(j + d)
      BY <1>3, <3>1
    <3> QED
      BY <3>1, <3>2, <3>3
  <2> QED
    BY <2>1
<1>6. \A d \in Nat : d \in D
  <2> HIDE DEF D
  <2> QED
    BY <1>4, <1>5, NatSetInduction
<1> SUFFICES ASSUME NEW h \in 0..KeyLength, NEW j \in 0..h
             PROVE  Encoded[j] \subseteq Encoded[h] /\ Nodes[j] \subseteq Nodes[h]
  OBVIOUS
<1>7. h - j \in Nat /\ j \in Nat /\ j + (h - j) = h /\ h <= KeyLength
  BY TrieAssumption
<1>8. j + (h - j) <= KeyLength
  BY <1>7
<1>9. Encoded[j] \subseteq Encoded[j + (h - j)] /\ Nodes[j] \subseteq Nodes[j + (h - j)]
  BY <1>6, <1>7, <1>8
<1> QED
  BY <1>7, <1>9

\* What an item of some height can be.
LEMMA ItemCases ==
  ASSUME NEW h \in 0..KeyLength, NEW item
  PROVE  item \in Encoded[h] <=>
           \/ item = EmptyString
           \/ \E path \in EncodedPaths(TRUE), v \in Values : item = Pair(path, Value(v))
           \/ \E path \in EncodedPaths(FALSE), i \in ItemsUnder(Encoded, h) : item = Pair(path, i)
           \/ \E items \in [Nibbles -> ItemsUnder(Encoded, h)] : item = List(items)
<1>1. Encoded[h] = ItemsOver(ItemsUnder(Encoded, h))
  BY EncodedDef
<1> QED
  BY <1>1 DEF ItemsOver, EmptyString, Pair, Value, List

\* What a node of some height can be.
LEMMA NodeCases ==
  ASSUME NEW h \in 0..KeyLength, NEW node
  PROVE  node \in Nodes[h] <=>
           \/ node = Null
           \/ \E path \in Seq(Nibbles), v \in Values : node = Leaf(path, v)
           \/ \E path \in Seq(Nibbles), c \in NodesUnder(Nodes, h) : node = Extension(path, c)
           \/ \E cs \in [Nibbles -> NodesUnder(Nodes, h)] : node = Branch(cs)
           \/ \E i \in Encoded[h] : node = Digest(Hash(i))
<1>1. Nodes[h] = NodesOver(NodesUnder(Nodes, h), Encoded[h])
  BY NodesDef
<1> QED
  BY <1>1 DEF NodesOver, Null, Leaf, Extension, Branch, Digest, Hash
-----------------------------------------------------------------------------
(* Reading an item *)

\* Node's Decodable, from what a function says of the items inside.
DecodeOf(f, item) ==
  CASE item.kind = "pair" /\ ~IsLeafPath(item.path) ->
         Extension(DecodePath(item.path), f[item.item])
    [] item.kind = "list" -> Branch([n \in Nibbles |-> f[item.items[n]]])
    [] item.kind = "pair" /\ IsLeafPath(item.path) ->
         Leaf(DecodePath(item.path), item.item.value)
    [] item.kind = "hash"  -> Digest(item)
    [] item.kind = "empty" -> Null

\* It depends on the items inside only.
LEMMA DecodeInside ==
  ASSUME NEW h \in 0..KeyLength, NEW f, NEW g,
         \A i \in ItemsUnder(Encoded, h) : f[i] = g[i],
         NEW item \in Referenced(Encoded[h])
  PROVE  DecodeOf(f, item) = DecodeOf(g, item)
<1>1. CASE item.kind = "empty" \/ item.kind = "hash"
  BY <1>1 DEF DecodeOf
<1>2. ASSUME NEW path \in EncodedPaths(TRUE), NEW v \in Values, item = Pair(path, Value(v))
      PROVE  DecodeOf(f, item) = DecodeOf(g, item)
  <2>1. item.kind = "pair" /\ item.path = path /\ IsLeafPath(path)
    BY <1>2 DEF Pair, EncodedPaths
  <2> QED
    BY <2>1 DEF DecodeOf
<1>3. ASSUME NEW path \in EncodedPaths(FALSE), NEW i \in ItemsUnder(Encoded, h),
             item = Pair(path, i)
      PROVE  DecodeOf(f, item) = DecodeOf(g, item)
  <2>1. item.kind = "pair" /\ item.item = i /\ f[i] = g[i]
    BY <1>3 DEF Pair
  <2> QED
    BY <2>1 DEF DecodeOf
<1>4. ASSUME NEW items \in [Nibbles -> ItemsUnder(Encoded, h)], item = List(items)
      PROVE  DecodeOf(f, item) = DecodeOf(g, item)
  <2>1. item.kind = "list" /\ item.items = items /\ \A n \in Nibbles : f[items[n]] = g[items[n]]
    BY <1>4 DEF List
  <2> QED
    BY <2>1 DEF DecodeOf
<1>5. item \in Encoded[h] \/ item.kind = "hash"
  BY DEF Referenced
<1>6. ASSUME item = EmptyString PROVE DecodeOf(f, item) = DecodeOf(g, item)
  BY <1>1, <1>6 DEF EmptyString
<1>7. CASE item \in Encoded[h]
  <2>1. \/ item = EmptyString
        \/ \E path \in EncodedPaths(TRUE), v \in Values : item = Pair(path, Value(v))
        \/ \E path \in EncodedPaths(FALSE), i \in ItemsUnder(Encoded, h) : item = Pair(path, i)
        \/ \E items \in [Nibbles -> ItemsUnder(Encoded, h)] : item = List(items)
    BY <1>7, ItemCases
  <2> QED
    BY <1>2, <1>3, <1>4, <1>6, <2>1
<1> QED
  BY <1>1, <1>5, <1>7

\* The items inside those of a height are items, of a lower one.
LEMMA UnderIsItem ==
  ASSUME NEW h \in 0..KeyLength, NEW i \in ItemsUnder(Encoded, h)
  PROVE  h > 0 /\ h - 1 \in 0..KeyLength /\ i \in Referenced(Encoded[h - 1]) /\ i \in Item
<1>1. h # 0 /\ i \in Referenced(Encoded[h - 1])
  BY DEF ItemsUnder
<1>2. h - 1 \in 0..KeyLength /\ KeyLength \in 0..KeyLength
  BY <1>1, TrieAssumption
<1>3. Encoded[h - 1] \subseteq Encoded[KeyLength]
  BY <1>2, HeightMonotonic
<1> QED
  BY <1>1, <1>2, <1>3, OverMonotonic DEF Item

\* Items can be read from the leaves up.
LEMMA DecodeExists ==
  \E f : f = [item \in Item |-> DecodeOf(f, item)]
<1> DEFINE Good(f, q) == \A h \in 0..KeyLength : h < q =>
                           \A item \in Referenced(Encoded[h]) : f[item] = DecodeOf(f, item)
           S == {q \in Nat : \E f : f = [item \in Item |-> f[item]] /\ Good(f, q)}
<1>0. /\ \A h \in 0..KeyLength : Referenced(Encoded[h]) \subseteq Item
      /\ Item = Referenced(Encoded[KeyLength]) /\ KeyLength \in 0..KeyLength
  BY HeightMonotonic, OverMonotonic, TrieAssumption DEF Item
<1>1. 0 \in S
  <2> DEFINE f == [item \in Item |-> {}]
  <2>1. Good(f, 0)
    OBVIOUS
  <2>2. f = [item \in Item |-> f[item]]
    OBVIOUS
  <2> HIDE DEF f, Good
  <2> QED
    BY <2>1, <2>2
<1>2. \A q \in Nat : q \in S => q + 1 \in S
  <2> SUFFICES ASSUME NEW q \in Nat, q \in S PROVE q + 1 \in S
    OBVIOUS
  <2>1. PICK f : f = [item \in Item |-> f[item]] /\ Good(f, q)
    BY DEF S
  <2> DEFINE g == [item \in Item |-> DecodeOf(f, item)]
  <2>2. ASSUME NEW h \in 0..KeyLength, h < q + 1, NEW item \in Referenced(Encoded[h])
        PROVE  g[item] = DecodeOf(g, item)
    <3>1. g[item] = DecodeOf(f, item)
      BY <1>0
    <3>2. ASSUME NEW i \in ItemsUnder(Encoded, h) PROVE f[i] = g[i]
      <4>1. h - 1 \in 0..KeyLength /\ h - 1 < q /\ i \in Referenced(Encoded[h - 1]) /\ i \in Item
        BY <2>2, UnderIsItem, TrieAssumption
      <4>2. f[i] = DecodeOf(f, i)
        BY <2>1, <4>1
      <4> QED
        BY <4>1, <4>2
    <3> HIDE DEF g
    <3> QED
      BY <3>1, <3>2, DecodeInside
  <2>3. g = [item \in Item |-> g[item]]
    OBVIOUS
  <2>4. Good(g, q + 1)
    <3> HIDE DEF g
    <3> QED
      BY <2>2
  <2> HIDE DEF g, Good
  <2> QED
    BY <2>3, <2>4
<1>3. KeyLength + 1 \in S
  <2> HIDE DEF S
  <2> QED
    BY <1>1, <1>2, NatSetInduction, TrieAssumption
<1>4. PICK f : f = [item \in Item |-> f[item]] /\ Good(f, KeyLength + 1)
  BY <1>3
<1>5. \A item \in Item : f[item] = DecodeOf(f, item)
  BY <1>0, <1>4, TrieAssumption
<1>6. f = [item \in Item |-> DecodeOf(f, item)]
  BY <1>4, <1>5
<1> QED
  BY <1>6

\* So this is what an item is read as.
LEMMA DecodeDef ==
  \A item \in Item : Decode[item] = DecodeOf(Decode, item)
<1>1. Decode = CHOOSE f : f = [item \in Item |-> DecodeOf(f, item)]
  BY Zenon DEF Decode, DecodeOf
<1>2. Decode = [item \in Item |-> DecodeOf(Decode, item)]
  BY <1>1, DecodeExists, Zenon
<1> QED
  BY <1>2, Zenon

\* An item is read as a node of its height that is no digest, a hash as a digest.
LEMMA DecodeType ==
  \A h \in 0..KeyLength : \A i \in Encoded[h] :
    /\ Decode[i] \in Nodes[h] /\ Decode[i].kind # "digest"
    /\ Decode[Hash(i)] = Digest(Hash(i)) /\ Decode[Hash(i)] \in Nodes[h]
<1> DEFINE Reads(h) == \A i \in Encoded[h] :
             /\ Decode[i] \in Nodes[h] /\ Decode[i].kind # "digest"
             /\ Decode[Hash(i)] = Digest(Hash(i)) /\ Decode[Hash(i)] \in Nodes[h]
           S == {h \in Nat : h <= KeyLength => Reads(h)}
<1>1. ASSUME NEW h \in 0..KeyLength, h > 0 => Reads(h - 1) PROVE Reads(h)
  <2> SUFFICES ASSUME NEW i \in Encoded[h]
               PROVE  /\ Decode[i] \in Nodes[h] /\ Decode[i].kind # "digest"
                      /\ Decode[Hash(i)] = Digest(Hash(i)) /\ Decode[Hash(i)] \in Nodes[h]
    OBVIOUS
  <2>1. i \in Item /\ Hash(i) \in Item /\ Hash(i).kind = "hash"
    <3>1. Encoded[h] \subseteq Encoded[KeyLength]
      BY HeightMonotonic, TrieAssumption
    <3> QED
      BY <3>1 DEF Item, Referenced, Hash
  <2>2. Decode[Hash(i)] = Digest(Hash(i))
    BY <2>1, DecodeDef DEF DecodeOf
  <2>3. Decode[Hash(i)] \in Nodes[h]
    BY <2>2, NodeCases
  <2>4. Decode[i] = DecodeOf(Decode, i)
    BY <2>1, DecodeDef
  <2>5. \A c \in ItemsUnder(Encoded, h) : Decode[c] \in NodesUnder(Nodes, h)
    <3>1. ASSUME NEW c \in ItemsUnder(Encoded, h) PROVE Decode[c] \in NodesUnder(Nodes, h)
      <4>1. h > 0 /\ c \in Referenced(Encoded[h - 1])
        BY UnderIsItem
      <4>2. c \in Encoded[h - 1] \/ \E j \in Encoded[h - 1] : c = Hash(j)
        BY <4>1 DEF Referenced, Hash
      <4>3. Decode[c] \in Nodes[h - 1]
        BY <1>1, <4>1, <4>2
      <4> QED
        BY <4>1, <4>3 DEF NodesUnder
    <3> QED
      BY <3>1
  <2>6. ASSUME i = EmptyString PROVE Decode[i] \in Nodes[h] /\ Decode[i].kind # "digest"
    <3>1. Decode[i] = Null
      BY <2>4, <2>6 DEF DecodeOf, EmptyString
    <3> QED
      BY <3>1, NodeCases DEF Null
  <2>7. ASSUME NEW path \in EncodedPaths(TRUE), NEW v \in Values, i = Pair(path, Value(v))
        PROVE  Decode[i] \in Nodes[h] /\ Decode[i].kind # "digest"
    <3>1. IsLeafPath(path) /\ DecodePath(path) \in Seq(Nibbles)
      BY DEF EncodedPaths
    <3>2. Decode[i] = Leaf(DecodePath(path), v)
      BY <2>4, <2>7, <3>1 DEF DecodeOf, Pair, Value
    <3> QED
      BY <3>1, <3>2, NodeCases DEF Leaf
  <2>8. ASSUME NEW path \in EncodedPaths(FALSE), NEW c \in ItemsUnder(Encoded, h),
               i = Pair(path, c)
        PROVE  Decode[i] \in Nodes[h] /\ Decode[i].kind # "digest"
    <3>1. ~IsLeafPath(path) /\ DecodePath(path) \in Seq(Nibbles)
      BY DEF EncodedPaths
    <3>2. Decode[i] = Extension(DecodePath(path), Decode[c])
      BY <2>4, <2>8, <3>1 DEF DecodeOf, Pair
    <3> QED
      BY <2>5, <3>1, <3>2, NodeCases DEF Extension
  <2>9. ASSUME NEW items \in [Nibbles -> ItemsUnder(Encoded, h)], i = List(items)
        PROVE  Decode[i] \in Nodes[h] /\ Decode[i].kind # "digest"
    <3>1. Decode[i] = Branch([n \in Nibbles |-> Decode[items[n]]])
      BY <2>4, <2>9 DEF DecodeOf, List
    <3>2. [n \in Nibbles |-> Decode[items[n]]] \in [Nibbles -> NodesUnder(Nodes, h)]
      BY <2>5
    <3> QED
      BY <3>1, <3>2, NodeCases DEF Branch
  <2>10. \/ i = EmptyString
         \/ \E path \in EncodedPaths(TRUE), v \in Values : i = Pair(path, Value(v))
         \/ \E path \in EncodedPaths(FALSE), c \in ItemsUnder(Encoded, h) : i = Pair(path, c)
         \/ \E items \in [Nibbles -> ItemsUnder(Encoded, h)] : i = List(items)
    BY ItemCases
  <2> QED
    BY <2>2, <2>3, <2>6, <2>7, <2>8, <2>9, <2>10
<1>2. 0 \in S
  BY <1>1, TrieAssumption
<1>3. \A h \in Nat : h \in S => h + 1 \in S
  <2> SUFFICES ASSUME NEW h \in Nat, h \in S, h + 1 <= KeyLength PROVE Reads(h + 1)
    OBVIOUS
  <2>1. h + 1 \in 0..KeyLength /\ (h + 1) - 1 = h /\ Reads(h)
    BY TrieAssumption
  <2> HIDE DEF Reads
  <2> QED
    BY <1>1, <2>1
<1>4. \A h \in Nat : h \in S
  <2> HIDE DEF S
  <2> QED
    BY <1>2, <1>3, NatSetInduction
<1> QED
  BY <1>4, TrieAssumption

-----------------------------------------------------------------------------
(* The functions on nodes *)

\* What RlpEncoded, Get, PathNodes and resolve_trie say of a node, from what a
\* function says of its children.
RlpOf(f, node) ==
  CASE node.kind = "null"      -> EmptyString
    [] node.kind = "leaf"      -> Pair(EncodePath(node.path, TRUE), Value(node.value))
    [] node.kind = "extension" -> Pair(EncodePath(node.path, FALSE),
                                       Ref(node.child, f[node.child]))
    [] node.kind = "branch"    -> List([n \in Nibbles |->
                                          Ref(node.children[n], f[node.children[n]])])
    [] node.kind = "digest"    -> node.hash

GetOf(f, node) ==
  [key \in Seq(Nibbles) |->
     CASE node.kind = "extension" /\ IsPrefix(node.path, key) ->
            f[node.child][Rest(key, Len(node.path))]
       [] node.kind = "branch" /\ key # <<>> -> f[node.children[key[1]]][Rest(key, 1)]
       [] node.kind = "leaf" /\ node.path = key -> node.value
       [] node.kind = "digest" -> Unresolved
       [] OTHER -> NotFound]

PathOf(f, node) ==
  [key \in Seq(Nibbles) |->
     (IF Length[RlpEncoded[node]] >= 32 THEN {RlpEncoded[node]} ELSE {})
     \cup CASE node.kind = "extension" /\ IsPrefix(node.path, key) ->
                 f[node.child][Rest(key, Len(node.path))]
            [] node.kind = "branch" /\ key # <<>> ->
                 f[node.children[key[1]]][Rest(key, 1)]
            [] OTHER -> {}]

Entries(t, hash) == {e \in t : e[1] = hash}
ResolveOf(t, f, node) ==
  CASE node.kind = "extension" -> Extension(node.path, f[node.child])
    [] node.kind = "branch" -> Branch([n \in Nibbles |-> f[node.children[n]]])
    [] node.kind = "digest" /\ Entries(t, node.hash) # {} ->
         f[(CHOOSE e \in Entries(t, node.hash) : TRUE)[2]]
    [] OTHER -> node

\* The node a digest stands for, if it is known.
Found(t, node) ==
  IF node.kind = "digest" /\ Entries(t, node.hash) # {}
  THEN (CHOOSE e \in Entries(t, node.hash) : TRUE)[2] ELSE node

\* One of them, for the proofs they share.
Of(name, t, f, node) ==
  CASE name = "rlp"  -> RlpOf(f, node)
    [] name = "get"  -> GetOf(f, node)
    [] name = "path" -> PathOf(f, node)
    [] name = "resolve" -> ResolveOf(t, f, Found(t, node))

\* What nodes_by_hash holds: items under their hashes.
Table(t) == \A e \in t : \E i : e = <<Hash(i), Decode[i]>>

\* A digest is resolved to a node of its height that is no digest.
LEMMA FoundType ==
  ASSUME NEW h \in 0..KeyLength, NEW node \in Nodes[h], NEW t, Table(t)
  PROVE  /\ Found(t, node) \in Nodes[h]
         /\ Found(t, node).kind = "digest" => Entries(t, Found(t, node).hash) = {}
<1>1. CASE node.kind = "digest" /\ Entries(t, node.hash) # {}
  <2>1. PICK i \in Encoded[h] : node = Digest(Hash(i))
    BY <1>1, NodeCases DEF Null, Leaf, Extension, Branch
  <2> DEFINE e == CHOOSE e \in Entries(t, node.hash) : TRUE
  <2>2. e \in t /\ e[1] = Hash(i)
    BY <1>1, <2>1 DEF Entries, Digest
  <2> HIDE DEF e
  <2>3. PICK j : e = <<Hash(j), Decode[j]>>
    BY <2>2 DEF Table
  <2>4. j = i
    BY <2>2, <2>3 DEF Hash
  <2>5. Found(t, node) = e[2]
    BY <1>1, Zenon DEF Found, e
  <2>6. e[2] = Decode[i]
    BY <2>3, <2>4
  <2> QED
    BY <2>1, <2>5, <2>6, DecodeType
<1>2. CASE ~(node.kind = "digest" /\ Entries(t, node.hash) # {})
  BY <1>2 DEF Found
<1> QED
  BY <1>1, <1>2

\* They depend on the children only.
LEMMA OfChildren ==
  ASSUME NEW h \in 0..KeyLength, NEW node \in Nodes[h], NEW f, NEW g,
         \A c \in NodesUnder(Nodes, h) : f[c] = g[c], NEW t
  PROVE  /\ RlpOf(f, node) = RlpOf(g, node)
         /\ GetOf(f, node) = GetOf(g, node)
         /\ PathOf(f, node) = PathOf(g, node)
         /\ (node.kind = "digest" => Entries(t, node.hash) = {})
               => ResolveOf(t, f, node) = ResolveOf(t, g, node)
<1>1. ASSUME node.kind = "null" \/ node.kind = "leaf" \/ node.kind = "digest"
      PROVE  /\ RlpOf(f, node) = RlpOf(g, node)
             /\ GetOf(f, node) = GetOf(g, node)
             /\ PathOf(f, node) = PathOf(g, node)
             /\ (node.kind = "digest" => Entries(t, node.hash) = {})
                   => ResolveOf(t, f, node) = ResolveOf(t, g, node)
  BY <1>1 DEF RlpOf, GetOf, PathOf, ResolveOf
<1>2. ASSUME NEW path \in Seq(Nibbles), NEW c \in NodesUnder(Nodes, h),
             node = Extension(path, c)
      PROVE  /\ RlpOf(f, node) = RlpOf(g, node)
             /\ GetOf(f, node) = GetOf(g, node)
             /\ PathOf(f, node) = PathOf(g, node)
             /\ ResolveOf(t, f, node) = ResolveOf(t, g, node)
  <2>1. node.kind = "extension" /\ node.child = c /\ f[c] = g[c]
    BY <1>2 DEF Extension
  <2> QED
    BY <2>1 DEF RlpOf, GetOf, PathOf, ResolveOf
<1>3. ASSUME NEW cs \in [Nibbles -> NodesUnder(Nodes, h)], node = Branch(cs)
      PROVE  /\ RlpOf(f, node) = RlpOf(g, node)
             /\ GetOf(f, node) = GetOf(g, node)
             /\ PathOf(f, node) = PathOf(g, node)
             /\ ResolveOf(t, f, node) = ResolveOf(t, g, node)
  <2>1. node.kind = "branch" /\ node.children = cs /\ \A n \in Nibbles : f[cs[n]] = g[cs[n]]
    BY <1>3 DEF Branch
  <2>2. \A key \in Seq(Nibbles) : key # <<>> => key[1] \in Nibbles
    BY EmptySeq, ElementOfSeq
  <2>3. RlpOf(f, node) = RlpOf(g, node)
    BY <2>1 DEF RlpOf
  <2>4. GetOf(f, node) = GetOf(g, node)
    BY <2>1, <2>2 DEF GetOf
  <2>5. PathOf(f, node) = PathOf(g, node)
    BY <2>1, <2>2 DEF PathOf
  <2>6. ResolveOf(t, f, node) = ResolveOf(t, g, node)
    BY <2>1 DEF ResolveOf
  <2> QED
    BY <2>3, <2>4, <2>5, <2>6
<1>4. \/ node.kind = "null" \/ node.kind = "leaf" \/ node.kind = "digest"
      \/ \E path \in Seq(Nibbles), c \in NodesUnder(Nodes, h) : node = Extension(path, c)
      \/ \E cs \in [Nibbles -> NodesUnder(Nodes, h)] : node = Branch(cs)
  BY NodeCases DEF Null, Leaf, Digest
<1> QED
  BY <1>1, <1>2, <1>3, <1>4

\* The nodes under those of a height are nodes.
LEMMA UnderIsNode ==
  ASSUME NEW h \in 0..KeyLength, NEW c \in NodesUnder(Nodes, h)
  PROVE  h > 0 /\ h - 1 \in 0..KeyLength /\ c \in Nodes[h - 1] /\ c \in Node
<1>1. h # 0 /\ c \in Nodes[h - 1]
  BY DEF NodesUnder
<1>2. h - 1 \in 0..KeyLength /\ KeyLength \in 0..KeyLength /\ h - 1 \in 0..KeyLength
  BY <1>1, TrieAssumption
<1> QED
  BY <1>1, <1>2, HeightMonotonic DEF Node

\* So they can be built from the leaves up.
LEMMA OfExists ==
  ASSUME NEW name \in {"rlp", "get", "path", "resolve"}, NEW t, Table(t)
  PROVE  \E f : f = [node \in Node |-> Of(name, t, f, node)]
<1> DEFINE Good(f, q) == \A h \in 0..KeyLength : h < q =>
                           \A node \in Nodes[h] : f[node] = Of(name, t, f, node)
           S == {q \in Nat : \E f : f = [node \in Node |-> f[node]] /\ Good(f, q)}
<1>0. /\ \A h \in 0..KeyLength : Nodes[h] \subseteq Node
      /\ Node = Nodes[KeyLength] /\ KeyLength \in 0..KeyLength
  BY HeightMonotonic, TrieAssumption DEF Node
<1>1. 0 \in S
  <2> DEFINE f == [node \in Node |-> {}]
  <2>1. Good(f, 0)
    OBVIOUS
  <2>2. f = [node \in Node |-> f[node]]
    OBVIOUS
  <2> HIDE DEF f, Good
  <2> QED
    BY <2>1, <2>2
<1>2. \A q \in Nat : q \in S => q + 1 \in S
  <2> SUFFICES ASSUME NEW q \in Nat, q \in S PROVE q + 1 \in S
    OBVIOUS
  <2>1. PICK f : f = [node \in Node |-> f[node]] /\ Good(f, q)
    BY DEF S
  <2> DEFINE g == [node \in Node |-> Of(name, t, f, node)]
  <2>2. ASSUME NEW h \in 0..KeyLength, h < q + 1, NEW node \in Nodes[h]
        PROVE  g[node] = Of(name, t, g, node)
    <3>1. g[node] = Of(name, t, f, node)
      BY <1>0
    <3>2. ASSUME NEW c \in NodesUnder(Nodes, h) PROVE f[c] = g[c]
      <4>1. h - 1 \in 0..KeyLength /\ h - 1 < q /\ c \in Nodes[h - 1] /\ c \in Node
        BY <2>2, UnderIsNode, TrieAssumption
      <4>2. f[c] = Of(name, t, f, c)
        BY <2>1, <4>1
      <4> QED
        BY <4>1, <4>2
    <3> HIDE DEF g
    <3>3. /\ RlpOf(f, node) = RlpOf(g, node) /\ GetOf(f, node) = GetOf(g, node)
          /\ PathOf(f, node) = PathOf(g, node)
      BY <3>2, OfChildren
    <3>4. ResolveOf(t, f, Found(t, node)) = ResolveOf(t, g, Found(t, node))
      <4> DEFINE m == Found(t, node)
      <4>1. m \in Nodes[h] /\ (m.kind = "digest" => Entries(t, m.hash) = {})
        BY FoundType
      <4> HIDE DEF m
      <4>2. ResolveOf(t, f, m) = ResolveOf(t, g, m)
        BY <3>2, <4>1, OfChildren
      <4> QED
        BY <4>2 DEF m
    <3> QED
      BY <3>1, <3>3, <3>4 DEF Of
  <2>3. g = [node \in Node |-> g[node]]
    OBVIOUS
  <2>4. Good(g, q + 1)
    <3> HIDE DEF g
    <3> QED
      BY <2>2
  <2> HIDE DEF g, Good
  <2> QED
    BY <2>3, <2>4
<1>3. KeyLength + 1 \in S
  <2> HIDE DEF S
  <2> QED
    BY <1>1, <1>2, NatSetInduction, TrieAssumption
<1>4. PICK f : f = [node \in Node |-> f[node]] /\ Good(f, KeyLength + 1)
  BY <1>3
<1>5. \A node \in Node : f[node] = Of(name, t, f, node)
  BY <1>0, <1>4, TrieAssumption
<1>6. f = [node \in Node |-> Of(name, t, f, node)]
  BY <1>4, <1>5
<1> QED
  BY <1>6
\* Node::rlp_encoded, Node::get and eth_getProof are these functions.
LEMMA FunctionsDef ==
  \A node \in Node : /\ RlpEncoded[node] = RlpOf(RlpEncoded, node)
                     /\ Get[node] = GetOf(Get, node)
                     /\ PathNodes[node] = PathOf(PathNodes, node)
<1>1. RlpEncoded = [node \in Node |-> RlpOf(RlpEncoded, node)]
  <2>1. RlpEncoded = CHOOSE f : f = [node \in Node |-> RlpOf(f, node)]
    BY Zenon DEF RlpEncoded, RlpOf
  <2>2. \A f, node : Of("rlp", {}, f, node) = RlpOf(f, node)
    BY DEF Of
  <2>3. \E f : f = [node \in Node |-> Of("rlp", {}, f, node)]
    BY OfExists DEF Table
  <2>4. PICK f : f = [node \in Node |-> Of("rlp", {}, f, node)]
    BY <2>3
  <2>5. f = [node \in Node |-> RlpOf(f, node)]
    BY <2>2, <2>4
  <2> QED
    BY <2>1, <2>5, Zenon
<1>2. Get = [node \in Node |-> GetOf(Get, node)]
  <2>1. Get = CHOOSE f : f = [node \in Node |-> GetOf(f, node)]
    BY Zenon DEF Get, GetOf
  <2>2. \A f, node : Of("get", {}, f, node) = GetOf(f, node)
    BY DEF Of
  <2>3. \E f : f = [node \in Node |-> Of("get", {}, f, node)]
    BY OfExists DEF Table
  <2>4. PICK f : f = [node \in Node |-> Of("get", {}, f, node)]
    BY <2>3
  <2>5. f = [node \in Node |-> GetOf(f, node)]
    BY <2>2, <2>4
  <2> QED
    BY <2>1, <2>5, Zenon
<1>3. PathNodes = [node \in Node |-> PathOf(PathNodes, node)]
  <2>1. PathNodes = CHOOSE f : f = [node \in Node |-> PathOf(f, node)]
    BY Zenon DEF PathNodes, PathOf
  <2>2. \A f, node : Of("path", {}, f, node) = PathOf(f, node)
    BY DEF Of
  <2>3. \E f : f = [node \in Node |-> Of("path", {}, f, node)]
    BY OfExists DEF Table
  <2>4. PICK f : f = [node \in Node |-> Of("path", {}, f, node)]
    BY <2>3
  <2>5. f = [node \in Node |-> PathOf(f, node)]
    BY <2>2, <2>4
  <2> QED
    BY <2>1, <2>5, Zenon
<1>4. ASSUME NEW node \in Node PROVE RlpEncoded[node] = RlpOf(RlpEncoded, node)
  BY <1>1, Zenon
<1>5. ASSUME NEW node \in Node PROVE Get[node] = GetOf(Get, node)
  BY <1>2, Zenon
<1>6. ASSUME NEW node \in Node PROVE PathNodes[node] = PathOf(PathNodes, node)
  BY <1>3, Zenon
<1> QED
  BY <1>4, <1>5, <1>6

\* What a table of nodes resolves nodes to.
Resolver(t) == CHOOSE f : f = [node \in Node |-> ResolveOf(t, f, node)]

\* resolve_trie is this function.
LEMMA ResolverDef ==
  ASSUME NEW t, Table(t)
  PROVE  /\ \A node : ResolveTrie(node, t) = Resolver(t)[node]
         /\ \A node \in Node : Resolver(t)[node] = ResolveOf(t, Resolver(t), node)
<1>1. \A node : ResolveTrie(node, t) = Resolver(t)[node]
  BY Zenon DEF ResolveTrie, Resolver, ResolveOf, Entries
<1>2. PICK f : f = [node \in Node |-> Of("resolve", t, f, node)]
  BY OfExists
<1>3. \A node \in Node : f[node] = ResolveOf(t, f, Found(t, node))
  BY <1>2 DEF Of
<1>4. ASSUME NEW node \in Node PROVE f[node] = ResolveOf(t, f, node)
  <2>1. KeyLength \in 0..KeyLength /\ Node = Nodes[KeyLength]
    BY TrieAssumption DEF Node
  <2>2. CASE node.kind = "digest" /\ Entries(t, node.hash) # {}
    <3> DEFINE m == Found(t, node)
    <3>1. m \in Node /\ (m.kind = "digest" => Entries(t, m.hash) = {})
      BY <2>1, FoundType
    <3>2. Found(t, m) = m
      BY <3>1 DEF Found
    <3>3. f[m] = ResolveOf(t, f, m) /\ f[node] = ResolveOf(t, f, m)
      BY <1>3, <3>1, <3>2
    <3>4. m = (CHOOSE e \in Entries(t, node.hash) : TRUE)[2]
      BY <2>2 DEF Found
    <3>5. ResolveOf(t, f, node) = f[m]
      BY <2>2, <3>4 DEF ResolveOf
    <3> QED
      BY <3>3, <3>5
  <2>3. CASE ~(node.kind = "digest" /\ Entries(t, node.hash) # {})
    <3>1. Found(t, node) = node
      BY <2>3 DEF Found
    <3> QED
      BY <1>3, <3>1
  <2> QED
    BY <2>2, <2>3
<1>5. f = [node \in Node |-> ResolveOf(t, f, node)]
  BY <1>2, <1>4
<1>6. Resolver(t) = [node \in Node |-> ResolveOf(t, Resolver(t), node)]
  BY <1>5, Zenon DEF Resolver
<1>7. \A node \in Node : Resolver(t)[node] = ResolveOf(t, Resolver(t), node)
  BY <1>6, Zenon
<1> QED
  BY <1>1, <1>7
-----------------------------------------------------------------------------
(* Paths *)

\* What is left of a sequence, position by position.
LEMMA RestFacts ==
  ASSUME NEW S, NEW s \in Seq(S), NEW n \in 0..Len(s)
  PROVE  /\ Rest(s, n) \in Seq(S) /\ Len(Rest(s, n)) = Len(s) - n
         /\ \A i \in 1..(Len(s) - n) : Rest(s, n)[i] = s[n + i]
<1>1. Len(s) \in Nat /\ \A i \in 1..Len(s) : s[i] \in S
  BY LenProperties, ElementOfSeq
<1>2. \A i \in (n + 1)..Len(s) : s[i] \in S
  BY <1>1
<1>3. n + 1 \in Int /\ Len(s) \in Int
  BY <1>1
<1> DEFINE m == n + 1  l == Len(s)
<1>4. /\ SubSeq(s, m, l) \in Seq(S)
      /\ Len(SubSeq(s, m, l)) = IF m <= l THEN l - m + 1 ELSE 0
      /\ \A i \in 1..(l - m + 1) : SubSeq(s, m, l)[i] = s[m + i - 1]
  <2> HIDE DEF m, l
  <2>1. m \in Int /\ l \in Int /\ \A i \in m..l : s[i] \in S
    BY <1>2, <1>3 DEF m, l
  <2> QED
    BY <2>1, SubSeqProperties
<1>5. Rest(s, n) = SubSeq(s, m, l)
  BY DEF Rest
<1>6. l - m + 1 = Len(s) - n /\ (IF m <= l THEN l - m + 1 ELSE 0) = Len(s) - n
  BY <1>1
<1>7. \A i \in 1..(Len(s) - n) : m + i - 1 = n + i
  BY <1>1
<1> QED
  BY <1>4, <1>5, <1>6, <1>7

\* A beginning of a sequence, position by position.
LEMMA BeginFacts ==
  ASSUME NEW S, NEW s \in Seq(S), NEW n \in 0..Len(s)
  PROVE  /\ SubSeq(s, 1, n) \in Seq(S) /\ Len(SubSeq(s, 1, n)) = n
         /\ \A i \in 1..n : SubSeq(s, 1, n)[i] = s[i]
<1>1. Len(s) \in Nat /\ \A i \in 1..Len(s) : s[i] \in S
  BY LenProperties, ElementOfSeq
<1>2. \A i \in 1..n : s[i] \in S
  BY <1>1
<1>3. n \in Int /\ 1 \in Int /\ n \in Nat
  BY <1>1
<1>4. /\ SubSeq(s, 1, n) \in Seq(S)
      /\ Len(SubSeq(s, 1, n)) = IF 1 <= n THEN n - 1 + 1 ELSE 0
      /\ \A i \in 1..(n - 1 + 1) : SubSeq(s, 1, n)[i] = s[1 + i - 1]
  BY <1>2, <1>3, SubSeqProperties
<1> QED
  BY <1>3, <1>4

\* A sequence is a prefix of another when they agree on its positions.
LEMMA PrefixPoints ==
  ASSUME NEW S, NEW s \in Seq(S), NEW t \in Seq(S)
  PROVE  IsPrefix(s, t) <=> Len(s) <= Len(t) /\ \A i \in 1..Len(s) : s[i] = t[i]
<1> SUFFICES ASSUME Len(s) <= Len(t)
             PROVE  SubSeq(s, 1, Len(s)) = SubSeq(t, 1, Len(s)) <=> \A i \in 1..Len(s) : s[i] = t[i]
  BY DEF IsPrefix
<1>1. Len(s) \in 0..Len(s) /\ Len(s) \in 0..Len(t)
  BY LenProperties
<1>2. SubSeq(s, 1, Len(s)) \in Seq(S) /\ Len(SubSeq(s, 1, Len(s))) = Len(s)
      /\ \A i \in 1..Len(s) : SubSeq(s, 1, Len(s))[i] = s[i]
  BY <1>1, BeginFacts
<1>3. SubSeq(t, 1, Len(s)) \in Seq(S) /\ Len(SubSeq(t, 1, Len(s))) = Len(s)
      /\ \A i \in 1..Len(s) : SubSeq(t, 1, Len(s))[i] = t[i]
  BY <1>1, BeginFacts
<1>4. ASSUME \A i \in 1..Len(s) : s[i] = t[i]
      PROVE  SubSeq(s, 1, Len(s)) = SubSeq(t, 1, Len(s))
  <2> DEFINE a == SubSeq(s, 1, Len(s))  b == SubSeq(t, 1, Len(s))
  <2>1. a \in Seq(S) /\ b \in Seq(S) /\ Len(a) = Len(b) /\ \A i \in 1..Len(a) : a[i] = b[i]
    BY <1>2, <1>3, <1>4
  <2> HIDE DEF a, b
  <2>2. a = b
    BY <2>1, SeqEqual
  <2> QED
    BY <2>2 DEF a, b
<1> QED
  BY <1>2, <1>3, <1>4

\* An encoded path is read back.
LEMMA PathReadBack ==
  ASSUME NEW path \in Seq(Nibbles), NEW isLeaf \in BOOLEAN
  PROVE  /\ EncodePath(path, isLeaf) \in EncodedPaths(isLeaf)
         /\ IsLeafPath(EncodePath(path, isLeaf)) = isLeaf
         /\ DecodePath(EncodePath(path, isLeaf)) = path
<1> DEFINE flag == IF isLeaf THEN 2 ELSE 0
           N == 0..15
<1>1. path \in Seq(N) /\ Len(path) \in Nat
  BY TrieAssumption, SeqMonotonic, LenProperties
<1>2. ASSUME NEW front \in Seq(N), Len(front) \in {1, 2}
      PROVE  /\ front \o path \in Seq(N) /\ Len(front \o path) = Len(front) + Len(path)
             /\ (front \o path)[1] = front[1]
             /\ Rest(front \o path, Len(front)) = path
  <2> DEFINE e == front \o path  n == Len(front)
  <2>1. e \in Seq(N) /\ Len(e) = n + Len(path)
        /\ \A i \in 1..(n + Len(path)) : e[i] = IF i <= n THEN front[i] ELSE path[i - n]
    BY <1>1, ConcatProperties
  <2>2. n \in 0..Len(e) /\ Len(e) - n = Len(path) /\ n \in {1, 2}
    BY <1>1, <1>2, <2>1
  <2> HIDE DEF e, n
  <2>3. Rest(e, n) \in Seq(N) /\ Len(Rest(e, n)) = Len(path)
        /\ \A i \in 1..Len(path) : Rest(e, n)[i] = e[n + i]
    <3>1. /\ Rest(e, n) \in Seq(N) /\ Len(Rest(e, n)) = Len(e) - n
          /\ \A i \in 1..(Len(e) - n) : Rest(e, n)[i] = e[n + i]
      <4> HIDE DEF N
      <4> QED
        BY <2>1, <2>2, RestFacts
    <3> QED
      BY <2>2, <3>1
  <2>4. \A i \in 1..Len(path) : e[n + i] = path[i]
    <3> TAKE i \in 1..Len(path)
    <3> DEFINE j == n + i
    <3>1. j \in 1..(n + Len(path)) /\ ~(j <= n) /\ j - n = i
      BY <1>1, <2>2
    <3>2. e[j] = IF j <= n THEN front[j] ELSE path[j - n]
      <4> HIDE DEF j
      <4> QED
        BY <2>1, <3>1
    <3> QED
      BY <3>1, <3>2
  <2>5. Rest(e, n) = path
    BY <1>1, <2>3, <2>4, SeqEqual
  <2>6. e[1] = front[1]
    BY <1>1, <2>1, <2>2
  <2> QED
    BY <2>1, <2>5, <2>6 DEF e, n
<1>3. flag \in {0, 2} /\ (isLeaf <=> flag = 2)
  OBVIOUS
<1>4. CASE Len(path) % 2 = 1
  <2> DEFINE front == <<flag + 1>>
  <2>1. front \in Seq(N) /\ Len(front) = 1 /\ front[1] = flag + 1
    BY <1>3
  <2>2. EncodePath(path, isLeaf) = front \o path
    BY <1>4 DEF EncodePath
  <2> HIDE DEF front, flag
  <2>3. /\ front \o path \in Seq(N) /\ Len(front \o path) = 1 + Len(path)
        /\ (front \o path)[1] = flag + 1 /\ Rest(front \o path, 1) = path
    BY <1>2, <2>1
  <2>4. (((flag + 1) \div 2) % 2 # 0 <=> isLeaf) /\ (flag + 1) % 2 # 0
    BY <1>3
  <2>5. IsLeafPath(front \o path) = isLeaf /\ DecodePath(front \o path) = path
    BY <2>3, <2>4 DEF IsLeafPath, DecodePath
  <2>6. Len(path) >= 1
    BY <1>1, <1>4
  <2>7. front \o path \in EncodedPaths(isLeaf)
    BY <1>1, <2>3, <2>5, <2>6 DEF EncodedPaths
  <2> QED
    BY <2>2, <2>5, <2>7
<1>5. CASE Len(path) % 2 # 1
  <2> DEFINE front == <<flag, 0>>
  <2>1. front \in Seq(N) /\ Len(front) = 2 /\ front[1] = flag
    BY <1>3
  <2>2. EncodePath(path, isLeaf) = front \o path
    BY <1>5 DEF EncodePath
  <2> HIDE DEF front, flag
  <2>3. /\ front \o path \in Seq(N) /\ Len(front \o path) = 2 + Len(path)
        /\ (front \o path)[1] = flag /\ Rest(front \o path, 2) = path
    BY <1>2, <2>1
  <2>4. ((flag \div 2) % 2 # 0 <=> isLeaf) /\ ~(flag % 2 # 0)
    BY <1>3
  <2>5. IsLeafPath(front \o path) = isLeaf /\ DecodePath(front \o path) = path
    BY <2>3, <2>4 DEF IsLeafPath, DecodePath
  <2>6. front \o path \in EncodedPaths(isLeaf)
    BY <1>1, <2>3, <2>5 DEF EncodedPaths
  <2> QED
    BY <2>2, <2>5, <2>6
<1> QED
  BY <1>4, <1>5
-----------------------------------------------------------------------------
(* The full trie *)

\* A key of the chain's map is a sequence of nibbles of the length of keys.
LEMMA KeyFacts ==
  ASSUME NEW k \in Keys
  PROVE  k \in Seq(Nibbles) /\ Len(k) = KeyLength
<1>1. k \in [1..KeyLength -> Nibbles] /\ KeyLength \in Nat
  BY TrieAssumption
<1> QED
  BY <1>1

\* A position is the beginning of a key.
LEMMA PositionFacts ==
  \A p : p \in Positions <=> p \in Seq(Nibbles) /\ Len(p) \in 0..KeyLength
<1>1. ASSUME NEW n \in 0..KeyLength, NEW p \in [1..n -> Nibbles]
      PROVE  p \in Seq(Nibbles) /\ Len(p) \in 0..KeyLength
  <2>1. n \in Nat
    BY TrieAssumption
  <2> QED
    BY <2>1
<1>2. ASSUME NEW p \in Seq(Nibbles), Len(p) \in 0..KeyLength
      PROVE  p \in Positions
  <2>1. p \in [1..Len(p) -> Nibbles]
    BY LenProperties
  <2> QED
    BY <1>2, <2>1 DEF Positions
<1>3. ASSUME NEW p \in Positions PROVE \E n \in 0..KeyLength : p \in [1..n -> Nibbles]
  BY DEF Positions
<1> QED
  BY <1>1, <1>2, <1>3

\* Max of some numbers up to a bound is one of them.
LEMMA MaxIsIn ==
  ASSUME NEW m \in Nat, NEW s \in SUBSET (0..m), s # {}
  PROVE  Max(s) \in s
<1> DEFINE S == {d \in 0..m : m - d \in s}
<1>1. S \in SUBSET Nat /\ S # {}
  <2>1. PICK x \in s : TRUE
    OBVIOUS
  <2>2. x \in 0..m
    BY <2>1
  <2>3. m - x \in 0..m /\ m - (m - x) = x
    BY <2>2
  <2>4. m - x \in S
    BY <2>1, <2>3
  <2>5. \A d \in S : d \in Nat
    OBVIOUS
  <2> HIDE DEF S
  <2> QED
    BY <2>4, <2>5
<1>2. PICK d \in S : \A e \in S : ~(<<e, d>> \in OpToRel(<, Nat))
  BY <1>1, NatLessThanWellFounded, WFMin
<1>3. d \in S
  BY <1>2, Zenon
<1>4. \A e \in S : ~(e < d)
  <2> SUFFICES ASSUME NEW e \in S, e < d PROVE FALSE
    OBVIOUS
  <2>1. <<e, d>> \in OpToRel(<, Nat)
    BY <1>3 DEF OpToRel
  <2> QED
    BY <1>2, <2>1, Zenon
<1>5. \A y \in s : m - d >= y
  <2> TAKE y \in s
  <2>1. m - y \in S
    <3>1. m - y \in 0..m /\ m - (m - y) = y
      OBVIOUS
    <3> QED
      BY <3>1
  <2>2. ~(m - y < d) /\ d \in Nat
    BY <1>3, <1>4, <2>1
  <2> QED
    BY <2>2
<1>6. \E x \in s : \A y \in s : x >= y
  BY <1>3, <1>5
<1> QED
  BY <1>6 DEF Max

\* Keys agree on the nibbles they share.
LEMMA SharedFacts ==
  ASSUME NEW keys
  PROVE  /\ Shared(keys) \in 0..KeyLength
         /\ \A k, l \in keys : SubSeq(k, 1, Shared(keys)) = SubSeq(l, 1, Shared(keys))
<1> DEFINE s == {n \in 0..KeyLength : \A k, l \in keys : SubSeq(k, 1, n) = SubSeq(l, 1, n)}
<1>1. s \in SUBSET (0..KeyLength) /\ KeyLength \in Nat
  BY TrieAssumption
<1>2. 0 \in s
  <2>1. \A k : SubSeq(k, 1, 0) = <<>>
    BY SubSeqEmpty
  <2>2. 0 \in 0..KeyLength
    BY TrieAssumption
  <2> QED
    BY <2>1, <2>2
<1>3. Max(s) \in s
  <2> HIDE DEF s
  <2> QED
    BY <1>1, <1>2, MaxIsIn
<1>4. Shared(keys) = Max(s)
  BY DEF Shared
<1> QED
  BY <1>3, <1>4

\* The node at a position of the full trie, from what a function says of the
\* positions beyond.
AtOf(entries, f, prefix) ==
  LET keys == Under(entries, prefix)
      one == CHOOSE k \in keys : TRUE
      several == \E k, l \in keys : k # l
  IN  CASE several /\ Shared(keys) > Len(prefix) ->
             Extension(SubSeq(one, Len(prefix) + 1, Shared(keys)),
                       f[SubSeq(one, 1, Shared(keys))])
        [] several /\ Shared(keys) <= Len(prefix) ->
             Branch([n \in Nibbles |-> f[Append(prefix, n)]])
        [] keys = {} -> Null
        [] OTHER -> Leaf(Rest(one, Len(prefix)), entries[one])

\* What that node can be, for the keys under the position: none, one key, keys
\* that share more nibbles, or keys that part here.
NoKey(entries, p) ==
  Under(entries, p) = {} /\ \A f : AtOf(entries, f, p) = Null
OneKey(entries, p, k) ==
  Under(entries, p) = {k} /\ \A f : AtOf(entries, f, p) = Leaf(Rest(k, Len(p)), entries[k])
Sharing(entries, p, k, n) ==
  /\ k \in Under(entries, p)
  /\ \A l \in Under(entries, p) : SubSeq(l, 1, n) = SubSeq(k, 1, n)
  /\ \A f : AtOf(entries, f, p) = Extension(SubSeq(k, Len(p) + 1, n), f[SubSeq(k, 1, n)])
Parting(entries, p) ==
  /\ Len(p) < KeyLength
  /\ \A f : AtOf(entries, f, p) = Branch([n \in Nibbles |-> f[Append(p, n)]])

\* Keys under a position of full length are one key, so there is room for a branch.
LEMMA AtCases ==
  ASSUME NEW entries \in Contents, NEW p \in Positions
  PROVE  \/ NoKey(entries, p)
         \/ \E k \in Under(entries, p) : OneKey(entries, p, k)
         \/ \E k \in Under(entries, p), n \in (Len(p) + 1)..KeyLength : Sharing(entries, p, k, n)
         \/ Parting(entries, p)
<1> DEFINE keys == Under(entries, p)
           one == CHOOSE k \in keys : TRUE
           several == \E k, l \in keys : k # l
           n == Shared(keys)
<1>1. keys \subseteq Keys
  BY DEF Contents, Under
<1>2. n \in 0..KeyLength /\ \A k, l \in keys : SubSeq(k, 1, n) = SubSeq(l, 1, n)
  BY SharedFacts
<1>3. Len(p) \in 0..KeyLength /\ KeyLength \in Nat
  BY PositionFacts, TrieAssumption
<1>4. CASE keys = {}
  <2>1. ~several
    BY <1>4
  <2>2. \A f : AtOf(entries, f, p) = Null
    BY <1>4, <2>1 DEF AtOf
  <2> QED
    BY <1>4, <2>2 DEF NoKey
<1>5. CASE keys # {}
  <2>1. one \in keys
    BY <1>5
  <2>2. CASE ~several
    <3>1. keys = {one}
      BY <2>1, <2>2
    <3>2. \A f : AtOf(entries, f, p) = Leaf(Rest(one, Len(p)), entries[one])
      BY <1>5, <2>2 DEF AtOf
    <3> HIDE DEF one, several
    <3> QED
      BY <2>1, <3>1, <3>2 DEF OneKey
  <2>3. CASE several /\ n > Len(p)
    <3>1. \A f : AtOf(entries, f, p) = Extension(SubSeq(one, Len(p) + 1, n), f[SubSeq(one, 1, n)])
      <4>1. ~(n <= Len(p))
        BY <1>2, <1>3, <2>3
      <4> QED
        BY <1>5, <2>3, <4>1, Zenon DEF AtOf
    <3>2. n \in (Len(p) + 1)..KeyLength
      BY <1>2, <1>3, <2>3
    <3> HIDE DEF one, several, n
    <3> QED
      BY <1>2, <2>1, <3>1, <3>2 DEF Sharing
  <2>4. CASE several /\ ~(n > Len(p))
    <3>1. n <= Len(p)
      BY <1>2, <1>3, <2>4
    <3>2. \A f : AtOf(entries, f, p) = Branch([m \in Nibbles |-> f[Append(p, m)]])
      BY <2>4, <3>1 DEF AtOf
    <3>3. Len(p) < KeyLength
      <4>1. PICK k \in keys, l \in keys : k # l
        BY <2>4
      <4>2. /\ k \in Seq(Nibbles) /\ l \in Seq(Nibbles) /\ p \in Seq(Nibbles)
            /\ Len(k) = KeyLength /\ Len(l) = KeyLength
        BY <1>1, KeyFacts, PositionFacts
      <4>3. IsPrefix(p, k) /\ IsPrefix(p, l)
        BY DEF Under
      <4>4. \A i \in 1..Len(p) : k[i] = l[i]
        BY <4>2, <4>3, PrefixPoints
      <4>5. CASE Len(p) = KeyLength
        BY <4>1, <4>2, <4>4, <4>5, SeqEqual
      <4> QED
        BY <1>3, <4>5
    <3> QED
      BY <3>2, <3>3 DEF Parting
  <2> QED
    BY <2>2, <2>3, <2>4
<1> QED
  BY <1>4, <1>5

\* The positions beyond one are positions.
LEMMA BeyondFacts ==
  ASSUME NEW p \in Positions
  PROVE  /\ \A k \in Keys, n \in (Len(p) + 1)..KeyLength :
              SubSeq(k, 1, n) \in Positions /\ Len(SubSeq(k, 1, n)) = n
         /\ Len(p) < KeyLength =>
              \A m \in Nibbles : Append(p, m) \in Positions /\ Len(Append(p, m)) = Len(p) + 1
<1>1. p \in Seq(Nibbles) /\ Len(p) \in 0..KeyLength /\ KeyLength \in Nat
  BY PositionFacts, TrieAssumption
<1>2. ASSUME NEW k \in Keys, NEW n \in (Len(p) + 1)..KeyLength
      PROVE  SubSeq(k, 1, n) \in Positions /\ Len(SubSeq(k, 1, n)) = n
  <2>1. k \in Seq(Nibbles) /\ Len(k) = KeyLength
    BY KeyFacts
  <2>2. n \in 0..Len(k) /\ n \in 0..KeyLength
    BY <1>1, <2>1
  <2>3. SubSeq(k, 1, n) \in Seq(Nibbles) /\ Len(SubSeq(k, 1, n)) = n
    BY <2>1, <2>2, BeginFacts
  <2> QED
    BY <2>2, <2>3, PositionFacts
<1>3. ASSUME Len(p) < KeyLength, NEW m \in Nibbles
      PROVE  Append(p, m) \in Positions /\ Len(Append(p, m)) = Len(p) + 1
  <2>1. Append(p, m) \in Seq(Nibbles) /\ Len(Append(p, m)) = Len(p) + 1
    BY <1>1, AppendProperties
  <2>2. Len(p) + 1 \in 0..KeyLength
    BY <1>1, <1>3
  <2> QED
    BY <2>1, <2>2, PositionFacts
<1> QED
  BY <1>2, <1>3
\* The node at a position depends on the positions beyond it only.
LEMMA AtBeyond ==
  ASSUME NEW entries \in Contents, NEW p \in Positions, NEW f, NEW g,
         \A r \in Positions : Len(r) > Len(p) => f[r] = g[r]
  PROVE  AtOf(entries, f, p) = AtOf(entries, g, p)
<1>0. Under(entries, p) \subseteq Keys /\ Len(p) \in 0..KeyLength /\ KeyLength \in Nat
  BY PositionFacts, TrieAssumption DEF Contents, Under
<1>1. CASE NoKey(entries, p)
  BY <1>1 DEF NoKey
<1>2. ASSUME NEW k \in Under(entries, p), OneKey(entries, p, k)
      PROVE  AtOf(entries, f, p) = AtOf(entries, g, p)
  BY <1>2 DEF OneKey
<1>3. ASSUME NEW k \in Under(entries, p), NEW n \in (Len(p) + 1)..KeyLength,
             Sharing(entries, p, k, n)
      PROVE  AtOf(entries, f, p) = AtOf(entries, g, p)
  <2>1. SubSeq(k, 1, n) \in Positions /\ Len(SubSeq(k, 1, n)) = n /\ n > Len(p)
    BY <1>0, BeyondFacts
  <2>2. f[SubSeq(k, 1, n)] = g[SubSeq(k, 1, n)]
    BY <2>1
  <2> QED
    BY <1>3, <2>2 DEF Sharing
<1>4. CASE Parting(entries, p)
  <2>1. \A m \in Nibbles : Append(p, m) \in Positions /\ Len(Append(p, m)) > Len(p)
    BY <1>0, <1>4, BeyondFacts DEF Parting
  <2>2. \A m \in Nibbles : f[Append(p, m)] = g[Append(p, m)]
    BY <2>1
  <2>3. [m \in Nibbles |-> f[Append(p, m)]] = [m \in Nibbles |-> g[Append(p, m)]]
    BY <2>2
  <2> QED
    BY <1>4, <2>3 DEF Parting
<1> QED
  BY <1>1, <1>2, <1>3, <1>4, AtCases

\* So the full trie can be built from the ends of the keys.
LEMMA AtExists ==
  ASSUME NEW entries \in Contents
  PROVE  \E f : f = [p \in Positions |-> AtOf(entries, f, p)]
<1> DEFINE Good(f, q) == \A p \in Positions : KeyLength - Len(p) < q => f[p] = AtOf(entries, f, p)
           S == {q \in Nat : \E f : f = [p \in Positions |-> f[p]] /\ Good(f, q)}
<1>0. KeyLength \in Nat /\ \A p \in Positions : Len(p) \in 0..KeyLength
  BY PositionFacts, TrieAssumption
<1>1. 0 \in S
  <2> DEFINE f == [p \in Positions |-> {}]
  <2>1. Good(f, 0)
    BY <1>0
  <2>2. f = [p \in Positions |-> f[p]]
    OBVIOUS
  <2> HIDE DEF f, Good
  <2> QED
    BY <2>1, <2>2
<1>2. \A q \in Nat : q \in S => q + 1 \in S
  <2> SUFFICES ASSUME NEW q \in Nat, q \in S PROVE q + 1 \in S
    OBVIOUS
  <2>1. PICK f : f = [p \in Positions |-> f[p]] /\ Good(f, q)
    BY DEF S
  <2> DEFINE g == [p \in Positions |-> AtOf(entries, f, p)]
  <2>2. ASSUME NEW p \in Positions, KeyLength - Len(p) < q + 1
        PROVE  g[p] = AtOf(entries, g, p)
    <3>1. g[p] = AtOf(entries, f, p)
      OBVIOUS
    <3>2. ASSUME NEW r \in Positions, Len(r) > Len(p) PROVE f[r] = g[r]
      <4>1. KeyLength - Len(r) < q
        BY <1>0, <2>2, <3>2
      <4>2. f[r] = AtOf(entries, f, r)
        BY <2>1, <4>1
      <4> QED
        BY <4>2
    <3> HIDE DEF g
    <3> QED
      BY <3>1, <3>2, AtBeyond
  <2>3. g = [p \in Positions |-> g[p]]
    OBVIOUS
  <2>4. Good(g, q + 1)
    <3> HIDE DEF g
    <3> QED
      BY <2>2
  <2> HIDE DEF g, Good
  <2> QED
    BY <2>3, <2>4
<1>3. KeyLength + 1 \in S
  <2> HIDE DEF S
  <2> QED
    BY <1>0, <1>1, <1>2, NatSetInduction
<1>4. PICK f : f = [p \in Positions |-> f[p]] /\ Good(f, KeyLength + 1)
  BY <1>3
<1>5. \A p \in Positions : f[p] = AtOf(entries, f, p)
  BY <1>0, <1>4
<1>6. f = [p \in Positions |-> AtOf(entries, f, p)]
  BY <1>4, <1>5
<1> QED
  BY <1>6

\* The nodes of the full trie, by position.
At(entries) == CHOOSE f : f = [p \in Positions |-> AtOf(entries, f, p)]

\* FullTrie is the node before the first nibble.
LEMMA AtDef ==
  ASSUME NEW entries \in Contents
  PROVE  /\ FullTrie(entries) = At(entries)[<<>>]
         /\ \A p \in Positions : At(entries)[p] = AtOf(entries, At(entries), p)
<1>1. FullTrie(entries) = At(entries)[<<>>]
  BY Zenon DEF FullTrie, At, AtOf
<1>2. At(entries) = [p \in Positions |-> AtOf(entries, At(entries), p)]
  BY AtExists, Zenon DEF At
<1>3. \A p \in Positions : At(entries)[p] = AtOf(entries, At(entries), p)
  BY <1>2, Zenon
<1> QED
  BY <1>1, <1>3

\* Induction over positions, from the longest.
LEMMA PositionInduction ==
  ASSUME NEW S,
         \A p \in Positions : (\A r \in Positions : Len(r) > Len(p) => r \in S) => p \in S
  PROVE  \A p \in Positions : p \in S
<1> DEFINE Q == {q \in Nat : \A p \in Positions : KeyLength - Len(p) < q => p \in S}
<1>0. KeyLength \in Nat /\ \A p \in Positions : Len(p) \in 0..KeyLength
  BY PositionFacts, TrieAssumption
<1>1. 0 \in Q
  BY <1>0
<1>2. \A q \in Nat : q \in Q => q + 1 \in Q
  <2> SUFFICES ASSUME NEW q \in Nat, q \in Q PROVE q + 1 \in Q
    OBVIOUS
  <2>1. ASSUME NEW p \in Positions, KeyLength - Len(p) < q + 1 PROVE p \in S
    <3>1. ASSUME NEW r \in Positions, Len(r) > Len(p) PROVE r \in S
      <4>1. KeyLength - Len(r) < q
        BY <1>0, <2>1, <3>1
      <4> QED
        BY <4>1
    <3> QED
      BY <3>1
  <2> QED
    BY <2>1
<1>3. KeyLength + 1 \in Q
  <2> HIDE DEF Q
  <2> QED
    BY <1>0, <1>1, <1>2, NatSetInduction
<1> QED
  BY <1>0, <1>3
-----------------------------------------------------------------------------
(* What the functions say of each kind of node *)

\* The RLP of a node.
LEMMA RlpFacts ==
  ASSUME NEW node \in Node
  PROVE  /\ node = Null => RlpEncoded[node] = EmptyString
         /\ \A path, v : node = Leaf(path, v) =>
              RlpEncoded[node] = Pair(EncodePath(path, TRUE), Value(v))
         /\ \A path, c : node = Extension(path, c) =>
              RlpEncoded[node] = Pair(EncodePath(path, FALSE), Ref(c, RlpEncoded[c]))
         /\ \A cs : node = Branch(cs) =>
              RlpEncoded[node] = List([n \in Nibbles |-> Ref(cs[n], RlpEncoded[cs[n]])])
<1>1. RlpEncoded[node] = RlpOf(RlpEncoded, node)
  BY FunctionsDef
<1>2. ASSUME node = Null PROVE RlpEncoded[node] = EmptyString
  BY <1>1, <1>2 DEF RlpOf, Null
<1>3. ASSUME NEW path, NEW v, node = Leaf(path, v)
      PROVE  RlpEncoded[node] = Pair(EncodePath(path, TRUE), Value(v))
  BY <1>1, <1>3 DEF RlpOf, Leaf
<1>4. ASSUME NEW path, NEW c, node = Extension(path, c)
      PROVE  RlpEncoded[node] = Pair(EncodePath(path, FALSE), Ref(c, RlpEncoded[c]))
  BY <1>1, <1>4 DEF RlpOf, Extension
<1>5. ASSUME NEW cs, node = Branch(cs)
      PROVE  RlpEncoded[node] = List([n \in Nibbles |-> Ref(cs[n], RlpEncoded[cs[n]])])
  <2>1. node.kind = "branch" /\ node.children = cs
    BY <1>5 DEF Branch
  <2> QED
    BY <1>1, <2>1 DEF RlpOf
<1> QED
  BY <1>2, <1>3, <1>4, <1>5

\* The node read from an item.
LEMMA DecodeFacts ==
  ASSUME NEW item \in Item
  PROVE  /\ item = EmptyString => Decode[item] = Null
         /\ \A path \in EncodedPaths(TRUE) : \A v : item = Pair(path, Value(v)) =>
              Decode[item] = Leaf(DecodePath(path), v)
         /\ \A path \in EncodedPaths(FALSE) : \A i : item = Pair(path, i) =>
              Decode[item] = Extension(DecodePath(path), Decode[i])
         /\ \A items : item = List(items) =>
              Decode[item] = Branch([n \in Nibbles |-> Decode[items[n]]])
<1>1. Decode[item] = DecodeOf(Decode, item)
  BY DecodeDef
<1>2. /\ \A path \in EncodedPaths(TRUE) : IsLeafPath(path)
      /\ \A path \in EncodedPaths(FALSE) : ~IsLeafPath(path)
  BY DEF EncodedPaths
<1>3. ASSUME item = EmptyString PROVE Decode[item] = Null
  BY <1>1, <1>3 DEF DecodeOf, EmptyString
<1>4. ASSUME NEW path \in EncodedPaths(TRUE), NEW v, item = Pair(path, Value(v))
      PROVE  Decode[item] = Leaf(DecodePath(path), v)
  <2>1. item.kind = "pair" /\ item.path = path /\ item.item.value = v
    BY <1>4 DEF Pair, Value
  <2> QED
    BY <1>1, <1>2, <2>1 DEF DecodeOf
<1>5. ASSUME NEW path \in EncodedPaths(FALSE), NEW i, item = Pair(path, i)
      PROVE  Decode[item] = Extension(DecodePath(path), Decode[i])
  <2>1. item.kind = "pair" /\ item.path = path /\ item.item = i
    BY <1>5 DEF Pair
  <2> QED
    BY <1>1, <1>2, <2>1 DEF DecodeOf
<1>6. ASSUME NEW items, item = List(items)
      PROVE  Decode[item] = Branch([n \in Nibbles |-> Decode[items[n]]])
  <2>1. item.kind = "list" /\ item.items = items
    BY <1>6 DEF List
  <2> QED
    BY <1>1, <2>1 DEF DecodeOf
<1> QED
  BY <1>3, <1>4, <1>5, <1>6

\* A lookup in a node.
LEMMA GetFacts ==
  ASSUME NEW node \in Node, NEW key \in Seq(Nibbles)
  PROVE  /\ node = Null => Get[node][key] = NotFound
         /\ \A path, v : node = Leaf(path, v) =>
              Get[node][key] = IF path = key THEN v ELSE NotFound
         /\ \A path, c : node = Extension(path, c) =>
              Get[node][key] = IF IsPrefix(path, key) THEN Get[c][Rest(key, Len(path))] ELSE NotFound
         /\ \A cs : node = Branch(cs) =>
              Get[node][key] = IF key = <<>> THEN NotFound ELSE Get[cs[key[1]]][Rest(key, 1)]
         /\ \A hash : node = Digest(hash) => Get[node][key] = Panic
<1>1. Get[node] = GetOf(Get, node)
  BY FunctionsDef
<1>2. Get[node][key] = GetOf(Get, node)[key]
  BY <1>1
<1>3. ASSUME node = Null PROVE Get[node][key] = NotFound
  BY <1>2, <1>3 DEF GetOf, Null
<1>4. ASSUME NEW path, NEW v, node = Leaf(path, v)
      PROVE  Get[node][key] = IF path = key THEN v ELSE NotFound
  BY <1>2, <1>4 DEF GetOf, Leaf
<1>5. ASSUME NEW path, NEW c, node = Extension(path, c)
      PROVE  Get[node][key] = IF IsPrefix(path, key) THEN Get[c][Rest(key, Len(path))] ELSE NotFound
  BY <1>2, <1>5 DEF GetOf, Extension
<1>6. ASSUME NEW cs, node = Branch(cs)
      PROVE  Get[node][key] = IF key = <<>> THEN NotFound ELSE Get[cs[key[1]]][Rest(key, 1)]
  BY <1>2, <1>6 DEF GetOf, Branch
<1>7. ASSUME NEW hash, node = Digest(hash) PROVE Get[node][key] = Panic
  BY <1>2, <1>7 DEF GetOf, Digest, Unresolved
<1> QED
  BY <1>3, <1>4, <1>5, <1>6, <1>7

\* The nodes a proof of a key lists.
LEMMA PathFacts ==
  ASSUME NEW node \in Node, NEW key \in Seq(Nibbles)
  PROVE  /\ Length[RlpEncoded[node]] >= 32 => RlpEncoded[node] \in PathNodes[node][key]
         /\ \A path, c : node = Extension(path, c) /\ IsPrefix(path, key) =>
              PathNodes[c][Rest(key, Len(path))] \subseteq PathNodes[node][key]
         /\ \A cs : node = Branch(cs) /\ key # <<>> =>
              PathNodes[cs[key[1]]][Rest(key, 1)] \subseteq PathNodes[node][key]
<1>1. PathNodes[node] = PathOf(PathNodes, node)
  BY FunctionsDef
<1>2. PathNodes[node][key] = PathOf(PathNodes, node)[key]
  BY <1>1
<1>3. Length[RlpEncoded[node]] >= 32 => RlpEncoded[node] \in PathNodes[node][key]
  BY <1>2 DEF PathOf
<1>4. ASSUME NEW path, NEW c, node = Extension(path, c), IsPrefix(path, key)
      PROVE  PathNodes[c][Rest(key, Len(path))] \subseteq PathNodes[node][key]
  BY <1>2, <1>4 DEF PathOf, Extension
<1>5. ASSUME NEW cs, node = Branch(cs), key # <<>>
      PROVE  PathNodes[cs[key[1]]][Rest(key, 1)] \subseteq PathNodes[node][key]
  BY <1>2, <1>5 DEF PathOf, Branch
<1> QED
  BY <1>3, <1>4, <1>5

\* What a node is resolved to.
LEMMA ResolverFacts ==
  ASSUME NEW t, Table(t), NEW node \in Node
  PROVE  /\ node = Null => Resolver(t)[node] = node
         /\ \A path, v : node = Leaf(path, v) => Resolver(t)[node] = node
         /\ \A path, c : node = Extension(path, c) =>
              Resolver(t)[node] = Extension(path, Resolver(t)[c])
         /\ \A cs : node = Branch(cs) =>
              Resolver(t)[node] = Branch([n \in Nibbles |-> Resolver(t)[cs[n]]])
         /\ \A i : node = Digest(Hash(i)) =>
              Resolver(t)[node] = IF <<Hash(i), Decode[i]>> \in t THEN Resolver(t)[Decode[i]] ELSE node
<1>1. Resolver(t)[node] = ResolveOf(t, Resolver(t), node)
  BY ResolverDef
<1>2. ASSUME node = Null PROVE Resolver(t)[node] = node
  BY <1>1, <1>2 DEF ResolveOf, Null
<1>3. ASSUME NEW path, NEW v, node = Leaf(path, v) PROVE Resolver(t)[node] = node
  BY <1>1, <1>3 DEF ResolveOf, Leaf
<1>4. ASSUME NEW path, NEW c, node = Extension(path, c)
      PROVE  Resolver(t)[node] = Extension(path, Resolver(t)[c])
  <2>1. node.kind = "extension" /\ node.path = path /\ node.child = c
    BY <1>4 DEF Extension
  <2> QED
    BY <1>1, <2>1 DEF ResolveOf
<1>5. ASSUME NEW cs, node = Branch(cs)
      PROVE  Resolver(t)[node] = Branch([n \in Nibbles |-> Resolver(t)[cs[n]]])
  <2>1. node.kind = "branch" /\ node.children = cs
    BY <1>5 DEF Branch
  <2> QED
    BY <1>1, <2>1 DEF ResolveOf
<1>6. ASSUME NEW i, node = Digest(Hash(i))
      PROVE  Resolver(t)[node] = IF <<Hash(i), Decode[i]>> \in t THEN Resolver(t)[Decode[i]] ELSE node
  <2>1. node.kind = "digest" /\ node.hash = Hash(i)
    BY <1>6 DEF Digest
  <2>2. \A e \in Entries(t, Hash(i)) : e = <<Hash(i), Decode[i]>>
    <3>1. ASSUME NEW e \in Entries(t, Hash(i)) PROVE e = <<Hash(i), Decode[i]>>
      <4>1. e \in t /\ e[1] = Hash(i)
        BY DEF Entries
      <4>2. PICK j : e = <<Hash(j), Decode[j]>>
        BY <4>1 DEF Table
      <4>3. j = i
        BY <4>1, <4>2 DEF Hash
      <4> QED
        BY <4>2, <4>3
    <3> QED
      BY <3>1
  <2>3. CASE Entries(t, Hash(i)) = {}
    <3>1. Resolver(t)[node] = node
      BY <1>1, <2>1, <2>3 DEF ResolveOf
    <3>2. <<Hash(i), Decode[i]>> \notin t
      BY <2>3 DEF Entries
    <3> QED
      BY <3>1, <3>2
  <2>4. CASE Entries(t, Hash(i)) # {}
    <3> DEFINE e == CHOOSE e \in Entries(t, Hash(i)) : TRUE
    <3>1. e \in Entries(t, Hash(i))
      BY <2>4
    <3>2. Resolver(t)[node] = Resolver(t)[e[2]]
      BY <1>1, <2>1, <2>4 DEF ResolveOf
    <3> HIDE DEF e
    <3>3. e = <<Hash(i), Decode[i]>> /\ e \in t
      BY <2>2, <3>1 DEF Entries
    <3> QED
      BY <3>2, <3>3
  <2> QED
    BY <2>3, <2>4
<1> QED
  BY <1>2, <1>3, <1>4, <1>5, <1>6
-----------------------------------------------------------------------------
(* A node against what its RLP and its reference are resolved to *)

\* The RLP of a node, read and resolved; and its reference in a parent.
Own(t, f) == Resolver(t)[Decode[RlpEncoded[f]]]
Seen(t, f) == Resolver(t)[Decode[Ref(f, RlpEncoded[f])]]

\* Nodes that have all been parsed into the table.
Known(t, items) == \A i \in items : Parsed(i) \subseteq t

\* A node that answers what another does, or panics; the former for keys whose
\* proof is in the table.
Agrees(t, f, g) ==
  \A key \in Seq(Nibbles) :
    /\ Get[g][key] \in {Get[f][key], Panic}
    /\ Known(t, PathNodes[f][key]) => Get[g][key] = Get[f][key]

\* The RLP of a node survives reading and resolving,
OwnFaithful(t, h, f) ==
  /\ f \in Nodes[h] /\ f.kind # "digest" /\ RlpEncoded[f] \in Encoded[h]
  /\ Own(t, f) \in Nodes[h] /\ Own(t, f).kind = f.kind
  /\ RlpEncoded[Own(t, f)] = RlpEncoded[f]
  /\ Agrees(t, f, Own(t, f))

\* and so does its reference in a parent.
SeenFaithful(t, nodes, items, f) ==
  /\ f \in nodes /\ Seen(t, f) \in nodes
  /\ Ref(f, RlpEncoded[f]) \in items
  /\ Ref(Seen(t, f), RlpEncoded[Seen(t, f)]) = Ref(f, RlpEncoded[f])
  /\ Agrees(t, f, Seen(t, f))

\* The reference is the RLP itself, or a hash that is resolved to it or stays.
LEMMA SeenFromOwn ==
  ASSUME NEW t, Table(t), NEW h \in 0..KeyLength, NEW f, OwnFaithful(t, h, f)
  PROVE  SeenFaithful(t, Nodes[h], Referenced(Encoded[h]), f)
<1> DEFINE E == RlpEncoded[f]  b == Own(t, f)  a == Seen(t, f)
<1>1. /\ f \in Nodes[h] /\ f \in Node /\ f.kind # "digest"
      /\ E \in Encoded[h] /\ E \in Encoded[KeyLength]
      /\ b \in Nodes[h] /\ b.kind = f.kind /\ RlpEncoded[b] = E /\ Agrees(t, f, b)
  BY HeightMonotonic, TrieAssumption DEF OwnFaithful, Node
<1>2. E \in Referenced(Encoded[h]) /\ Hash(E) \in Referenced(Encoded[h])
  BY <1>1 DEF Referenced, Hash
<1>3. b = Resolver(t)[Decode[E]] /\ a = Resolver(t)[Decode[Ref(f, E)]]
  BY DEF Own, Seen
<1> HIDE DEF E, b, a
<1>4. ASSUME Ref(f, E) = E, Ref(b, E) = E
      PROVE  /\ a \in Nodes[h] /\ Ref(f, E) \in Referenced(Encoded[h])
             /\ Ref(a, RlpEncoded[a]) = Ref(f, E) /\ Agrees(t, f, a)
  <2>1. a = b
    BY <1>3, <1>4
  <2> QED
    BY <1>1, <1>2, <1>4, <2>1
<1>5. CASE f.kind = "null"
  <2>1. f = Null
    BY <1>1, <1>5, NodeCases DEF Leaf, Extension, Branch, Digest
  <2>2. E = EmptyString
    BY <1>1, <2>1, RlpFacts DEF E
  <2>3. Ref(f, E) = E /\ Ref(b, E) = E
    BY <1>1, <1>5, <2>2 DEF Ref
  <2> QED
    BY <1>1, <1>4, <2>3 DEF SeenFaithful, E, a
<1>6. CASE f.kind # "null" /\ ~(Length[E] >= 32)
  <2>1. Ref(f, E) = E /\ Ref(b, E) = E
    BY <1>1, <1>6 DEF Ref
  <2> QED
    BY <1>1, <1>4, <2>1 DEF SeenFaithful, E, a
<1>7. CASE f.kind # "null" /\ Length[E] >= 32
  <2>1. Ref(f, E) = Hash(E) /\ Ref(b, E) = Hash(E)
    BY <1>1, <1>7 DEF Ref
  <2>2. Decode[Hash(E)] = Digest(Hash(E)) /\ Digest(Hash(E)) \in Nodes[h]
    BY <1>1, DecodeType
  <2>3. Digest(Hash(E)) \in Node
    BY <2>2, HeightMonotonic, TrieAssumption DEF Node
  <2>4. a = IF <<Hash(E), Decode[E]>> \in t THEN b ELSE Digest(Hash(E))
    BY <1>3, <2>1, <2>2, <2>3, ResolverFacts
  <2>5. CASE <<Hash(E), Decode[E]>> \in t
    <3>1. a = b
      BY <2>4, <2>5
    <3> QED
      BY <1>1, <1>2, <2>1, <3>1 DEF SeenFaithful, E, a
  <2>6. CASE <<Hash(E), Decode[E]>> \notin t
    <3>1. a = Digest(Hash(E))
      BY <2>4, <2>6
    <3>2. Ref(a, RlpEncoded[a]) = Hash(E)
      BY <3>1 DEF Ref, Digest
    <3>3. Agrees(t, f, a)
      <4> SUFFICES ASSUME NEW key \in Seq(Nibbles)
                   PROVE  Get[a][key] = Panic /\ ~Known(t, PathNodes[f][key])
        BY DEF Agrees
      <4>1. Get[a][key] = Panic
        BY <2>3, <3>1, GetFacts
      <4>2. E \in PathNodes[f][key]
        BY <1>1, <1>7, PathFacts DEF E
      <4> QED
        BY <1>7, <2>6, <4>1, <4>2 DEF Known, Parsed
    <3> QED
      BY <1>1, <1>2, <2>1, <2>2, <3>1, <3>2, <3>3 DEF SeenFaithful, E, a
  <2> QED
    BY <2>5, <2>6
<1> QED
  BY <1>5, <1>6, <1>7

\* The empty trie and a leaf are read back as they are.
LEMMA OwnOfEnds ==
  ASSUME NEW t, Table(t), NEW h \in 0..KeyLength
  PROVE  /\ OwnFaithful(t, h, Null)
         /\ \A path \in Seq(Nibbles), v \in Values : OwnFaithful(t, h, Leaf(path, v))
<1>1. ASSUME NEW f \in Nodes[h], f.kind # "digest", RlpEncoded[f] \in Encoded[h], Own(t, f) = f
      PROVE  OwnFaithful(t, h, f)
  BY <1>1 DEF OwnFaithful, Agrees
<1>2. Nodes[h] \subseteq Node /\ Encoded[h] \subseteq Item
  BY HeightMonotonic, TrieAssumption DEF Node, Item, Referenced
<1>3. OwnFaithful(t, h, Null)
  <2>1. Null \in Nodes[h] /\ EmptyString \in Encoded[h] /\ Null.kind # "digest"
    BY NodeCases, ItemCases DEF Null
  <2>2. RlpEncoded[Null] = EmptyString
    BY <1>2, <2>1, RlpFacts
  <2>3. Decode[EmptyString] = Null
    BY <1>2, <2>1, DecodeFacts
  <2>4. Resolver(t)[Null] = Null
    BY <1>2, <2>1, ResolverFacts
  <2> QED
    BY <1>1, <2>1, <2>2, <2>3, <2>4 DEF Own
<1>4. ASSUME NEW path \in Seq(Nibbles), NEW v \in Values PROVE OwnFaithful(t, h, Leaf(path, v))
  <2> DEFINE f == Leaf(path, v)  e == EncodePath(path, TRUE)  i == Pair(e, Value(v))
  <2>1. e \in EncodedPaths(TRUE) /\ DecodePath(e) = path
    BY PathReadBack
  <2>2. f \in Nodes[h] /\ f.kind # "digest"
    BY NodeCases DEF Leaf
  <2> HIDE DEF e
  <2>3. i \in Encoded[h]
    BY <2>1, ItemCases
  <2>4. RlpEncoded[f] = i
    BY <1>2, <2>2, RlpFacts DEF e
  <2>5. Decode[i] = f
    BY <1>2, <2>1, <2>3, DecodeFacts
  <2>6. Resolver(t)[f] = f
    BY <1>2, <2>2, ResolverFacts
  <2> HIDE DEF f, i
  <2>7. OwnFaithful(t, h, f)
    BY <1>1, <2>2, <2>3, <2>4, <2>5, <2>6 DEF Own
  <2> QED
    BY <2>7 DEF f
<1> QED
  BY <1>3, <1>4
\* An extension is read back with what its child's reference becomes.
LEMMA OwnOfExtension ==
  ASSUME NEW t, Table(t), NEW h \in 0..KeyLength, NEW path \in Seq(Nibbles), NEW c,
         SeenFaithful(t, NodesUnder(Nodes, h), ItemsUnder(Encoded, h), c)
  PROVE  OwnFaithful(t, h, Extension(path, c))
<1> DEFINE f == Extension(path, c)
           e == EncodePath(path, FALSE)
           r == Ref(c, RlpEncoded[c])
           i == Pair(e, r)
           s == Seen(t, c)
           b == Extension(path, s)
<1>1. Nodes[h] \subseteq Node /\ Encoded[h] \subseteq Item
  BY HeightMonotonic, TrieAssumption DEF Node, Item, Referenced
<1>2. /\ c \in NodesUnder(Nodes, h) /\ s \in NodesUnder(Nodes, h) /\ r \in ItemsUnder(Encoded, h)
      /\ Ref(s, RlpEncoded[s]) = r /\ Agrees(t, c, s)
  BY DEF SeenFaithful
<1>3. e \in EncodedPaths(FALSE) /\ DecodePath(e) = path
  BY PathReadBack
<1> HIDE DEF s, r, e
<1>4. f \in Nodes[h] /\ b \in Nodes[h] /\ f.kind = "extension" /\ b.kind = "extension"
  BY <1>2, NodeCases DEF Extension
<1>5. i \in Encoded[h]
  BY <1>2, <1>3, ItemCases
<1>6. RlpEncoded[f] = i
  <2>1. \A p, d : f = Extension(p, d) =>
          RlpEncoded[f] = Pair(EncodePath(p, FALSE), Ref(d, RlpEncoded[d]))
    <3> HIDE DEF f
    <3> QED
      BY <1>1, <1>4, RlpFacts
  <2> QED
    BY <2>1, Zenon DEF e, r
<1>7. Decode[i] = Extension(path, Decode[r])
  BY <1>1, <1>3, <1>5, DecodeFacts
<1>8. Decode[i] \in Node
  BY <1>1, <1>5, DecodeType
<1>9. Own(t, f) = b
  <2>1. Resolver(t)[Decode[i]] = Extension(path, Resolver(t)[Decode[r]])
    BY <1>7, <1>8, ResolverFacts
  <2>2. s = Resolver(t)[Decode[r]]
    BY DEF s, r, Seen
  <2> QED
    BY <1>6, <2>1, <2>2 DEF Own
<1>10. RlpEncoded[b] = i
  <2>1. \A p, d : b = Extension(p, d) =>
          RlpEncoded[b] = Pair(EncodePath(p, FALSE), Ref(d, RlpEncoded[d]))
    <3> HIDE DEF b
    <3> QED
      BY <1>1, <1>4, RlpFacts
  <2>2. RlpEncoded[b] = Pair(e, Ref(s, RlpEncoded[s]))
    BY <2>1, Zenon DEF e
  <2> QED
    BY <1>2, <2>2
<1>11. Agrees(t, f, b)
  <2> SUFFICES ASSUME NEW key \in Seq(Nibbles)
               PROVE  /\ Get[b][key] \in {Get[f][key], Panic}
                      /\ Known(t, PathNodes[f][key]) => Get[b][key] = Get[f][key]
    BY DEF Agrees
  <2> DEFINE rest == Rest(key, Len(path))
  <2>1. f \in Node /\ b \in Node
    BY <1>1, <1>4
  <2>2. /\ Get[f][key] = IF IsPrefix(path, key) THEN Get[c][rest] ELSE NotFound
        /\ Get[b][key] = IF IsPrefix(path, key) THEN Get[s][rest] ELSE NotFound
    BY <2>1, GetFacts
  <2>3. CASE IsPrefix(path, key)
    <3>1. Len(path) \in 0..Len(key)
      BY <2>3, LenProperties DEF IsPrefix
    <3>2. rest \in Seq(Nibbles)
      BY <3>1, RestFacts
    <3>3. PathNodes[c][rest] \subseteq PathNodes[f][key]
      BY <2>1, <2>3, PathFacts
    <3> HIDE DEF rest, f, b
    <3>4. /\ Get[s][rest] \in {Get[c][rest], Panic}
          /\ Known(t, PathNodes[c][rest]) => Get[s][rest] = Get[c][rest]
      BY <1>2, <3>2 DEF Agrees
    <3>5. Known(t, PathNodes[f][key]) => Known(t, PathNodes[c][rest])
      BY <3>3 DEF Known
    <3> QED
      BY <2>2, <2>3, <3>4, <3>5
  <2>4. CASE ~IsPrefix(path, key)
    BY <2>2, <2>4
  <2> QED
    BY <2>3, <2>4
<1> HIDE DEF f, i, b
<1>12. OwnFaithful(t, h, f)
  BY <1>4, <1>5, <1>6, <1>9, <1>10, <1>11 DEF OwnFaithful
<1> QED
  BY <1>12 DEF f

\* A branch is read back with what its children's references become.
LEMMA OwnOfBranch ==
  ASSUME NEW t, Table(t), NEW h \in 0..KeyLength, NEW cs, cs = [n \in Nibbles |-> cs[n]],
         \A n \in Nibbles : SeenFaithful(t, NodesUnder(Nodes, h), ItemsUnder(Encoded, h), cs[n])
  PROVE  OwnFaithful(t, h, Branch(cs))
<1> DEFINE f == Branch(cs)
           rs == [n \in Nibbles |-> Ref(cs[n], RlpEncoded[cs[n]])]
           i == List(rs)
           ss == [n \in Nibbles |-> Seen(t, cs[n])]
           b == Branch(ss)
<1>1. Nodes[h] \subseteq Node /\ Encoded[h] \subseteq Item
  BY HeightMonotonic, TrieAssumption DEF Node, Item, Referenced
<1>2. \A n \in Nibbles :
        /\ cs[n] \in NodesUnder(Nodes, h) /\ ss[n] \in NodesUnder(Nodes, h)
        /\ rs[n] \in ItemsUnder(Encoded, h)
        /\ Ref(ss[n], RlpEncoded[ss[n]]) = rs[n] /\ Agrees(t, cs[n], ss[n])
  BY DEF SeenFaithful
<1>3. /\ cs \in [Nibbles -> NodesUnder(Nodes, h)] /\ ss \in [Nibbles -> NodesUnder(Nodes, h)]
      /\ rs \in [Nibbles -> ItemsUnder(Encoded, h)]
  BY <1>2
<1>4. ss = [n \in Nibbles |-> Resolver(t)[Decode[rs[n]]]]
  BY DEF Seen
<1>5. rs = [n \in Nibbles |-> Ref(ss[n], RlpEncoded[ss[n]])]
  <2>1. rs = [n \in Nibbles |-> rs[n]]
    OBVIOUS
  <2> HIDE DEF rs, ss
  <2> QED
    BY <1>2, <2>1
<1>6. f \in Nodes[h] /\ b \in Nodes[h] /\ f.kind = "branch" /\ b.kind = "branch"
  <2> HIDE DEF ss
  <2> QED
    BY <1>3, NodeCases DEF Branch
<1>7. RlpEncoded[f] = i
  BY <1>1, <1>6, RlpFacts
<1> HIDE DEF ss, rs
<1>8. i \in Encoded[h]
  BY <1>3, ItemCases
<1>9. Decode[i] = Branch([n \in Nibbles |-> Decode[rs[n]]])
  BY <1>1, <1>8, DecodeFacts
<1>10. Decode[i] \in Node
  BY <1>1, <1>8, DecodeType
<1>11. Own(t, f) = b
  <2> DEFINE ds == [n \in Nibbles |-> Decode[rs[n]]]
  <2>1. Resolver(t)[Decode[i]] = Branch([n \in Nibbles |-> Resolver(t)[ds[n]]])
    <3> HIDE DEF ds
    <3>1. Decode[i] = Branch(ds)
      BY <1>9 DEF ds
    <3> QED
      BY <1>10, <3>1, ResolverFacts
  <2>2. [n \in Nibbles |-> Resolver(t)[ds[n]]] = ss
    BY <1>4
  <2> QED
    BY <1>7, <2>1, <2>2 DEF Own
<1>12. RlpEncoded[b] = i
  <2>1. RlpEncoded[b] = List([n \in Nibbles |-> Ref(ss[n], RlpEncoded[ss[n]])])
    BY <1>1, <1>6, RlpFacts
  <2> QED
    BY <1>5, <2>1
<1>13. Agrees(t, f, b)
  <2> SUFFICES ASSUME NEW key \in Seq(Nibbles)
               PROVE  /\ Get[b][key] \in {Get[f][key], Panic}
                      /\ Known(t, PathNodes[f][key]) => Get[b][key] = Get[f][key]
    BY DEF Agrees
  <2> DEFINE n == key[1]  rest == Rest(key, 1)
  <2>1. f \in Node /\ b \in Node
    BY <1>1, <1>6
  <2>2. /\ Get[f][key] = IF key = <<>> THEN NotFound ELSE Get[cs[n]][rest]
        /\ Get[b][key] = IF key = <<>> THEN NotFound ELSE Get[ss[n]][rest]
    BY <2>1, GetFacts
  <2>3. CASE key # <<>>
    <3>1. n \in Nibbles /\ 1 \in 0..Len(key)
      BY <2>3, EmptySeq, ElementOfSeq
    <3>2. rest \in Seq(Nibbles)
      BY <3>1, RestFacts
    <3>3. PathNodes[cs[n]][rest] \subseteq PathNodes[f][key]
      BY <2>1, <2>3, PathFacts
    <3> HIDE DEF rest, n, f, b
    <3>4. /\ Get[ss[n]][rest] \in {Get[cs[n]][rest], Panic}
          /\ Known(t, PathNodes[cs[n]][rest]) => Get[ss[n]][rest] = Get[cs[n]][rest]
      BY <1>2, <3>1, <3>2 DEF Agrees
    <3>5. Known(t, PathNodes[f][key]) => Known(t, PathNodes[cs[n]][rest])
      BY <3>3 DEF Known
    <3> QED
      BY <2>2, <2>3, <3>4, <3>5
  <2>4. CASE key = <<>>
    BY <2>2, <2>4
  <2> QED
    BY <2>3, <2>4
<1> HIDE DEF f, i, b
<1>14. OwnFaithful(t, h, f)
  BY <1>6, <1>7, <1>8, <1>11, <1>12, <1>13 DEF OwnFaithful
<1> QED
  BY <1>14 DEF f
\* A node that is faithful at a height is so as a child of a higher one.
LEMMA ChildFaithful ==
  ASSUME NEW t, Table(t), NEW h \in 0..KeyLength, NEW j \in 0..KeyLength, j < h,
         NEW f, OwnFaithful(t, j, f)
  PROVE  SeenFaithful(t, NodesUnder(Nodes, h), ItemsUnder(Encoded, h), f)
<1>1. SeenFaithful(t, Nodes[j], Referenced(Encoded[j]), f)
  BY SeenFromOwn
<1>2. h - 1 \in 0..KeyLength /\ j \in 0..(h - 1) /\ h # 0
  BY TrieAssumption
<1>3. Nodes[j] \subseteq Nodes[h - 1] /\ Encoded[j] \subseteq Encoded[h - 1]
  BY <1>2, HeightMonotonic
<1>4. Nodes[j] \subseteq NodesUnder(Nodes, h)
      /\ Referenced(Encoded[j]) \subseteq ItemsUnder(Encoded, h)
  BY <1>2, <1>3, OverMonotonic DEF NodesUnder, ItemsUnder
<1> QED
  BY <1>1, <1>4 DEF SeenFaithful

\* Every node of the full trie survives reading and resolving, by induction from
\* the ends of the keys.
LEMMA FullTrieFaithful ==
  ASSUME NEW t, Table(t), NEW entries \in Contents
  PROVE  \A p \in Positions : OwnFaithful(t, KeyLength - Len(p), At(entries)[p])
<1> DEFINE A == At(entries)
           S == {p \in Positions : OwnFaithful(t, KeyLength - Len(p), A[p])}
<1>0. KeyLength \in Nat /\ \A p \in Positions : Len(p) \in 0..KeyLength
  BY PositionFacts, TrieAssumption
<1>1. ASSUME NEW p \in Positions, \A r \in Positions : Len(r) > Len(p) => r \in S
      PROVE  OwnFaithful(t, KeyLength - Len(p), A[p])
  <2> DEFINE h == KeyLength - Len(p)
  <2>1. h \in 0..KeyLength
    BY <1>0
  <2>2. A[p] = AtOf(entries, A, p)
    BY AtDef
  <2>3. ASSUME NEW r \in Positions, Len(r) > Len(p)
        PROVE  SeenFaithful(t, NodesUnder(Nodes, h), ItemsUnder(Encoded, h), A[r])
    <3> DEFINE j == KeyLength - Len(r)
    <3>1. j \in 0..KeyLength /\ j < h
      BY <1>0, <2>3
    <3>2. OwnFaithful(t, j, A[r])
      BY <1>1, <2>3
    <3> HIDE DEF j, h, A
    <3> QED
      BY <2>1, <3>1, <3>2, ChildFaithful
  <2>4. /\ Under(entries, p) \subseteq Keys
        /\ \A k \in Under(entries, p) : entries[k] \in Values
    BY DEF Contents, Under
  <2>5. \A k \in Under(entries, p) : k \in Seq(Nibbles) /\ Len(k) = KeyLength
    BY <2>4, KeyFacts
  <2> HIDE DEF h, A
  <2>6. ASSUME NoKey(entries, p) PROVE OwnFaithful(t, h, A[p])
    <3>1. A[p] = Null
      BY <2>2, <2>6 DEF NoKey
    <3> QED
      BY <2>1, <3>1, OwnOfEnds
  <2>7. ASSUME NEW k \in Under(entries, p), OneKey(entries, p, k) PROVE OwnFaithful(t, h, A[p])
    <3>1. A[p] = Leaf(Rest(k, Len(p)), entries[k])
      BY <2>2, <2>7 DEF OneKey
    <3>2. Rest(k, Len(p)) \in Seq(Nibbles) /\ entries[k] \in Values
      BY <1>0, <2>4, <2>5, RestFacts
    <3> QED
      BY <2>1, <3>1, <3>2, OwnOfEnds
  <2>8. ASSUME NEW k \in Under(entries, p), NEW n \in (Len(p) + 1)..KeyLength,
               Sharing(entries, p, k, n)
        PROVE  OwnFaithful(t, h, A[p])
    <3> DEFINE path == SubSeq(k, Len(p) + 1, n)  r == SubSeq(k, 1, n)
    <3>1. A[p] = Extension(path, A[r])
      BY <2>2, <2>8 DEF Sharing
    <3>2. r \in Positions /\ Len(r) > Len(p)
      BY <1>0, <2>4, BeyondFacts
    <3>3. path \in Seq(Nibbles)
      <4>1. Len(p) + 1 \in Int /\ n \in Int /\ \A i \in (Len(p) + 1)..n : k[i] \in Nibbles
        BY <1>0, <2>5, ElementOfSeq
      <4> QED
        BY <4>1, SubSeqProperties
    <3>4. SeenFaithful(t, NodesUnder(Nodes, h), ItemsUnder(Encoded, h), A[r])
      BY <2>3, <3>2
    <3> HIDE DEF path, r
    <3> QED
      BY <2>1, <3>1, <3>3, <3>4, OwnOfExtension
  <2>9. ASSUME Parting(entries, p) PROVE OwnFaithful(t, h, A[p])
    <3> DEFINE cs == [n \in Nibbles |-> A[Append(p, n)]]
    <3>1. A[p] = Branch(cs)
      BY <2>2, <2>9 DEF Parting
    <3>2. \A n \in Nibbles : Append(p, n) \in Positions /\ Len(Append(p, n)) > Len(p)
      BY <1>0, <2>9, BeyondFacts DEF Parting
    <3>3. \A n \in Nibbles : SeenFaithful(t, NodesUnder(Nodes, h), ItemsUnder(Encoded, h), cs[n])
      BY <2>3, <3>2
    <3>4. cs = [n \in Nibbles |-> cs[n]]
      OBVIOUS
    <3> HIDE DEF cs
    <3> QED
      BY <2>1, <3>1, <3>3, <3>4, OwnOfBranch
  <2> QED
    BY <2>6, <2>7, <2>8, <2>9, AtCases DEF h
<1>2. \A p \in Positions : p \in S
  <2>1. \A p \in Positions : (\A r \in Positions : Len(r) > Len(p) => r \in S) => p \in S
    BY <1>1
  <2> HIDE DEF S
  <2> QED
    BY <2>1, PositionInduction
<1> QED
  BY <1>2

\* What is right for a key.
RightIn(entries, k) == IF k \in DOMAIN entries THEN entries[k] ELSE NotFound

\* The full trie answers every key as the map does, at every position on its way.
LEMMA FullTrieAnswers ==
  ASSUME NEW entries \in Contents
  PROVE  \A p \in Positions : \A k \in Keys :
           IsPrefix(p, k) => Get[At(entries)[p]][Rest(k, Len(p))] = RightIn(entries, k)
<1> DEFINE A == At(entries)
           Answers(p) == \A k \in Keys :
             IsPrefix(p, k) => Get[A[p]][Rest(k, Len(p))] = RightIn(entries, k)
           S == {p \in Positions : Answers(p)}
<1>0. KeyLength \in Nat /\ \A p \in Positions : p \in Seq(Nibbles) /\ Len(p) \in 0..KeyLength
  BY PositionFacts, TrieAssumption
<1>1. \A p \in Positions : A[p] \in Node
  <2>1. Table({})
    BY DEF Table
  <2>2. ASSUME NEW p \in Positions PROVE A[p] \in Node
    <3>1. OwnFaithful({}, KeyLength - Len(p), A[p])
      BY <2>1, FullTrieFaithful
    <3>2. KeyLength - Len(p) \in 0..KeyLength
      BY <1>0
    <3>3. A[p] \in Nodes[KeyLength - Len(p)]
      BY <3>1 DEF OwnFaithful
    <3> QED
      BY <3>2, <3>3, HeightMonotonic, TrieAssumption DEF Node
  <2> QED
    BY <2>2
<1>2. \A k \in Keys : k \in Seq(Nibbles) /\ Len(k) = KeyLength
  BY KeyFacts
<1>3. ASSUME NEW p \in Positions, \A r \in Positions : Len(r) > Len(p) => r \in S,
             NEW k \in Keys, IsPrefix(p, k)
      PROVE  Get[A[p]][Rest(k, Len(p))] = RightIn(entries, k)
  <2> DEFINE m == Len(p)  rest == Rest(k, m)
  <2>1. A[p] = AtOf(entries, A, p) /\ A[p] \in Node
    BY <1>1, AtDef
  <2>2. k \in DOMAIN entries <=> k \in Under(entries, p)
    BY <1>3 DEF Under
  <2>3. Under(entries, p) \subseteq Keys /\ \A l \in Under(entries, p) : IsPrefix(p, l)
    BY DEF Contents, Under
  <2>4. m \in 0..KeyLength /\ m \in 0..Len(k)
    BY <1>0, <1>2
  <2>5. /\ rest \in Seq(Nibbles) /\ Len(rest) = KeyLength - m
        /\ \A i \in 1..(KeyLength - m) : rest[i] = k[m + i]
    BY <1>2, <2>4, RestFacts
  <2> HIDE DEF A, rest
  <2>6. ASSUME NoKey(entries, p) PROVE Get[A[p]][rest] = RightIn(entries, k)
    <3>1. A[p] = Null /\ k \notin DOMAIN entries
      BY <2>1, <2>2, <2>6 DEF NoKey
    <3> QED
      BY <2>1, <2>5, <3>1, GetFacts DEF RightIn
  <2>7. ASSUME NEW l \in Under(entries, p), OneKey(entries, p, l)
        PROVE  Get[A[p]][rest] = RightIn(entries, k)
    <3>1. A[p] = Leaf(Rest(l, m), entries[l])
      BY <2>1, <2>7 DEF OneKey
    <3>2. Get[A[p]][rest] = IF Rest(l, m) = rest THEN entries[l] ELSE NotFound
      BY <2>1, <2>5, <3>1, GetFacts
    <3>3. Rest(l, m) = rest <=> k = l
      <4>1. l \in Seq(Nibbles) /\ Len(l) = KeyLength /\ IsPrefix(p, l)
        BY <1>2, <2>3
      <4>2. \A i \in 1..m : p[i] = l[i] /\ p[i] = k[i]
        BY <1>0, <1>2, <1>3, <4>1, PrefixPoints
      <4>3. \A i \in 1..(KeyLength - m) : Rest(l, m)[i] = l[m + i]
        BY <2>4, <4>1, RestFacts
      <4>4. ASSUME Rest(l, m) = rest PROVE k = l
        <5>1. ASSUME NEW i \in 1..KeyLength PROVE k[i] = l[i]
          <6>1. CASE i <= m
            BY <4>2, <6>1, <2>4
          <6>2. CASE i > m
            <7>1. i - m \in 1..(KeyLength - m) /\ m + (i - m) = i
              BY <2>4, <6>2, <1>0
            <7> QED
              BY <2>5, <4>3, <4>4, <7>1
          <6> QED
            BY <6>1, <6>2, <2>4
        <5> QED
          BY <1>2, <4>1, <5>1, SeqEqual
      <4> QED
        BY <4>4 DEF rest
    <3>4. k \in DOMAIN entries <=> k = l
      BY <2>2, <2>7 DEF OneKey
    <3> QED
      BY <3>2, <3>3, <3>4 DEF RightIn
  <2>8. ASSUME NEW l \in Under(entries, p), NEW n \in (m + 1)..KeyLength,
               Sharing(entries, p, l, n)
        PROVE  Get[A[p]][rest] = RightIn(entries, k)
    <3> DEFINE path == SubSeq(l, m + 1, n)  r == SubSeq(l, 1, n)
    <3>1. A[p] = Extension(path, A[r])
      BY <2>1, <2>8 DEF Sharing
    <3>2. r \in Positions /\ Len(r) = n /\ n > m /\ n \in 0..KeyLength
      BY <1>0, <2>3, <2>4, BeyondFacts
    <3>3. l \in Seq(Nibbles) /\ Len(l) = KeyLength /\ IsPrefix(p, l)
      BY <1>2, <2>3
    <3>4. /\ path \in Seq(Nibbles) /\ Len(path) = n - m
          /\ \A i \in 1..(n - m) : path[i] = l[m + i]
      <4>1. m + 1 \in Int /\ n \in Int /\ \A i \in (m + 1)..n : l[i] \in Nibbles
        BY <2>4, <3>2, <3>3, ElementOfSeq
      <4>2. /\ path \in Seq(Nibbles)
            /\ Len(path) = IF m + 1 <= n THEN n - (m + 1) + 1 ELSE 0
            /\ \A i \in 1..(n - (m + 1) + 1) : path[i] = l[(m + 1) + i - 1]
        BY <4>1, SubSeqProperties
      <4> QED
        BY <2>4, <3>2, <4>2
    <3>5. \A i \in 1..n : r[i] = l[i]
      BY <3>2, <3>3, BeginFacts
    <3>6. \A i \in 1..m : p[i] = l[i] /\ p[i] = k[i]
      BY <1>0, <1>2, <1>3, <3>3, PrefixPoints
    <3> HIDE DEF path, r
    <3>7. Get[A[p]][rest] = IF IsPrefix(path, rest) THEN Get[A[r]][Rest(rest, Len(path))] ELSE NotFound
      BY <2>1, <2>5, <3>1, GetFacts
    <3>8. IsPrefix(path, rest) <=> IsPrefix(r, k)
      <4>1. IsPrefix(path, rest) <=> \A i \in 1..(n - m) : l[m + i] = k[m + i]
        <5>0. path \in Seq(Nibbles) /\ rest \in Seq(Nibbles)
          BY <2>5, <3>4
        <5>1. IsPrefix(path, rest) <=>
                Len(path) <= Len(rest) /\ \A i \in 1..Len(path) : path[i] = rest[i]
          BY <5>0, PrefixPoints
        <5>2. Len(path) <= Len(rest)
          BY <2>4, <2>5, <3>2, <3>4, <1>0
        <5>3. \A i \in 1..(n - m) : i \in 1..(KeyLength - m)
          BY <2>4, <3>2, <1>0
        <5> QED
          BY <2>5, <3>4, <5>1, <5>2, <5>3
      <4>2. IsPrefix(r, k) <=> \A i \in 1..n : l[i] = k[i]
        <5>0. r \in Seq(Nibbles) /\ k \in Seq(Nibbles)
          BY <1>0, <1>2, <3>2
        <5>1. IsPrefix(r, k) <=> Len(r) <= Len(k) /\ \A i \in 1..Len(r) : r[i] = k[i]
          BY <5>0, PrefixPoints
        <5>2. Len(r) <= Len(k)
          BY <1>0, <1>2, <3>2
        <5> QED
          BY <3>2, <3>5, <5>1, <5>2
      <4>3. ASSUME \A i \in 1..(n - m) : l[m + i] = k[m + i], NEW i \in 1..n
            PROVE  l[i] = k[i]
        <5>1. CASE i <= m
          BY <3>6, <5>1
        <5>2. CASE i > m
          <6>1. i - m \in 1..(n - m) /\ m + (i - m) = i
            BY <2>4, <3>2, <5>2
          <6> QED
            BY <4>3, <6>1
        <5> QED
          BY <5>1, <5>2, <2>4
      <4>4. ASSUME \A i \in 1..n : l[i] = k[i], NEW i \in 1..(n - m)
            PROVE  l[m + i] = k[m + i]
        <5>1. m + i \in 1..n
          BY <2>4, <3>2
        <5> QED
          BY <4>4, <5>1
      <4> QED
        BY <4>1, <4>2, <4>3, <4>4
    <3>9. CASE IsPrefix(r, k)
      <4>1. Get[A[r]][Rest(k, n)] = RightIn(entries, k)
        BY <1>3, <3>2, <3>9 DEF A
      <4>2. Rest(rest, n - m) = Rest(k, n)
        <5>1. n - m \in 0..Len(rest) /\ n \in 0..Len(k)
          BY <1>2, <2>4, <2>5, <3>2
        <5>2. /\ Rest(rest, n - m) \in Seq(Nibbles)
              /\ Len(Rest(rest, n - m)) = Len(rest) - (n - m)
              /\ \A i \in 1..(Len(rest) - (n - m)) : Rest(rest, n - m)[i] = rest[(n - m) + i]
          <6>1. rest \in Seq(Nibbles)
            BY <2>5
          <6> QED
            BY <5>1, <6>1, RestFacts
        <5>3. /\ Rest(k, n) \in Seq(Nibbles) /\ Len(Rest(k, n)) = KeyLength - n
              /\ \A i \in 1..(KeyLength - n) : Rest(k, n)[i] = k[n + i]
          BY <1>2, <5>1, RestFacts
        <5>4. Len(rest) - (n - m) = KeyLength - n
          BY <2>4, <2>5, <3>2, <1>0
        <5>5. ASSUME NEW i \in 1..(KeyLength - n) PROVE rest[(n - m) + i] = k[n + i]
          <6>1. (n - m) + i \in 1..(KeyLength - m) /\ m + ((n - m) + i) = n + i
            BY <2>4, <3>2, <1>0
          <6> QED
            BY <2>5, <6>1
        <5> QED
          BY <5>2, <5>3, <5>4, <5>5, SeqEqual
      <4> QED
        BY <3>4, <3>7, <3>8, <3>9, <4>1, <4>2
    <3>10. CASE ~IsPrefix(r, k)
      <4>1. k \notin Under(entries, p)
        <5>1. ASSUME k \in Under(entries, p) PROVE IsPrefix(r, k)
          <6>1. SubSeq(k, 1, n) = r
            BY <2>8, <5>1 DEF Sharing, r
          <6>2. \A i \in 1..n : r[i] = k[i]
            BY <1>2, <3>2, <6>1, BeginFacts
          <6> QED
            BY <1>0, <1>2, <3>2, <6>2, PrefixPoints
        <5> QED
          BY <3>10, <5>1
      <4> QED
        BY <2>2, <3>7, <3>8, <3>10, <4>1 DEF RightIn
    <3> QED
      BY <3>9, <3>10
  <2>9. ASSUME Parting(entries, p) PROVE Get[A[p]][rest] = RightIn(entries, k)
    <3> DEFINE cs == [n \in Nibbles |-> A[Append(p, n)]]  n == rest[1]  r == Append(p, n)
    <3>1. A[p] = Branch(cs) /\ m < KeyLength
      BY <2>1, <2>9 DEF Parting
    <3>2. rest # <<>> /\ n \in Nibbles /\ n = k[m + 1]
      <4>1. Len(rest) # 0 /\ 1 \in 1..Len(rest) /\ 1 \in 1..(KeyLength - m)
        BY <2>4, <2>5, <3>1, <1>0
      <4>2. rest # <<>>
        BY <4>1, EmptySeq
      <4> QED
        BY <2>5, <4>1, <4>2, ElementOfSeq
    <3>3. Get[A[p]][rest] = Get[cs[n]][Rest(rest, 1)]
      <4> HIDE DEF cs
      <4> QED
        BY <2>1, <2>5, <3>1, <3>2, GetFacts
    <3>4. cs[n] = A[r]
      BY <3>2
    <3>5. r \in Positions /\ Len(r) = m + 1
      BY <3>1, <3>2, BeyondFacts
    <3>6. IsPrefix(r, k)
      <4>1. \A i \in 1..m : p[i] = k[i]
        BY <1>0, <1>2, <1>3, PrefixPoints
      <4>2. (\A i \in 1..m : r[i] = p[i]) /\ r[m + 1] = n
        BY <1>0, <3>2, AppendProperties
      <4>3. \A i \in 1..(m + 1) : r[i] = k[i]
        <5> HIDE DEF n, r
        <5>1. \A i \in 1..(m + 1) : i \in 1..m \/ i = m + 1
          BY <2>4
        <5> QED
          BY <3>2, <4>1, <4>2, <5>1
      <4> HIDE DEF r
      <4> QED
        BY <1>0, <1>2, <2>4, <3>1, <3>5, <4>3, PrefixPoints
    <3>7. Get[A[r]][Rest(k, m + 1)] = RightIn(entries, k)
      <4>1. Len(r) > m
        BY <2>4, <3>5
      <4> HIDE DEF r
      <4> QED
        BY <1>3, <3>5, <3>6, <4>1 DEF A
    <3>8. Rest(rest, 1) = Rest(k, m + 1)
      <4>1. 1 \in 0..Len(rest) /\ m + 1 \in 0..Len(k)
        BY <1>0, <1>2, <2>4, <2>5, <3>1
      <4>2. /\ Rest(rest, 1) \in Seq(Nibbles) /\ Len(Rest(rest, 1)) = Len(rest) - 1
            /\ \A i \in 1..(Len(rest) - 1) : Rest(rest, 1)[i] = rest[1 + i]
        <5>1. \A j \in 0..Len(rest) :
                /\ Rest(rest, j) \in Seq(Nibbles) /\ Len(Rest(rest, j)) = Len(rest) - j
                /\ \A i \in 1..(Len(rest) - j) : Rest(rest, j)[i] = rest[j + i]
          <6>1. rest \in Seq(Nibbles)
            BY <2>5
          <6> QED
            BY <6>1, RestFacts
        <5> QED
          BY <4>1, <5>1
      <4>3. /\ Rest(k, m + 1) \in Seq(Nibbles) /\ Len(Rest(k, m + 1)) = Len(k) - (m + 1)
            /\ \A i \in 1..(Len(k) - (m + 1)) : Rest(k, m + 1)[i] = k[(m + 1) + i]
        BY <1>2, <4>1, RestFacts
      <4>4. Len(rest) - 1 = KeyLength - (m + 1) /\ Len(k) - (m + 1) = KeyLength - (m + 1)
        BY <1>0, <1>2, <2>4, <2>5
      <4>5. ASSUME NEW i \in 1..(KeyLength - (m + 1)) PROVE rest[1 + i] = k[(m + 1) + i]
        <5>1. 1 + i \in 1..(KeyLength - m) /\ m + (1 + i) = (m + 1) + i
          BY <1>0, <2>4
        <5> QED
          BY <2>5, <5>1
      <4> DEFINE a == Rest(rest, 1)  b == Rest(k, m + 1)
      <4>6. a \in Seq(Nibbles) /\ b \in Seq(Nibbles) /\ Len(a) = Len(b)
            /\ \A i \in 1..Len(a) : a[i] = b[i]
        BY <4>2, <4>3, <4>4, <4>5
      <4> HIDE DEF a, b
      <4>7. a = b
        BY <4>6, SeqEqual
      <4> QED
        BY <4>7 DEF a, b
    <3> QED
      BY <3>3, <3>4, <3>7, <3>8
  <2>10. Get[A[p]][rest] = RightIn(entries, k)
    BY <2>6, <2>7, <2>8, <2>9, AtCases
  <2> QED
    BY <2>10 DEF A, rest
<1>4. \A p \in Positions : p \in S
  <2>1. \A p \in Positions : (\A r \in Positions : Len(r) > Len(p) => r \in S) => p \in S
    BY <1>3
  <2> HIDE DEF S
  <2> QED
    BY <2>1, PositionInduction
<1> QED
  BY <1>4
-----------------------------------------------------------------------------
(* from_rlp_nodes *)

\* The nodes read so far are those of the proofs that are not pending, and the
\* result is the root, read and resolved with them, once none is.
Inv ==
  /\ content \in Contents /\ asked \subseteq Keys
  /\ root = RlpEncoded[FullTrie(content)]
  /\ pending \subseteq ProofNodes(content, asked)
  /\ nodesByHash = UNION {Parsed(i) : i \in (ProofNodes(content, asked) \cup {root}) \ pending}
  /\ built => pending = {} /\ trie = ResolveTrie(Decode[root], nodesByHash)

\* Every step keeps the account of the nodes read, for any trie and any order.
THEOREM Invariance == Spec => []Inv
<1>1. Init => Inv
  <2> SUFFICES ASSUME Init PROVE Inv
    OBVIOUS
  <2> DEFINE P == ProofNodes(content, asked)
  <2>1. /\ content \in Contents /\ asked \subseteq Keys
        /\ root = RlpEncoded[FullTrie(content)]
        /\ pending = P \ {root} /\ nodesByHash = Parsed(root) /\ ~built
    BY DEF Init
  <2> HIDE DEF P
  <2>2. (P \cup {root}) \ pending = {root}
    BY <2>1
  <2>3. UNION {Parsed(i) : i \in {root}} = Parsed(root)
    OBVIOUS
  <2> QED
    BY <2>1, <2>2, <2>3 DEF Inv, P
<1>2. Inv /\ [Next]_vars => Inv'
  <2> SUFFICES ASSUME Inv, [Next]_vars PROVE Inv'
    OBVIOUS
  <2> DEFINE P == ProofNodes(content, asked)
  <2>1. ASSUME ReadNode PROVE Inv'
    <3>1. PICK item \in pending : nodesByHash' = nodesByHash \cup Parsed(item)
                                  /\ pending' = pending \ {item}
      BY <2>1 DEF ReadNode
    <3>2. ~built /\ content' = content /\ asked' = asked /\ root' = root /\ ~built'
      BY <2>1 DEF ReadNode
    <3>3. P' = P
      BY <3>2
    <3> DEFINE old == (P \cup {root}) \ pending  new == (P \cup {root}) \ pending'
    <3>4. new = old \cup {item}
      BY <3>1 DEF Inv
    <3>5. nodesByHash = UNION {Parsed(i) : i \in old}
      BY DEF Inv
    <3> HIDE DEF old, new, P
    <3>6. nodesByHash' = UNION {Parsed(i) : i \in new}
      BY <3>1, <3>4, <3>5
    <3>7. pending' \subseteq P
      BY <3>1 DEF Inv, P
    <3> QED
      BY <3>2, <3>3, <3>6, <3>7 DEF Inv, P, new
  <2>2. ASSUME Resolve PROVE Inv'
    BY <2>2 DEF Inv, Resolve
  <2>3. ASSUME UNCHANGED vars PROVE Inv'
    BY <2>3 DEF Inv, vars
  <2> QED
    BY <2>1, <2>2, <2>3 DEF Next
<1> QED
  BY <1>1, <1>2, PTL DEF Spec

\* A trie that has been built is the full trie's root, resolved: it is as faithful
\* to the full trie as any node of it, for the keys of the proofs that were read.
LEMMA Built ==
  ASSUME Inv, built
  PROVE  /\ FullTrie(content) \in Node /\ FullTrie(content).kind # "digest"
         /\ trie.kind = FullTrie(content).kind
         /\ RlpEncoded[trie] = RlpEncoded[FullTrie(content)]
         /\ Agrees(nodesByHash, FullTrie(content), trie)
         /\ \A k \in asked : Known(nodesByHash, PathNodes[FullTrie(content)][k])
         /\ \A k \in Keys : Get[FullTrie(content)][k] = Right(k)
<1> DEFINE t == nodesByHash  f == FullTrie(content)
<1>1. /\ content \in Contents /\ root = RlpEncoded[f]
      /\ t = UNION {Parsed(i) : i \in ProofNodes(content, asked) \cup {root}}
      /\ trie = ResolveTrie(Decode[root], t)
  BY DEF Inv
<1>2. Table(t)
  <2>1. ASSUME NEW e \in t PROVE \E i : e = <<Hash(i), Decode[i]>>
    <3>1. PICK i : e \in Parsed(i)
      BY <1>1
    <3> QED
      BY <3>1 DEF Parsed
  <2> QED
    BY <2>1 DEF Table
<1>3. trie = Own(t, f)
  BY <1>1, <1>2, ResolverDef DEF Own
<1>4. /\ <<>> \in Positions /\ Len(<<>>) = 0
      /\ \A k \in Seq(Nibbles) : IsPrefix(<<>>, k)
  <2> DEFINE e == <<>>
  <2>1. e \in Seq(Nibbles) /\ Len(e) = 0
    BY EmptySeq
  <2> HIDE DEF e
  <2>2. Len(e) \in 0..KeyLength
    BY <2>1, TrieAssumption
  <2>3. e \in Positions
    BY <2>1, <2>2, PositionFacts
  <2>4. ASSUME NEW k \in Seq(Nibbles) PROVE IsPrefix(e, k)
    <3>1. Len(k) \in Nat
      BY LenProperties
    <3>2. Len(e) <= Len(k) /\ \A i \in 1..Len(e) : e[i] = k[i]
      BY <2>1, <3>1
    <3>3. e \in Seq(Nibbles) /\ k \in Seq(Nibbles)
      BY <2>1
    <3> QED
      BY <3>2, <3>3, PrefixPoints
  <2> QED
    BY <2>1, <2>3, <2>4 DEF e
<1>5. OwnFaithful(t, KeyLength, f)
  <2>1. f = At(content)[<<>>] /\ KeyLength - 0 = KeyLength
    BY <1>1, AtDef, TrieAssumption
  <2>2. OwnFaithful(t, KeyLength - Len(<<>>), At(content)[<<>>])
    BY <1>1, <1>2, <1>4, FullTrieFaithful
  <2> QED
    BY <1>4, <2>1, <2>2
<1>6. \A k \in asked : Known(t, PathNodes[f][k])
  BY <1>1 DEF Known, ProofNodes
<1>7. ASSUME NEW k \in Keys PROVE Get[f][k] = Right(k)
  <2>1. k \in Seq(Nibbles) /\ IsPrefix(<<>>, k)
    BY <1>4, KeyFacts
  <2>2. Rest(k, 0) = k
    BY <2>1, SubSeqFull DEF Rest
  <2>3. Get[At(content)[<<>>]][Rest(k, Len(<<>>))] = RightIn(content, k)
    BY <1>1, <1>4, <2>1, FullTrieAnswers
  <2> QED
    BY <1>1, <1>4, <2>2, <2>3, AtDef DEF RightIn, Right
<1> HIDE DEF t, f
<1>8. f \in Node
  BY <1>5 DEF OwnFaithful, Node
<1>9. /\ f.kind # "digest" /\ trie.kind = f.kind
      /\ RlpEncoded[trie] = RlpEncoded[f] /\ Agrees(t, f, trie)
  BY <1>3, <1>5 DEF OwnFaithful
<1> QED
  BY <1>6, <1>7, <1>8, <1>9 DEF t, f

\* The root of the sparse trie is that of the full one, whatever was read.
THEOREM RootKept == Spec => []RootPreserved
<1>1. Inv => RootPreserved
  BY Built DEF RootPreserved, HashSlow
<1> QED
  BY <1>1, Invariance, PTL

\* A key a proof was read for is answered, and as the full trie does.
THEOREM ProofsSuffice == Spec => []AskedAnswered
<1>1. Inv => AskedAnswered
  <2> SUFFICES ASSUME Inv, built, NEW k \in asked PROVE Get[trie][k] = Right(k)
    BY DEF AskedAnswered
  <2>1. k \in Keys /\ k \in Seq(Nibbles)
    BY KeyFacts DEF Inv
  <2>2. Get[trie][k] = Get[FullTrie(content)][k]
    BY <2>1, Built DEF Agrees
  <2> QED
    BY <2>1, <2>2, Built
<1> QED
  BY <1>1, Invariance, PTL

\* A lookup in a partial trie panics rather than answer wrongly.
THEOREM PanicsInstead == Spec => []NeverWrong
<1>1. Inv => NeverWrong
  <2> SUFFICES ASSUME Inv, built, NEW k \in Keys PROVE Get[trie][k] \in {Right(k), Panic}
    BY DEF NeverWrong
  <2>1. k \in Seq(Nibbles)
    BY KeyFacts
  <2>2. Get[trie][k] \in {Get[FullTrie(content)][k], Panic}
    BY <2>1, Built DEF Agrees
  <2> QED
    BY <2>2, Built
<1> QED
  BY <1>1, Invariance, PTL

=============================================================================
