-------------------------- MODULE GuestMerkleTree --------------------------
(***************************************************************************)
(* The airdrop guest: it builds a Merkle tree over the values it is given  *)
(* and commits the root, or panics.  The tree is an array of 2n - 1 hashes *)
(* with the leaves at its end, in reverse order, and the children of node  *)
(* i at 2i + 1 and 2i + 2; the loops of the build are steps here.          *)
(*                                                                         *)
(* keccak256 is injective: a hash is a term that says what was hashed.     *)
(***************************************************************************)
EXTENDS Integers, Sequences, SequencesExt

CONSTANTS Values, MaxLeaves

ASSUME MaxLeavesAssumption == MaxLeaves \in Nat

VARIABLES
  values,      \* the list the host passes
  tree,        \* array of hashes, indexed from 0
  hashLookup,  \* hash of a leaf -> its index
  i,           \* loop variable
  phase,
  root         \* the root in the journal

vars == <<values, tree, hashLookup, i, phase, root>>

Default == [default |-> TRUE]
LeafHash(v) == [leaf |-> v]

\* Faulty variants: the pair is hashed in the order it comes; one half twice.
HashPairUnsorted(l, r) == [pairInOrder |-> <<l, r>>]
HashPairTwice(l, r) == [pair |-> {l}]

\* The two hashes are sorted before they are hashed: their order is lost.
HashPair(l, r) == [pair |-> {l, r}]

LeftChildIndex(k) == 2 * k + 1
RightChildIndex(k) == 2 * k + 2

Lists == BoundedSeq(Values, MaxLeaves)

Init ==
  /\ values \in Lists
  /\ tree = <<>> /\ hashLookup = <<>>
  /\ i = 0
  /\ phase = "start"
  /\ root = Default

TreeLen == 2 * Len(values) - 1

\* main panics when get_root finds the tree empty.
Start ==
  /\ phase = "start"
  /\ IF values = <<>>
     THEN phase' = "panicked" /\ UNCHANGED tree
     ELSE /\ phase' = "leaves"
          /\ tree' = [k \in 0..(TreeLen - 1) |-> Default]
  /\ UNCHANGED <<values, hashLookup, i, root>>

LeafIndex(k) == TreeLen - 1 - k

HashLeaf ==
  /\ phase = "leaves" /\ i < Len(values)
  /\ LET h == LeafHash(values[i + 1])
     IN  /\ tree' = [tree EXCEPT ![LeafIndex(i)] = h]
         /\ hashLookup' = [x \in DOMAIN hashLookup \cup {h} |->
                             IF x = h THEN LeafIndex(i) ELSE hashLookup[x]]
  /\ i' = i + 1
  /\ UNCHANGED <<values, phase, root>>

LeavesDone ==
  /\ phase = "leaves" /\ i = Len(values)
  /\ phase' = "nodes"
  /\ i' = TreeLen - Len(values) - 1
  /\ UNCHANGED <<values, tree, hashLookup, root>>

\* Faulty variant: the last inner node is left out.
NodesFrom(k) == k > 0

\* The loop over the inner nodes runs down to the root.
NodesLeft(k) == k >= 0

HashNode ==
  /\ phase = "nodes" /\ NodesLeft(i)
  /\ tree' = [tree EXCEPT ![i] = HashPair(tree[LeftChildIndex(i)],
                                         tree[RightChildIndex(i)])]
  /\ i' = i - 1
  /\ UNCHANGED <<values, hashLookup, phase, root>>

\* get_root, and the journal is committed.
Commit ==
  /\ phase = "nodes" /\ ~NodesLeft(i)
  /\ phase' = "committed"
  /\ root' = tree[0]
  /\ UNCHANGED <<values, tree, hashLookup, i>>

Next == Start \/ HashLeaf \/ LeavesDone \/ HashNode \/ Commit

Spec == Init /\ [][Next]_vars

-----------------------------------------------------------------------------
(* The verifier of the destination contract: MerkleProof.verifyCalldata of *)
(* OpenZeppelin folds the siblings on the way up with a commutative hash.   *)

CommutativeHash(l, r) == [pair |-> {l, r}]
ProcessProof(proof, leaf) == FoldLeft(CommutativeHash, leaf, proof)

\* The siblings from node k up, as a client who holds the tree lists them.
Parent(k) == (k - 1) \div 2
Sibling(k) == IF k % 2 = 1 THEN k + 1 ELSE k - 1
ProofOf[k \in 0..(TreeLen - 1)] ==
  IF k = 0 THEN <<>> ELSE <<tree[Sibling(k)]>> \o ProofOf[Parent(k)]

\* The root of a list by the recursive definition of the heap layout.
RootOf(list) ==
  LET n == Len(list)
      Node[k \in 0..(2 * n - 2)] ==
        IF k >= n - 1 THEN LeafHash(list[2 * n - 1 - k])
        ELSE HashPair(Node[LeftChildIndex(k)], Node[RightChildIndex(k)])
  IN  Node[0]

Roots == [list \in Lists \ {<<>>} |-> RootOf(list)]

-----------------------------------------------------------------------------
(* Properties *)

\* Every node already passed by the build holds a hash of finished nodes: no
\* place is read before it is written, whatever the number of leaves.
NothingUnhashed ==
  /\ phase = "nodes" => \A k \in (i + 1)..(TreeLen - 1) : tree[k] # Default
  /\ phase = "committed" => root = Roots[values]

\* Every value of the list can be claimed: the siblings above its leaf, at each
\* position it has in the list and where hash_lookup says it is, also when the
\* list repeats it, are a proof the destination contract accepts.
EveryValueProvable ==
  phase = "committed" =>
    \A k \in 0..(Len(values) - 1) :
      LET h == LeafHash(values[k + 1])
      IN  /\ h \in DOMAIN hashLookup
          /\ \A n \in {LeafIndex(k), hashLookup[h]} : ProcessProof(ProofOf[n], h) = root

\* The root stands for the values that may claim: no list of other values, longer or
\* shorter, ordered otherwise or not, has the root the guest commits.
RootFixesValues ==
  phase = "committed" =>
    \A list \in DOMAIN Roots : Roots[list] = root => ToSet(list) = ToSet(values)
=============================================================================
