----------------------------- MODULE MerkleTrie -----------------------------
(***************************************************************************)
(* The sparse Merkle Patricia trie of Steel: from_rlp_nodes builds it from *)
(* the proofs of the keys the host asked for, hash_slow computes its root, *)
(* get answers for a key or panics.                                        *)
(*                                                                         *)
(* Nodes and RLP items are records with a kind.  A hash is a term that     *)
(* says what was hashed.  Lengths are the real ones, in bytes; a payload   *)
(* above 55 bytes has a longer header than is counted, which only matters  *)
(* to items that are hashed anyway.  The items read are those of a chain's *)
(* trie, whose nodes are no deeper than a key is long: the errors for      *)
(* items that are no node are not modelled.                                *)
(***************************************************************************)
EXTENDS Integers, Sequences, FiniteSets, SequencesExt

CONSTANTS
  Nibbles,       \* nibbles the keys are made of
  KeyLength,     \* nibbles of a key
  Keys,
  Values,
  ValueLength,   \* [Values -> Nat]: bytes of the RLP string of a value
  NotFound, Panic,
  MaxAsked       \* keys the host asks for

ASSUME TrieAssumption ==
  /\ Nibbles \subseteq 0..15
  /\ KeyLength \in Nat
  /\ Keys \subseteq [1..KeyLength -> Nibbles]
  /\ ValueLength \in [Values -> Nat \ {0}]
  /\ NotFound \notin Values /\ Panic \notin Values \cup {NotFound}

\* What is left of a path after its first n nibbles.
Rest(path, n) == SubSeq(path, n + 1, Len(path))

-----------------------------------------------------------------------------
(* Paths in RLP *)

\* encode_path_leaf: the first nibble holds the kind of the node and whether
\* the path is odd; an even path is padded.
EncodePath(path, isLeaf) ==
  LET flag == IF isLeaf THEN 2 ELSE 0
  IN  IF Len(path) % 2 = 1 THEN <<flag + 1>> \o path ELSE <<flag, 0>> \o path

\* decode_path: the two bits of the first nibble are taken apart again.
IsLeafPath(nibbles) == (nibbles[1] \div 2) % 2 # 0
DecodePath(nibbles) == IF nibbles[1] % 2 # 0 THEN Rest(nibbles, 1) ELSE Rest(nibbles, 2)

EncodedPaths(isLeaf) ==
  {nibbles \in Seq(0..15) : /\ Len(nibbles) >= 2 /\ IsLeafPath(nibbles) = isLeaf
                            /\ DecodePath(nibbles) \in Seq(Nibbles)}

PathLength(nibbles) == IF Len(nibbles) = 2 THEN 1 ELSE 1 + Len(nibbles) \div 2

-----------------------------------------------------------------------------
(* RLP items and nodes *)

EmptyString == [kind |-> "empty"]
Value(value) == [kind |-> "value", value |-> value]
Pair(path, item) == [kind |-> "pair", path |-> path, item |-> item]
List(items) == [kind |-> "list", items |-> items]     \* [Nibbles -> item]
Hash(item) == [kind |-> "hash", of |-> item]

\* What stands for a node in its parent: its item, or the hash of it.
Referenced(items) == items \cup [kind : {"hash"}, of : items]

\* The items of nodes whose children are referenced by the given items.
ItemsOver(references) ==
  {EmptyString}
  \cup [kind : {"pair"}, path : EncodedPaths(TRUE),
        item : [kind : {"value"}, value : Values]]
  \cup [kind : {"pair"}, path : EncodedPaths(FALSE), item : references]
  \cup [kind : {"list"}, items : [Nibbles -> references]]

\* The items of nodes of a height, with what their hashes are the hashes of.
Encoded[height \in 0..KeyLength] ==
  ItemsOver(IF height = 0 THEN {} ELSE Referenced(Encoded[height - 1]))

Item == Referenced(Encoded[KeyLength])

Null == [kind |-> "null"]
Leaf(path, value) == [kind |-> "leaf", path |-> path, value |-> value]
Extension(path, child) == [kind |-> "extension", path |-> path, child |-> child]
Branch(children) == [kind |-> "branch", children |-> children]  \* [Nibbles -> node]
Digest(hash) == [kind |-> "digest", hash |-> hash]

NodesOver(children, items) ==
  {Null}
  \cup [kind : {"leaf"}, path : Seq(Nibbles), value : Values]
  \cup [kind : {"extension"}, path : Seq(Nibbles), child : children]
  \cup [kind : {"branch"}, children : [Nibbles -> children]]
  \cup [kind : {"digest"}, hash : [kind : {"hash"}, of : items]]

\* The nodes of a height: a digest is as high as the node it stands for.
Nodes[height \in 0..KeyLength] ==
  NodesOver(IF height = 0 THEN {} ELSE Nodes[height - 1], Encoded[height])

Node == Nodes[KeyLength]

-----------------------------------------------------------------------------
(* RLP *)

\* The items in nodes, and the values in leaves.
Measured == Item \cup [kind : {"value"}, value : Values]

\* Bytes of an item, header included.
Length[item \in Measured] ==
  CASE item.kind = "empty" -> 1
    [] item.kind = "hash"  -> 33
    [] item.kind = "value" -> ValueLength[item.value]
    [] item.kind = "pair"  -> 1 + PathLength(item.path) + Length[item.item]
    [] item.kind = "list"  ->
         \* 15 more children, for the nibbles left out, and the empty value
         FoldFunction(+, 1 + (16 - Cardinality(Nibbles)) + 1,
                      [n \in Nibbles |-> Length[item.items[n]]])

\* Faulty variant: a digest is hashed like any other node.
RefHashingDigests(node, rlp) ==
  IF node.kind = "null" THEN EmptyString ELSE IF Length[rlp] >= 32 THEN Hash(rlp) ELSE rlp

\* NodeRef: how a node with this RLP appears in its parent.  A digest stands for
\* itself; a node of at least 32 bytes is replaced by its hash, a smaller one
\* embedded.
Ref(node, rlp) ==
  CASE node.kind = "null"   -> EmptyString
    [] node.kind = "digest" -> node.hash
    [] OTHER                -> IF Length[rlp] >= 32 THEN Hash(rlp) ELSE rlp

\* Node::rlp_encoded.
RlpEncoded[node \in Node] ==
  LET RefTo(child) == Ref(child, RlpEncoded[child])
  IN  CASE node.kind = "null"      -> EmptyString
        [] node.kind = "leaf"      -> Pair(EncodePath(node.path, TRUE), Value(node.value))
        [] node.kind = "extension" -> Pair(EncodePath(node.path, FALSE), RefTo(node.child))
        [] node.kind = "branch"    -> List([n \in Nibbles |-> RefTo(node.children[n])])
        [] node.kind = "digest"    -> node.hash

\* hash_slow of a trie; the empty trie's is the hash of the empty string.
HashSlow(node) == IF node.kind = "digest" THEN node.hash ELSE Hash(RlpEncoded[node])

\* Node's Decodable.
Decode[item \in Item] ==
  CASE item.kind = "pair" /\ ~IsLeafPath(item.path) ->
         Extension(DecodePath(item.path), Decode[item.item])
    [] item.kind = "list" -> Branch([n \in Nibbles |-> Decode[item.items[n]]])
    [] item.kind = "pair" /\ IsLeafPath(item.path) ->
         Leaf(DecodePath(item.path), item.item.value)
    [] item.kind = "hash"  -> Digest(item)
    [] item.kind = "empty" -> Null

-----------------------------------------------------------------------------
(* The trie *)

\* Faulty variant: an unresolved node is taken for an absent one.
UnresolvedAbsent == NotFound

\* "Attempted to access unresolved node".
Unresolved == Panic

\* Node::get.
Get[node \in Node] ==
  [key \in Seq(Nibbles) |->
     CASE node.kind = "extension" /\ IsPrefix(node.path, key) ->
            Get[node.child][Rest(key, Len(node.path))]
       [] node.kind = "branch" /\ key # <<>> -> Get[node.children[key[1]]][Rest(key, 1)]
       [] node.kind = "leaf" /\ node.path = key -> node.value
       [] node.kind = "digest" -> Unresolved
       [] OTHER -> NotFound]

\* Faulty variant: a node of exactly 32 bytes is taken for a small one.
ParsedAbove(item) == IF Length[item] > 32 THEN {<<Hash(item), Decode[item]>>} ELSE {}

\* parse_node: what an RLP node adds to nodes_by_hash.
Parsed(item) == IF Length[item] >= 32 THEN {<<Hash(item), Decode[item]>>} ELSE {}

\* resolve_trie: digests are replaced by the nodes given for them.
ResolveTrie(root, nodesByHash) ==
  LET Entries(hash) == {e \in nodesByHash : e[1] = hash}
      Resolved[node \in Node] ==
        CASE node.kind = "extension" -> Extension(node.path, Resolved[node.child])
          [] node.kind = "branch" ->
               Branch([n \in Nibbles |-> Resolved[node.children[n]]])
          [] node.kind = "digest" /\ Entries(node.hash) # {} ->
               Resolved[(CHOOSE e \in Entries(node.hash) : TRUE)[2]]
          [] OTHER -> node
  IN  Resolved[root]

-----------------------------------------------------------------------------
(* What the node of the chain holds and proves *)

Positions == UNION {[1..n -> Nibbles] : n \in 0..KeyLength}

\* The keys of some entries that begin with a prefix.
Under(entries, prefix) == {k \in DOMAIN entries : IsPrefix(prefix, k)}

\* How many nibbles all of these keys share.
Shared(keys) ==
  Max({n \in 0..KeyLength : \A k, l \in keys : SubSeq(k, 1, n) = SubSeq(l, 1, n)})

\* The full trie of a map from keys to values: a node for each prefix of a key.
FullTrie(entries) ==
  LET At[prefix \in Positions] ==
        LET keys == Under(entries, prefix)
            one == CHOOSE k \in keys : TRUE
            several == \E k, l \in keys : k # l
        IN  CASE several /\ Shared(keys) > Len(prefix) ->
                   Extension(SubSeq(one, Len(prefix) + 1, Shared(keys)),
                             At[SubSeq(one, 1, Shared(keys))])
              [] several /\ Shared(keys) <= Len(prefix) ->
                   Branch([n \in Nibbles |-> At[Append(prefix, n)]])
              [] keys = {} -> Null
              [] OTHER -> Leaf(Rest(one, Len(prefix)), entries[one])
  IN  At[<<>>]

\* eth_getProof: the nodes on the path of a key that are not embedded.
PathNodes[node \in Node] ==
  [key \in Seq(Nibbles) |->
     (IF Length[RlpEncoded[node]] >= 32 THEN {RlpEncoded[node]} ELSE {})
     \cup CASE node.kind = "extension" /\ IsPrefix(node.path, key) ->
                 PathNodes[node.child][Rest(key, Len(node.path))]
            [] node.kind = "branch" /\ key # <<>> ->
                 PathNodes[node.children[key[1]]][Rest(key, 1)]
            [] OTHER -> {}]

-----------------------------------------------------------------------------
(* from_rlp_nodes *)

VARIABLES
  content,       \* the map the chain's trie holds
  asked,         \* the keys proofs were fetched for
  root,          \* RLP of the root node, first in every proof of a trie
  pending,       \* nodes of the proofs not yet read
  nodesByHash,   \* nodes_by_hash, as pairs
  trie,          \* the result
  built

vars == <<content, asked, root, pending, nodesByHash, trie, built>>

Contents == UNION {[keys -> Values] : keys \in SUBSET Keys}

\* The nodes of the proofs of some keys.
ProofNodes(entries, keys) == UNION {PathNodes[FullTrie(entries)][k] : k \in keys}

\* The proof of the empty trie has no nodes.
Init ==
  /\ content \in Contents
  /\ asked \in {keys \in SUBSET Keys : Cardinality(keys) \in 1..MaxAsked}
  /\ root = RlpEncoded[FullTrie(content)]
  /\ pending = ProofNodes(content, asked) \ {root}
  /\ nodesByHash = Parsed(root)
  /\ trie = Null
  /\ built = FALSE

\* "The remaining nodes can be in any order"; one given twice changes nothing.
ReadNode ==
  /\ ~built
  /\ \E item \in pending :
       /\ nodesByHash' = nodesByHash \cup Parsed(item)
       /\ pending' = pending \ {item}
  /\ UNCHANGED <<content, asked, root, trie, built>>

Resolve ==
  /\ ~built /\ pending = {}
  /\ trie' = ResolveTrie(Decode[root], nodesByHash)
  /\ built' = TRUE
  /\ UNCHANGED <<content, asked, root, pending, nodesByHash>>

Next == ReadNode \/ Resolve

Spec == Init /\ [][Next]_vars

-----------------------------------------------------------------------------
(* Properties *)

\* "The root hash ... matches the root hash of the fully resolved trie",
\* whichever subtrees stay unresolved or embedded.
RootPreserved == built => HashSlow(trie) = HashSlow(FullTrie(content))

Right(key) == IF key \in DOMAIN content THEN content[key] ELSE NotFound

\* Proofs of inclusion and of exclusion suffice: no lookup of a key that was
\* asked for panics, and its answer is right.
AskedAnswered == built => \A k \in asked : Get[trie][k] = Right(k)

\* "It panics when neither inclusion nor exclusion of the key can be
\* guaranteed": a partial trie never answers wrongly, for any key.
NeverWrong == built => \A k \in Keys : Get[trie][k] \in {Right(k), Panic}
=============================================================================
