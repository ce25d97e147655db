------------------------ MODULE AirdropPipelineProofs ------------------------
(***************************************************************************)
(* Proofs about the whole way of a Merkle root, for any number of          *)
(* publishers, blocks, reorganisations, strings and players.  The argument *)
(* rests on what a reorganisation leaves alone: blocks below the replaced  *)
(* ones keep their number, hash and nonce, and a message is verified only  *)
(* when its block is too deep to be replaced.                              *)
(***************************************************************************)
EXTENDS AirdropPipeline, FiniteSetTheorems, SequenceTheorems, TLAPS

-----------------------------------------------------------------------------
(* The invariant *)

BlockData == [epoch : Nat, run : Runs \cup {NoRun}, payload : Roots \cup {NoPayload}]
Publisher == [pc : {"idle", "preflighted", "proved", "submitted", "done", "failed"},
              commitment : [blockNumber : Nat, blockHash : Seq(BlockData)]]

ChainOK ==
  /\ chain \in Seq(BlockData) /\ epoch \in Nat /\ tip \in Nat
  /\ 1 <= Height /\ Height <= tip /\ tip <= MaxHeight

\* A run in the mempool or on the chain has submitted its transaction, and a run
\* that began has the hash of an existing block: it does not begin again.
PublishersOK ==
  /\ pub \in [Runs -> Publisher]
  /\ mempool \subseteq Runs
  /\ \A r \in mempool : pub[r].pc \in {"submitted", "done"}
  /\ \A h \in 1..Height : chain[h].run # NoRun =>
                            pub[chain[h].run].pc \in {"submitted", "done"}
  /\ \A r \in Runs : pub[r].pc # "idle" => pub[r].commitment.blockHash # ZeroHash

\* A verified message stands in a block too deep for any reorganisation.
MessagesOK ==
  /\ verified \subseteq (1..MaxHeight) \X Roots
  /\ \A m \in verified : \E h \in SendHeights :
       /\ Nonce(h) = m[1] /\ chain[h].payload = m[2]
       /\ h <= tip - Confirmations

ClaimsOK ==
  usedLeaves # {} => merkleRootSet /\ usedLeaves \subseteq Provable[merkleRoot]

Inv == /\ ChainOK /\ PublishersOK /\ SentRootIsAnchored
       /\ MessagesOK /\ RootIsTheOneExecuted /\ ClaimsOK

-----------------------------------------------------------------------------
(* Blocks that stay *)

\* The first k blocks are the same before and after.
Stays(k) == /\ k \in Nat /\ k <= Height /\ k <= Height'
            /\ \A h \in 1..k : chain'[h] = chain[h]

\* Blocks that stay keep their hashes.
LEMMA HashStays ==
  ASSUME ChainOK, ChainOK', NEW k, Stays(k), NEW n \in 1..k
  PROVE  HashOf(n)' = HashOf(n)
<1>1. /\ chain \in Seq(BlockData) /\ chain' \in Seq(BlockData)
      /\ n \in 1..Len(chain) /\ n \in 1..Len(chain')
      /\ \A h \in 1..n : chain'[h] = chain[h]
  BY DEF ChainOK, Stays, Height
<1>2. SubSeq(chain', 1, n) = SubSeq(chain, 1, n)
  BY <1>1
<1> QED
  BY <1>1, <1>2 DEF HashOf, Height

\* Blocks that stay keep the nonces of their messages.
LEMMA NonceStays ==
  ASSUME NEW k, Stays(k), NEW h \in 1..k
  PROVE  /\ h \in SendHeights <=> h \in SendHeights'
         /\ Nonce(h)' = Nonce(h)
<1>1. \A g \in 1..k : /\ g \in 1..Height /\ g \in 1..Height'
                      /\ chain'[g] = chain[g]
  BY DEF Stays, Height
<1>2. {g \in SendHeights : g <= h}' = {g \in SendHeights : g <= h}
  BY <1>1 DEF SendHeights, Stays, Height
<1> QED
  BY <1>1, <1>2 DEF Nonce, SendHeights

\* A mined block leaves all others.
LEMMA MineStays ==
  ASSUME ChainOK, NEW run \in Runs \cup {NoRun}, NEW payload \in Roots \cup {NoPayload},
         Mine(run, payload)
  PROVE  /\ ChainOK' /\ Stays(Height) /\ Height' = Height + 1 /\ tip <= tip'
         /\ chain'[Height + 1].run = run /\ chain'[Height + 1].payload = payload
<1> DEFINE b == [epoch |-> epoch, run |-> run, payload |-> payload]
<1>1. b \in BlockData /\ b.run = run /\ b.payload = payload
  BY DEF ChainOK, BlockData
<1>2. /\ chain' = Append(chain, b) /\ Height < MaxHeight
      /\ tip' = IF Height + 1 > tip THEN Height + 1 ELSE tip
  BY DEF Mine
<1> HIDE DEF b
<1>3. /\ chain' \in Seq(BlockData) /\ Height' = Height + 1 /\ Height \in Nat
      /\ chain'[Height + 1] = b /\ \A h \in 1..Height : chain'[h] = chain[h]
  BY <1>1, <1>2 DEF ChainOK, Height
<1>4. ChainOK'
  BY <1>2, <1>3, ChainAssumption DEF ChainOK, Mine
<1>5. Stays(Height)
  BY <1>3 DEF Stays
<1>6. tip <= tip'
  BY <1>2, <1>3 DEF ChainOK
<1> QED
  BY <1>1, <1>3, <1>4, <1>5, <1>6

\* A reorganisation leaves the blocks below the ones it replaces.
LEMMA ReorgStays ==
  ASSUME ChainOK, NEW depth \in 1..MaxReorg, Reorg(depth)
  PROVE  /\ ChainOK' /\ Stays(Height - depth) /\ Height' = Height - depth
         /\ tip' = tip /\ tip - MaxReorg <= Height - depth
<1>1. /\ Height \in Nat /\ depth \in Nat /\ 1 <= Height - depth
      /\ Height - depth \in 1..Len(chain)
  BY ChainAssumption DEF Reorg, ChainOK, Height
<1>2. chain' = SubSeq(chain, 1, Height - depth)
  BY <1>1 DEF Reorg, HashOf, Height
<1>3. /\ chain' \in Seq(BlockData) /\ Len(chain') = Height - depth
      /\ \A h \in 1..(Height - depth) : chain'[h] = chain[h]
  BY <1>1, <1>2 DEF ChainOK, Height
<1>4. Height' = Height - depth /\ Stays(Height - depth)
  BY <1>1, <1>3 DEF Height, Stays
<1>5. tip' = tip /\ epoch' \in Nat /\ tip - MaxReorg <= Height - depth
  BY <1>1, ChainAssumption DEF Reorg, ChainOK
<1>6. Height' <= tip
  BY <1>1, <1>4 DEF ChainOK
<1> QED
  BY <1>1, <1>3, <1>4, <1>5, <1>6 DEF ChainOK

\* The nonce of a message is the number of a message up to its block.
LEMMA NonceBound ==
  ASSUME ChainOK, NEW h \in SendHeights
  PROVE  Nonce(h) \in 1..MaxHeight
<1> DEFINE T == {g \in SendHeights : g <= h}
<1>1. T \subseteq 1..Height /\ h \in T /\ h \in 1..Height /\ Height \in Nat
  BY DEF SendHeights, ChainOK, Height
<1>2. IsFiniteSet(1..Height) /\ Cardinality(1..Height) = Height
  BY <1>1, FS_Interval
<1>3. IsFiniteSet(T) /\ Cardinality(T) <= Height
  BY <1>1, <1>2, FS_Subset
<1>4. Cardinality(T) \in Nat /\ Cardinality(T) # 0
  BY <1>1, <1>3, FS_CardinalityType, FS_EmptySet
<1> QED
  BY <1>1, <1>3, <1>4, ChainAssumption DEF Nonce, ChainOK

-----------------------------------------------------------------------------
(* Parts of the state that steps leave alone *)

\* What is c below t is c below a greater u.
LEMMA DeepStays ==
  ASSUME NEW h \in Int, NEW t \in Int, NEW u \in Int, NEW c \in Int, h <= t - c, t <= u
  PROVE  h <= u - c
OBVIOUS

\* What a step of the chain, which only replaces blocks that no message has been
\* verified from, keeps of the verified messages.
LEMMA MessagesStay ==
  ASSUME ChainOK, MessagesOK, NEW k, Stays(k), UNCHANGED verified,
         \A h \in 1..Height : h <= tip - Confirmations =>
                               h \in 1..k /\ h <= tip' - Confirmations
  PROVE  MessagesOK'
<1> SUFFICES ASSUME NEW m \in verified
             PROVE  \E h \in SendHeights' : /\ Nonce(h)' = m[1]
                                            /\ chain'[h].payload = m[2]
                                            /\ h <= tip' - Confirmations
  BY DEF MessagesOK
<1>1. PICK h \in SendHeights : /\ Nonce(h) = m[1] /\ chain[h].payload = m[2]
                               /\ h <= tip - Confirmations
  BY DEF MessagesOK
<1>2. h \in 1..k /\ h <= tip' - Confirmations
  BY <1>1 DEF SendHeights
<1>3. h \in SendHeights' /\ Nonce(h)' = Nonce(h)
  BY <1>1, <1>2, NonceStays
<1>4. chain'[h] = chain[h]
  BY <1>2 DEF Stays
<1> QED
  BY <1>1, <1>2, <1>3, <1>4

\* The root that block h sent was proved about an ancestor of the block.
Anchored(h) ==
  LET c == pub[chain[h].run].commitment
  IN  /\ c.blockNumber \in (h - Window)..(h - 1)
      /\ c.blockHash = HashOf(c.blockNumber)

\* A root stays anchored in blocks that stay, if the run keeps its commitment.
LEMMA AnchorsStay ==
  ASSUME ChainOK, ChainOK', NEW k, Stays(k), NEW h \in 1..k, Anchored(h),
         pub'[chain[h].run].commitment = pub[chain[h].run].commitment
  PROVE  Anchored(h)'
<1>1. PICK n : n = pub[chain[h].run].commitment.blockNumber
  OBVIOUS
<1>2. /\ n \in (h - Window)..(h - 1)
      /\ pub[chain[h].run].commitment.blockHash = HashOf(n)
  BY <1>1 DEF Anchored
<1>3. chain'[h] = chain[h] /\ k \in Nat /\ h \in Nat /\ h <= k
  BY DEF Stays
<1>4. HashOf(n)' = HashOf(n)
  <2>1. CASE n \in 1..k
    BY <2>1, HashStays
  <2>2. CASE n \notin 1..k
    <3>1. n \in Int /\ n < 1
      BY <1>2, <1>3, <2>2, ChainAssumption
    <3> QED
      BY <3>1 DEF HashOf, ZeroHash, Height
  <2> QED
    BY <2>1, <2>2
<1>5. /\ pub'[chain'[h].run].commitment.blockNumber = n
      /\ pub'[chain'[h].run].commitment.blockHash = HashOf(n)'
  BY <1>1, <1>2, <1>3, <1>4
<1> QED
  BY <1>2, <1>5 DEF Anchored

\* Steps that leave the chain and the runs' commitments alone keep the anchors.
LEMMA AnchorsKept ==
  ASSUME ChainOK, PublishersOK, SentRootIsAnchored, UNCHANGED chain,
         \A h \in 1..Height : chain[h].run # NoRun =>
           pub'[chain[h].run].commitment = pub[chain[h].run].commitment
  PROVE  SentRootIsAnchored'
BY DEF SentRootIsAnchored, SendHeights, HashOf, Height

\* The destination's operations other than a delivery keep its root, and claims
\* are paid for leaves of it.
LEMMA DestStep ==
  ASSUME ClaimsOK, Dest!PlayerStep
  PROVE  ClaimsOK' /\ UNCHANGED <<merkleRoot, merkleRootSet>>
<1>1. ASSUME NEW p \in Players, Dest!Register(p) \/ Dest!Play(p)
      PROVE  ClaimsOK' /\ UNCHANGED <<merkleRoot, merkleRootSet>>
  BY <1>1 DEF Dest!Register, Dest!Play, Dest!rootVars, ClaimsOK
<1>2. ASSUME NEW p \in Players, NEW leaf \in Leaves, Dest!Claim(p, leaf)
      PROVE  ClaimsOK' /\ UNCHANGED <<merkleRoot, merkleRootSet>>
  BY <1>2 DEF Dest!Claim, Dest!rootVars, ClaimsOK
<1> QED
  BY <1>1, <1>2 DEF Dest!PlayerStep

-----------------------------------------------------------------------------
(* One step per action *)

\* A run that goes on keeps its commitment; only one that had not begun gets one.
LEMMA PublisherStep ==
  ASSUME Inv, NEW r \in Runs,
         Preflight(r) \/ Prove(r) \/ Submit(r) \/ Finish(r) \/ DropTx(r)
  PROVE  Inv'
<1>1. /\ UNCHANGED <<chain, epoch, tip, verified, executed, destVars>>
      /\ pub \in [Runs -> Publisher]
  BY DEF Inv, PublishersOK, Preflight, Prove, Submit, Finish, DropTx, chainVars, lzVars
<1>2. ChainOK' /\ MessagesOK' /\ RootIsTheOneExecuted' /\ ClaimsOK'
  BY <1>1 DEF Inv, ChainOK, MessagesOK, RootIsTheOneExecuted, ClaimsOK, Height,
              SendHeights, Nonce, destVars
<1>3. Height \in Nat /\ Height >= 1 /\ HashOf(Height) \in Seq(BlockData) /\ HashOf(Height) # ZeroHash
  <2>1. Height \in 1..Len(chain) /\ chain \in Seq(BlockData)
    BY DEF Inv, ChainOK, Height
  <2>2. HashOf(Height) = SubSeq(chain, 1, Height)
    BY <2>1 DEF HashOf, Height
  <2>3. HashOf(Height) \in Seq(BlockData) /\ Len(HashOf(Height)) = Height
    BY <2>1, <2>2, SubSeqProperties
  <2> QED
    BY <2>1, <2>3 DEF ZeroHash
<1> DEFINE Goes ==
      /\ pub' \in [Runs -> Publisher]
      /\ mempool' \subseteq Runs
      /\ \A q \in Runs :
           /\ pub[q].pc # "idle" => pub'[q].commitment = pub[q].commitment
           /\ pub[q].pc \in {"submitted", "done"} => pub'[q].pc \in {"submitted", "done"}
           /\ q \in mempool' => pub'[q].pc \in {"submitted", "done"}
           /\ pub'[q].pc # "idle" => pub'[q].commitment.blockHash # ZeroHash
<1>4. Goes
  <2>1. CASE Preflight(r)
    <3> DEFINE new == [pc |-> "preflighted",
                       commitment |-> [blockNumber |-> Height, blockHash |-> HashOf(Height)]]
    <3>1. /\ pub[r].pc = "idle" /\ mempool' = mempool
          /\ pub' = [pub EXCEPT ![r] = new]
      BY <2>1 DEF Preflight
    <3>2. new \in Publisher /\ new.pc = "preflighted" /\ new.commitment.blockHash # ZeroHash
      BY <1>3 DEF Publisher
    <3> HIDE DEF new
    <3>3. \A q \in Runs : pub'[q] = IF q = r THEN new ELSE pub[q]
      BY <1>1, <3>1
    <3> QED
      BY <1>1, <3>1, <3>2, <3>3 DEF Inv, PublishersOK
  <2>2. ASSUME NEW pc \in {"proved", "failed", "submitted", "done"}, Goto(r, pc)
        PROVE  /\ pub' \in [Runs -> Publisher]
               /\ \A q \in Runs : /\ pub'[q].commitment = pub[q].commitment
                                  /\ pub'[q].pc = IF q = r THEN pc ELSE pub[q].pc
    BY <1>1, <2>2 DEF Goto, Publisher
  <2>3. CASE Prove(r)
    <3>1. /\ pub[r].pc = "preflighted" /\ mempool' = mempool
          /\ Goto(r, "proved") \/ Goto(r, "failed")
      BY <2>3 DEF Prove
    <3> QED
      BY <3>1, <2>2 DEF Inv, PublishersOK
  <2>4. CASE Submit(r)
    <3>1. pub[r].pc = "proved" /\ mempool' = mempool \cup {r} /\ Goto(r, "submitted")
      BY <2>4 DEF Submit
    <3> QED
      BY <3>1, <2>2 DEF Inv, PublishersOK
  <2>5. CASE Finish(r)
    <3>1. pub[r].pc = "submitted" /\ mempool' = mempool /\ Goto(r, "done")
      BY <2>5 DEF Finish
    <3> QED
      BY <3>1, <2>2 DEF Inv, PublishersOK
  <2>6. CASE DropTx(r)
    BY <1>1, <2>6 DEF DropTx, Inv, PublishersOK
  <2> HIDE DEF Goes
  <2>7. Preflight(r) \/ Prove(r) \/ Submit(r) \/ Finish(r) \/ DropTx(r)
    OBVIOUS
  <2> QED
    BY <2>1, <2>3, <2>4, <2>5, <2>6, <2>7, Zenon
<1>5. \A h \in 1..Height : chain[h].run # NoRun => chain[h].run \in Runs
  <2>1. \A h \in 1..Height : chain[h] \in BlockData
    BY ElementOfSeq DEF Inv, ChainOK, Height
  <2> QED
    BY <2>1 DEF BlockData
<1>6. PublishersOK'
  BY <1>1, <1>4, <1>5 DEF Inv, PublishersOK, Height
<1>7. SentRootIsAnchored'
  <2>1. \A h \in 1..Height : chain[h].run # NoRun =>
          pub'[chain[h].run].commitment = pub[chain[h].run].commitment
    BY <1>4, <1>5 DEF Inv, PublishersOK
  <2> QED
    BY <1>1, <2>1, AnchorsKept DEF Inv
<1> QED
  BY <1>2, <1>6, <1>7 DEF Inv

\* A mined block keeps everything if its message, when it has one of a publisher,
\* is about an ancestor.
LEMMA MineStep ==
  ASSUME Inv, NEW run \in Runs \cup {NoRun}, NEW payload \in Roots \cup {NoPayload},
         Mine(run, payload),
         payload # NoPayload /\ run # NoRun =>
           /\ pub[run].commitment.blockNumber \in Int
           /\ pub[run].commitment.blockHash # ZeroHash
           /\ ValidateCommitment(pub[run].commitment),
         run # NoRun => pub[run].pc \in {"submitted", "done"},
         mempool' \subseteq mempool, UNCHANGED <<pub, lzVars, destVars>>
  PROVE  Inv'
<1>1. /\ ChainOK /\ ChainOK' /\ Stays(Height) /\ Height' = Height + 1 /\ tip <= tip'
      /\ chain'[Height + 1].run = run /\ chain'[Height + 1].payload = payload
  BY MineStays DEF Inv
<1>2. Height \in Nat /\ tip \in Int /\ tip' \in Int /\ tip' \in Nat
  BY <1>1 DEF ChainOK, Stays
<1>3. \A h \in 1..Height' : h \in 1..Height \/ h = Height + 1
  BY <1>1, <1>2
<1>4. \A h \in 1..Height : chain'[h] = chain[h]
  BY <1>1 DEF Stays
<1>5. PublishersOK'
  BY <1>1, <1>3, <1>4 DEF Inv, PublishersOK
<1>6. MessagesOK'
  <2>1. \A h \in 1..Height : h <= tip - Confirmations => h <= tip' - Confirmations
    <3>1. tip \in Int /\ tip' \in Int /\ Confirmations \in Int /\ tip <= tip'
      BY <1>1, <1>2, PipelineAssumption
    <3>2. ASSUME NEW h \in 1..Height, h <= tip - Confirmations
          PROVE  h <= tip' - Confirmations
      <4>1. h \in Int
        BY <1>2
      <4> QED
        BY <3>1, <3>2, <4>1, DeepStays
    <3> QED
      BY <3>2
  <2> QED
    BY <1>1, <2>1, MessagesStay DEF Inv, lzVars
<1>7. SentRootIsAnchored'
  <2> SUFFICES ASSUME NEW h \in SendHeights', chain'[h].run # NoRun
               PROVE  Anchored(h)'
    BY DEF SentRootIsAnchored, Anchored
  <2>1. CASE h \in 1..Height
    <3>1. h \in SendHeights /\ chain[h].run # NoRun
      BY <1>1, <1>4, <2>1, NonceStays
    <3>2. Anchored(h)
      BY <3>1 DEF Inv, SentRootIsAnchored, Anchored
    <3> QED
      BY <1>1, <2>1, <3>2, AnchorsStay
  <2>2. CASE h = Height + 1
    <3>1. PICK n \in Int : n = pub[run].commitment.blockNumber
      BY <1>1, <2>2 DEF SendHeights
    <3>2. /\ pub[run].commitment.blockHash = BlockHash(n)
          /\ BlockHash(n) # ZeroHash
      BY <1>1, <2>2, <3>1 DEF SendHeights, ValidateCommitment
    <3>3. n >= Height + 1 - Window /\ n \in 1..Height /\ BlockHash(n) = HashOf(n)
      BY <3>2 DEF BlockHash, HashOf
    <3>4. HashOf(n)' = HashOf(n)
      BY <1>1, <3>3, HashStays
    <3>5. n \in (h - Window)..(h - 1)
      BY <1>2, <2>2, <3>3, ChainAssumption
    <3> QED
      BY <1>1, <2>2, <3>1, <3>2, <3>3, <3>4, <3>5 DEF Anchored
  <2> QED
    BY <1>3, <2>1, <2>2 DEF SendHeights
<1>8. RootIsTheOneExecuted' /\ ClaimsOK'
  BY DEF Inv, RootIsTheOneExecuted, ClaimsOK, lzVars, destVars
<1> QED
  BY <1>1, <1>5, <1>6, <1>7, <1>8 DEF Inv

\* The transactions that are mined: a publisher's, which may revert, the owner's
\* string, and none.
LEMMA MiningStep ==
  ASSUME Inv, (\E r \in Runs : MineBuild(r)) \/ OwnerSend \/ MineEmpty
  PROVE  Inv'
<1>1. ASSUME NEW r \in Runs, MineBuild(r) PROVE Inv'
  <2>1. /\ pub[r].pc \in {"submitted", "done"}
        /\ pub[r].commitment.blockNumber \in Int
        /\ pub[r].commitment.blockHash # ZeroHash
        /\ mempool' \subseteq mempool /\ UNCHANGED <<pub, lzVars, destVars>>
    BY <1>1 DEF MineBuild, Inv, PublishersOK, Publisher
  <2>2. CASE BuildSucceeds(r) /\ Mine(r, RootOf[r])
    BY <2>1, <2>2, MineStep, PipelineAssumption DEF BuildSucceeds
  <2>3. CASE Mine(r, NoPayload)
    BY <2>1, <2>3, MineStep
  <2> QED
    BY <1>1, <2>2, <2>3 DEF MineBuild
<1>2. ASSUME OwnerSend PROVE Inv'
  BY <1>2, MineStep, PipelineAssumption DEF OwnerSend
<1>3. ASSUME MineEmpty PROVE Inv'
  BY <1>3, MineStep DEF MineEmpty, sourceVars
<1> QED
  BY <1>1, <1>2, <1>3

\* A reorganisation reaches no verified message and no ancestor of a block that
\* stays; the transactions it returns are of runs that had submitted.
LEMMA ReorgStep ==
  ASSUME Inv, ReorgChain
  PROVE  Inv'
<1>1. PICK depth \in 1..MaxReorg :
        /\ Reorg(depth)
        /\ mempool' = mempool \cup
             ({chain[h].run : h \in (Height - depth + 1)..Height} \ {NoRun})
        /\ UNCHANGED <<pub, sends, stopped, lzVars, destVars>>
  BY DEF ReorgChain
<1>2. /\ ChainOK /\ ChainOK' /\ Stays(Height - depth) /\ Height' = Height - depth
      /\ tip' = tip /\ tip - MaxReorg <= Height - depth
  BY <1>1, ReorgStays DEF Inv
<1>3. /\ Height \in Nat /\ Height' \in Nat /\ depth \in Nat /\ depth <= Height
      /\ \A h \in 1..Height' : h \in 1..Height /\ chain'[h] = chain[h]
  <2>1. Height \in Nat /\ Height' \in Nat
    BY <1>2 DEF ChainOK, Height
  <2>2. depth \in Nat /\ depth <= Height
    BY <1>2, <2>1, ChainAssumption
  <2>3. \A h \in 1..Height' : h \in 1..Height
    BY <1>2, <2>1, <2>2
  <2> QED
    BY <1>2, <2>1, <2>2, <2>3 DEF Stays
<1>4. PublishersOK'
  <2>1. \A h \in (Height - depth + 1)..Height : h \in 1..Height
    BY <1>3
  <2>2. \A h \in 1..Height : chain[h].run \in Runs \cup {NoRun}
    <3>1. \A h \in 1..Height : chain[h] \in BlockData
      BY <1>2, ElementOfSeq DEF ChainOK, Height
    <3> QED
      BY <3>1 DEF BlockData
  <2> QED
    BY <1>1, <1>3, <2>1, <2>2 DEF Inv, PublishersOK
<1>5. MessagesOK'
  <2>1. \A h \in 1..Height : h <= tip - Confirmations => h \in 1..(Height - depth)
    BY <1>2, <1>3, ChainAssumption, PipelineAssumption DEF ChainOK
  <2> QED
    BY <1>1, <1>2, <2>1, MessagesStay DEF Inv, lzVars
<1>6. SentRootIsAnchored'
  <2> SUFFICES ASSUME NEW h \in SendHeights', chain'[h].run # NoRun
               PROVE  Anchored(h)'
    BY DEF SentRootIsAnchored, Anchored
  <2>1. h \in 1..(Height - depth)
    BY <1>2 DEF SendHeights
  <2>2. h \in SendHeights /\ chain[h].run # NoRun
    BY <1>2, <1>3, <2>1, NonceStays
  <2>3. Anchored(h)
    BY <2>2 DEF Inv, SentRootIsAnchored, Anchored
  <2> QED
    BY <1>1, <1>2, <2>1, <2>3, AnchorsStay
<1>7. RootIsTheOneExecuted' /\ ClaimsOK'
  BY <1>1 DEF Inv, RootIsTheOneExecuted, ClaimsOK, lzVars, destVars
<1> QED
  BY <1>2, <1>4, <1>5, <1>6, <1>7 DEF Inv

\* A message is verified with the nonce and payload of a block deep enough.
LEMMA VerifyStep ==
  ASSUME Inv, VerifyMessage
  PROVE  Inv'
<1>1. PICK g \in 1..Height :
        /\ g \in SendHeights /\ Height - g >= Confirmations
        /\ verified' = verified \cup {<<Nonce(g), chain[g].payload>>}
        /\ UNCHANGED <<chainVars, sourceVars, executed, destVars>>
  BY DEF VerifyMessage, Confirmed
<1>2. /\ UNCHANGED <<chain, epoch, tip, pub, mempool>>
      /\ SendHeights' = SendHeights /\ \A h : Nonce(h)' = Nonce(h)
  BY <1>1 DEF chainVars, sourceVars, SendHeights, Nonce, Height
<1>3. ChainOK' /\ PublishersOK' /\ SentRootIsAnchored'
  BY <1>2 DEF Inv, ChainOK, PublishersOK, SentRootIsAnchored, Height, HashOf
<1>4. Nonce(g) \in 1..MaxHeight /\ chain[g].payload \in Roots
  <2>1. chain[g] \in BlockData
    BY ElementOfSeq DEF Inv, ChainOK, Height
  <2> QED
    BY <1>1, <2>1, NonceBound DEF Inv, SendHeights, BlockData
<1>5. g <= tip - Confirmations
  BY <1>1, PipelineAssumption DEF Inv, ChainOK, Height
<1>6. MessagesOK'
  BY <1>1, <1>2, <1>4, <1>5 DEF Inv, MessagesOK
<1>7. RootIsTheOneExecuted' /\ ClaimsOK'
  BY <1>1 DEF Inv, RootIsTheOneExecuted, ClaimsOK, destVars
<1> QED
  BY <1>3, <1>6, <1>7 DEF Inv

\* The first execution sets the root to the payload of its message; there is no
\* second one, because _lzReceive reverts.
LEMMA ExecuteStep ==
  ASSUME Inv, Execute
  PROVE  Inv'
<1>1. PICK m \in verified : /\ Dest!LzReceive(m[2])
                            /\ executed' = executed \cup {m[1]}
                            /\ UNCHANGED <<chainVars, sourceVars, verified>>
  BY DEF Execute
<1>2. /\ UNCHANGED <<chain, epoch, tip, pub, mempool, verified, usedLeaves>>
      /\ ~merkleRootSet /\ merkleRoot' = m[2] /\ merkleRootSet' = TRUE
  BY <1>1 DEF chainVars, sourceVars, Dest!LzReceive, Dest!ghostVars
<1>3. ChainOK' /\ PublishersOK' /\ SentRootIsAnchored' /\ MessagesOK'
  BY <1>2 DEF Inv, ChainOK, PublishersOK, SentRootIsAnchored, MessagesOK, Height, HashOf,
              SendHeights, Nonce
<1>4. executed = {} /\ usedLeaves = {}
  BY <1>2 DEF Inv, RootIsTheOneExecuted, ClaimsOK
<1>5. m[1] \in 1..MaxHeight /\ m = <<m[1], m[2]>>
  BY DEF Inv, MessagesOK
<1>6. RootIsTheOneExecuted' /\ ClaimsOK'
  BY <1>1, <1>2, <1>4, <1>5 DEF RootIsTheOneExecuted, ClaimsOK
<1> QED
  BY <1>3, <1>6 DEF Inv

\* Players and the emergency stop change nothing the invariant is about but the
\* leaves used.
LEMMA OtherStep ==
  ASSUME Inv, StopVerifier \/ DestPlayers \/ UNCHANGED vars
  PROVE  Inv'
<1>1. /\ UNCHANGED <<chain, epoch, tip, pub, mempool, verified, executed>>
      /\ ClaimsOK' /\ UNCHANGED <<merkleRoot, merkleRootSet>>
  <2>1. CASE StopVerifier \/ UNCHANGED vars
    BY <2>1 DEF StopVerifier, vars, chainVars, sourceVars, lzVars, destVars, Inv, ClaimsOK
  <2>2. CASE DestPlayers
    BY <2>2, DestStep DEF DestPlayers, chainVars, sourceVars, lzVars, Inv
  <2> QED
    BY <2>1, <2>2
<1> QED
  BY <1>1 DEF Inv, ChainOK, PublishersOK, SentRootIsAnchored, MessagesOK,
    RootIsTheOneExecuted, Height, HashOf, SendHeights, Nonce

-----------------------------------------------------------------------------
(* The way of a root *)

\* Every reachable state satisfies the invariant.
THEOREM Invariance == Spec => []Inv
<1>1. Init => Inv
  <2> SUFFICES ASSUME Init PROVE Inv
    OBVIOUS
  <2> DEFINE b == [epoch |-> 0, run |-> NoRun, payload |-> NoPayload]
  <2>1. b \in BlockData /\ chain = <<b>>
    BY DEF Init, BlockData
  <2>2. chain \in Seq(BlockData) /\ Height = 1 /\ chain[1] = b
    BY <2>1 DEF Height
  <2>3. pub \in [Runs -> Publisher]
    BY DEF Init, Publisher, NoCommitment, ZeroHash
  <2>4. SendHeights = {}
    BY <2>1, <2>2 DEF SendHeights
  <2>5. merkleRootSet = FALSE /\ usedLeaves = {} /\ executed = {} /\ verified = {}
    BY DEF Init, Dest!AirdropInit
  <2>6. ChainOK
    BY <2>2, ChainAssumption DEF ChainOK, Init
  <2>7. PublishersOK
    BY <2>2, <2>3 DEF PublishersOK, Init
  <2> QED
    BY <2>4, <2>5, <2>6, <2>7
      DEF Inv, SentRootIsAnchored, MessagesOK, RootIsTheOneExecuted, ClaimsOK
<1>2. Inv /\ [Next]_vars => Inv'
  BY PublisherStep, MiningStep, ReorgStep, VerifyStep, ExecuteStep, OtherStep DEF Next
<1> QED
  BY <1>1, <1>2, PTL DEF Spec

\* Whatever is reorganised, a root that buildMerkleTree sent was proved about an
\* ancestor of its block, at most Window blocks older.
THEOREM Anchoring == Spec => []SentRootIsAnchored
<1>1. Inv => SentRootIsAnchored
  BY DEF Inv
<1> QED
  BY <1>1, Invariance, PTL

\* Every message LayerZero verified is on the source chain, now and for ever, with
\* that nonce and payload.
THEOREM Sent == Spec => []VerifiedIsSent
<1>1. Inv => VerifiedIsSent
  BY DEF Inv, MessagesOK, VerifiedIsSent
<1> QED
  BY <1>1, Invariance, PTL

\* One message is executed, and the destination's root is its payload.
THEOREM OneExecuted == Spec => []RootIsTheOneExecuted
<1>1. Inv => RootIsTheOneExecuted
  BY DEF Inv
<1> QED
  BY <1>1, Invariance, PTL

\* From claim back to send: tokens leave VerifiedAirdrop only for leaves of a root
\* that stands on the source chain.
THEOREM Claims == Spec => []ClaimsAgainstSentRoot
<1>1. Inv => ClaimsAgainstSentRoot
  <2> SUFFICES ASSUME Inv, usedLeaves # {}
               PROVE  \E h \in SendHeights :
                        /\ chain[h].payload = merkleRoot
                        /\ usedLeaves \subseteq Provable[chain[h].payload]
    BY DEF ClaimsAgainstSentRoot
  <2>1. merkleRootSet /\ usedLeaves \subseteq Provable[merkleRoot]
    BY DEF Inv, ClaimsOK
  <2>2. PICK k \in 1..MaxHeight : <<k, merkleRoot>> \in verified
    BY <2>1 DEF Inv, RootIsTheOneExecuted
  <2>3. PICK h \in SendHeights : chain[h].payload = merkleRoot
    BY <2>2 DEF Inv, MessagesOK
  <2> QED
    BY <2>1, <2>3
<1> QED
  BY <1>1, Invariance, PTL

-----------------------------------------------------------------------------
(* The destination within the pipeline *)

DestProofs == INSTANCE VerifiedAirdropProofs

\* In the pipeline the destination contract does what its specification says:
\* what LayerZero executes is a 32-byte word, and nothing else writes its state.
THEOREM DestinationRefined == Spec => DestProofs!AirdropSpec
<1>1. Init => DestProofs!AirdropInit
  BY DEF Init, Dest!AirdropInit, DestProofs!AirdropInit
<1>2. ASSUME Inv, [Next]_vars
      PROVE  [DestProofs!AirdropNext]_DestProofs!airdropVars
  <2> USE DEF destVars, DestProofs!airdropVars, DestProofs!gameVars, DestProofs!rootVars,
              DestProofs!tokenVars, DestProofs!ghostVars
  <2>1. CASE Execute
    <3>1. PICK m \in verified : Dest!LzReceive(m[2])
      BY <2>1 DEF Execute
    <3>2. m[2] \in Roots
      BY <1>2, <3>1 DEF Inv, MessagesOK
    <3>3. DestProofs!LzReceive(m[2])
      BY <3>1 DEF Dest!LzReceive, Dest!gameVars, Dest!tokenVars, Dest!ghostVars,
         DestProofs!LzReceive
    <3> QED
      BY <3>2, <3>3 DEF DestProofs!AirdropNext
  <2>2. CASE DestPlayers
    <3>1. DestProofs!PlayerStep
      BY <2>2 DEF DestPlayers, Dest!PlayerStep, DestProofs!PlayerStep,
         Dest!Register, DestProofs!Register, Dest!Award, DestProofs!Award,
         Dest!Play, DestProofs!Play, Dest!OnlyPlayers, DestProofs!OnlyPlayers,
         Dest!Claim, DestProofs!Claim, Dest!PayOut, DestProofs!PayOut,
         Dest!rootVars, Dest!tokenVars
    <3> QED
      BY <3>1 DEF DestProofs!AirdropNext
  <2>3. CASE UNCHANGED destVars
    BY <2>3
  <2> QED
    BY <1>2, <2>1, <2>2, <2>3 DEF Next, vars, Preflight, Prove, Submit, Finish, DropTx,
       MineBuild, OwnerSend, MineEmpty, ReorgChain, StopVerifier, VerifyMessage
<1> QED
  BY <1>1, <1>2, Invariance, PTL DEF Spec, DestProofs!AirdropSpec

-----------------------------------------------------------------------------
(* Type correctness *)

\* The bounds of the model's counters, which the invariant has no need of.
CountersOK == epoch \in 0..MaxEpoch /\ sends \in 0..MaxSends /\ stopped \in BOOLEAN

\* The guards of the steps that count keep the counters within the model's bounds.
LEMMA CountersBounded == Spec => []CountersOK
<1>1. Init => CountersOK
  <2> SUFFICES ASSUME Init PROVE CountersOK
    OBVIOUS
  <2>1. epoch = 0 /\ sends = 0 /\ stopped = FALSE
    BY DEF Init
  <2>2. 0 \in 0..MaxEpoch /\ 0 \in 0..MaxSends
    BY ChainAssumption, PipelineAssumption
  <2> QED
    BY <2>1, <2>2, Zenon DEF CountersOK
<1>2. ASSUME CountersOK, [Next]_vars
      PROVE  CountersOK'
  <2> USE DEF CountersOK
  <2>1. CASE \E r \in Runs : \/ Preflight(r) \/ Prove(r) \/ Submit(r) \/ Finish(r)
                             \/ DropTx(r) \/ MineBuild(r)
    BY <1>2, <2>1 DEF Preflight, Prove, Submit, Finish, DropTx, MineBuild, Mine, chainVars
  <2>2. CASE OwnerSend
    BY <1>2, <2>2, PipelineAssumption DEF OwnerSend, Mine
  <2>3. CASE ReorgChain
    BY <1>2, <2>3, ChainAssumption DEF ReorgChain, Reorg
  <2>4. CASE MineEmpty \/ StopVerifier \/ VerifyMessage \/ Execute \/ DestPlayers
    BY <1>2, <2>4 DEF MineEmpty, Mine, StopVerifier, VerifyMessage, Execute, DestPlayers,
       chainVars, sourceVars
  <2>5. CASE UNCHANGED vars
    BY <1>2, <2>5 DEF vars, chainVars, sourceVars
  <2> QED
    BY <1>2, <2>1, <2>2, <2>3, <2>4, <2>5 DEF Next
<1> QED
  BY <1>1, <1>2, PTL DEF Spec

\* The pipeline's state always has its type, the destination's included.
THEOREM TypeCorrect == Spec => []TypeOK
<1>1. Inv /\ CountersOK /\ DestProofs!AirdropTypeOK => TypeOK
  <2> SUFFICES ASSUME Inv, CountersOK, DestProofs!AirdropTypeOK PROVE TypeOK
    OBVIOUS
  <2>1. Dest!AirdropTypeOK
    BY DEF DestProofs!AirdropTypeOK, Dest!AirdropTypeOK
  <2>2. /\ chain \in Seq(BlockData) /\ Height \in 1..MaxHeight /\ tip \in Height..MaxHeight
        /\ \A h \in 1..Height : chain[h] \in BlockData
    BY ChainAssumption DEF Inv, ChainOK, Height
  <2>3. \A h \in 1..Height : /\ chain[h].run \in Runs \cup {NoRun}
                             /\ chain[h].payload \in Roots \cup {NoPayload}
    BY <2>2 DEF BlockData
  <2>4. \A r \in Runs :
          pub[r].pc \in {"idle", "preflighted", "proved", "submitted", "done", "failed"}
    BY DEF Inv, PublishersOK, Publisher
  <2>5. executed \subseteq 1..MaxHeight
    BY DEF Inv, RootIsTheOneExecuted
  <2> QED
    BY <2>1, <2>2, <2>3, <2>4, <2>5 DEF TypeOK, CountersOK, Inv, PublishersOK, MessagesOK
<1>2. DestProofs!AirdropAssumption
  BY DestAssumption, Zenon DEF Dest!AirdropAssumption, DestProofs!AirdropAssumption
<1>3. DestProofs!AirdropSpec => []DestProofs!AirdropTypeOK
  BY <1>2, DestProofs!AirdropTypeCorrect
<1> QED
  BY <1>1, <1>3, DestinationRefined, Invariance, CountersBounded, PTL
=============================================================================
