--------------------------- MODULE AirdropPipeline ---------------------------
(***************************************************************************)
(* The whole way of a Merkle root: a publisher proves it against a block   *)
(* of the source chain and submits it to the OApp contract, whose          *)
(* buildMerkleTree checks the commitment and sends the root over           *)
(* LayerZero; the destination's VerifiedAirdrop takes the first message    *)
(* that is delivered.                                                      *)
(*                                                                         *)
(* Interleaved with it: blocks are mined and reorganised while the proof   *)
(* is computed, the owner sends strings through the same OApp, several     *)
(* publishers run, the verifier is stopped, and LayerZero verifies         *)
(* messages in any order and delivers those it can.                        *)
(***************************************************************************)
EXTENDS SourceChain, FiniteSets

CONSTANTS
  Runs,            \* invocations of the publisher
  RootOf,          \* [Runs -> Roots]: root of the values a run proves
  StringWord,      \* first word of abi.encode(string), what `send` delivers
  NoRun, NoPayload,
  Confirmations,   \* blocks LayerZero waits before it verifies a message of
                   \* this pathway
  MaxSends,        \* bound on the strings the owner sends
  \* constants of the destination contract
  Players, Roots, Leaves, NoRoot, Provable,
  REGISTRATION_BONUS_POINTS, Awards, UNIT, Supply, MaxUint

ASSUME PipelineAssumption ==
  /\ RootOf \in [Runs -> Roots]
  /\ StringWord \in Roots
  /\ NoRun \notin Runs /\ NoPayload \notin Roots
  /\ Confirmations \in Nat /\ MaxReorg <= Confirmations
  /\ MaxSends \in Nat

VARIABLES
  pub,         \* per run: program counter and block commitment
  mempool,     \* runs whose transaction waits to be mined
  sends,       \* strings the owner has sent
  stopped,     \* the verifier rejects (emergency stop or removed selector)
  verified,    \* LayerZero: verified <<nonce, payload>> pairs
  executed,    \* LayerZero: nonces whose lzReceive succeeded
  players, playerToPoints, playerCount, merkleRoot, merkleRootSet,
  treasury, balanceOf, earned, claims, usedLeaves

Dest == INSTANCE VerifiedAirdrop

ASSUME DestAssumption == Dest!AirdropAssumption

destVars == <<players, playerToPoints, playerCount, merkleRoot, merkleRootSet,
              treasury, balanceOf, earned, claims, usedLeaves>>
sourceVars == <<pub, mempool, sends, stopped>>
lzVars == <<verified, executed>>
vars == <<chainVars, sourceVars, lzVars, destVars>>

NoCommitment == [blockNumber |-> 0, blockHash |-> ZeroHash]

TypeOK ==
  /\ Height \in 1..MaxHeight /\ epoch \in 0..MaxEpoch /\ tip \in Height..MaxHeight
  /\ \A h \in 1..Height : /\ chain[h].run \in Runs \cup {NoRun}
                          /\ chain[h].payload \in Roots \cup {NoPayload}
  /\ \A r \in Runs :
       pub[r].pc \in {"idle", "preflighted", "proved", "submitted", "done", "failed"}
  /\ mempool \subseteq Runs
  /\ sends \in 0..MaxSends
  /\ stopped \in BOOLEAN
  /\ verified \subseteq ((1..MaxHeight) \X Roots)
  /\ executed \subseteq 1..MaxHeight
  /\ Dest!AirdropTypeOK

Init ==
  /\ chain = <<[epoch |-> 0, run |-> NoRun, payload |-> NoPayload]>>
  /\ epoch = 0
  /\ tip = 1
  /\ pub = [r \in Runs |-> [pc |-> "idle", commitment |-> NoCommitment]]
  /\ mempool = {}
  /\ sends = 0
  /\ stopped = FALSE
  /\ verified = {}
  /\ executed = {}
  /\ Dest!AirdropInit

-----------------------------------------------------------------------------
(* The publisher *)

Goto(r, pc) == pub' = [pub EXCEPT ![r].pc = pc]

\* from_rpc at the latest block, then the preflight of readElements.
Preflight(r) ==
  /\ pub[r].pc = "idle"
  /\ pub' = [pub EXCEPT ![r] =
              [pc |-> "preflighted",
               commitment |-> [blockNumber |-> Height,
                               blockHash |-> HashOf(Height)]]]
  /\ UNCHANGED <<chainVars, mempool, sends, stopped, lzVars, destVars>>

\* into_input fetches the state proofs by block number and fails when they do
\* not match the header; after a reorganisation they may or may not match (a
\* replaced block can have the same state root).  The proof commits to the
\* header obtained first.
Prove(r) ==
  /\ pub[r].pc = "preflighted"
  /\ \/ Goto(r, "proved")
     \/ /\ pub[r].commitment.blockHash # HashOf(pub[r].commitment.blockNumber)
        /\ Goto(r, "failed")
  /\ UNCHANGED <<chainVars, mempool, sends, stopped, lzVars, destVars>>

\* TxSender.send, up to the transaction entering the mempool.
Submit(r) ==
  /\ pub[r].pc = "proved"
  /\ Goto(r, "submitted")
  /\ mempool' = mempool \cup {r}
  /\ UNCHANGED <<chainVars, sends, stopped, lzVars, destVars>>

\* TxSender.send returns with the transaction's receipt, whose status is not
\* looked at, or with None because the transaction left the mempool.
Finish(r) ==
  /\ pub[r].pc = "submitted"
  /\ r \notin mempool
  /\ Goto(r, "done")
  /\ UNCHANGED <<chainVars, mempool, sends, stopped, lzVars, destVars>>

DropTx(r) ==
  /\ r \in mempool
  /\ mempool' = mempool \ {r}
  /\ UNCHANGED <<chainVars, pub, sends, stopped, lzVars, destVars>>

-----------------------------------------------------------------------------
(* The source chain and the OApp contract *)

\* buildMerkleTree succeeds: the committed block is still the one the
\* blockhash opcode answers with, and the verifier accepts the proof.
BuildSucceeds(r) == /\ ValidateCommitment(pub[r].commitment)   \* "Invalid commitment"
                    /\ ~stopped

\* The transaction of run r is mined, and either sends the root or reverts;
\* it also reverts when the LayerZero fee exceeds the value it carries.
MineBuild(r) ==
  /\ r \in mempool
  /\ mempool' = mempool \ {r}
  /\ \/ BuildSucceeds(r) /\ Mine(r, RootOf[r])
     \/ Mine(r, NoPayload)
  /\ UNCHANGED <<pub, sends, stopped, lzVars, destVars>>

\* send: the owner's string, whose encoding begins with the offset word.
OwnerSend ==
  /\ sends < MaxSends
  /\ Mine(NoRun, StringWord)
  /\ sends' = sends + 1
  /\ UNCHANGED <<pub, mempool, stopped, lzVars, destVars>>

MineEmpty ==
  /\ Mine(NoRun, NoPayload)
  /\ UNCHANGED <<sourceVars, lzVars, destVars>>

\* Transactions of the abandoned blocks return to the mempool.
ReorgChain ==
  \E depth \in 1..MaxReorg :
    /\ Reorg(depth)
    /\ mempool' = mempool \cup
         ({chain[h].run : h \in (Height - depth + 1)..Height} \ {NoRun})
    /\ UNCHANGED <<pub, sends, stopped, lzVars, destVars>>

\* The verifier behind the OApp is stopped for good.
StopVerifier ==
  /\ ~stopped
  /\ stopped' = TRUE
  /\ UNCHANGED <<chainVars, pub, mempool, sends, lzVars, destVars>>

-----------------------------------------------------------------------------
(* LayerZero and the destination *)

\* Heights of the blocks that sent a message; the message's nonce counts them.
SendHeights == {h \in 1..Height : chain[h].payload # NoPayload}

\* Faulty variant: nonces count blocks, not messages.
NonceOfBlock(h) == h

Nonce(h) == Cardinality({g \in SendHeights : g <= h})

\* Faulty variant: attested as soon as the block exists.
ConfirmedAtOnce(h) == h \in SendHeights

\* The verifier network attests a message once its block is deep enough: the
\* pathway's confirmations are LayerZero's, no file of the repository sets them.
Confirmed(h) == h \in SendHeights /\ Height - h >= Confirmations

VerifyMessage ==
  \E h \in 1..Height :
    /\ Confirmed(h)
    /\ verified' = verified \cup {<<Nonce(h), chain[h].payload>>}
    /\ UNCHANGED <<chainVars, sourceVars, executed, destVars>>

\* The executor delivers a verified message whose predecessors are verified
\* too; a delivery that reverts leaves the message to be tried again.
Executable(m) == /\ m \in verified
                 /\ m[1] \notin executed
                 /\ \A k \in 1..m[1] : \E n \in verified : n[1] = k

Execute ==
  \E m \in verified :
    /\ Executable(m)
    /\ Dest!LzReceive(m[2])
    /\ executed' = executed \cup {m[1]}
    /\ UNCHANGED <<chainVars, sourceVars, verified>>

DestPlayers ==
  Dest!PlayerStep /\ UNCHANGED <<chainVars, sourceVars, lzVars>>

Next ==
  \/ \E r \in Runs : \/ Preflight(r) \/ Prove(r) \/ Submit(r) \/ Finish(r)
                     \/ DropTx(r) \/ MineBuild(r)
  \/ OwnerSend \/ MineEmpty \/ ReorgChain \/ StopVerifier
  \/ VerifyMessage \/ Execute \/ DestPlayers

\* The chain keeps growing and LayerZero's verifiers and executor keep serving
\* the pathway; nothing is assumed of publishers, owner or players.
Spec == /\ Init /\ [][Next]_vars
        /\ WF_vars(MineEmpty) /\ WF_vars(VerifyMessage) /\ WF_vars(Execute)

-----------------------------------------------------------------------------
(* Properties *)

\* A root on the source chain was proved about that chain: the block its proof
\* commits to is an ancestor of the block that sent it, at most Window blocks
\* older, also after the reorganisations that happened since.
SentRootIsAnchored ==
  \A h \in SendHeights :
    chain[h].run # NoRun =>
      LET c == pub[chain[h].run].commitment
      IN  /\ c.blockNumber \in (h - Window)..(h - 1)
          /\ c.blockHash = HashOf(c.blockNumber)

\* What LayerZero delivers was sent: every verified message is on the
\* canonical chain with that nonce and payload.
VerifiedIsSent ==
  \A m \in verified :
    \E h \in SendHeights : Nonce(h) = m[1] /\ chain[h].payload = m[2]

\* Exactly one message is ever executed: the one whose payload is the root.
RootIsTheOneExecuted ==
  IF merkleRootSet
  THEN \E k \in 1..MaxHeight : executed = {k} /\ <<k, merkleRoot>> \in verified
  ELSE executed = {}

\* Tokens leave the destination only against a root that stands on the source
\* chain: proved by a publisher, or sent by the owner.
ClaimsAgainstSentRoot ==
  usedLeaves # {} =>
    \E h \in SendHeights : /\ chain[h].payload = merkleRoot
                           /\ usedLeaves \subseteq Provable[chain[h].payload]

\* Once a message is deep enough on the source chain the destination gets a
\* root, whatever else is sent, stopped or reorganised.
ConfirmedIsDelivered == (\E h \in 1..Height : Confirmed(h)) ~> merkleRootSet
=============================================================================
