# Penny Proofs in TLA+

This directory models the program of this repository: an airdrop whose Merkle
root is computed in a zkVM, checked on one chain, and claimed against on another.
All paths below are relative to the root of the repository.

## 1. The system

```
 RPC node --(by block number)--> Steel host --input--> Steel guest + airdrop guest
                                     |                        | journal, seal
                                     v                        v
                                  publisher ------tx----> PennyProofVerfiedAirdrop
                                                          |           |
                                       Steel.validateCommitment   RiscZeroVerifierRouter
                                           (blockhash)            / EmergencyStop / base verifier
                                                          |
                                                     LayerZero message
                                                          v
                                                   VerifiedAirdrop <--- players
```

| Component | State | Operations | What is hard | What makes it correct |
|---|---|---|---|---|
| Verifier router (`contracts/src/RiscZeroVerifierRouter.sol`) | selector -> verifier, owner, pending owner | addVerifier, removeVerifier, getVerifier, verify, verifyIntegrity, ownership | long histories, changes of owner | one implementation per selector across time; removal is final |
| Emergency stop (`contracts/src/RiscZeroVerifierEmergencyStop.sol`) | paused, guardian | estop(), estop(receipt), verify, verifyIntegrity, ownership | it proxies a contract that may change | stops for a cause, once, for ever |
| Base verifiers (`contracts/src/groth16`, `contracts/src/test/RiscZeroMockVerifier.sol`) | selector, control root, control ID | constructor, verify, verifyIntegrity | constants in two byte orders, public signals of half words | accept a seal only for its selector and claim |
| Claim digests (`contracts/src/IRiscZeroVerifier.sol`, `StructHash.sol`, `Util.sol`) | none | digest, ok, reverseByteOrder | byte order, packed widths | agree with the prover's digest; a digest stands for one claim |
| Seals (`contracts/src/groth16.rs`, `lib.rs`, `ffi/src/main.rs`) | none | encode, abi_encode, prove | releases of prover, host and verifier differ; proofs of the dev mode | an honest proof is accepted, by the verifier of its release only |
| Airdrop (`proving/verified-airdrop/lz/contracts/VerifiedAirdrop.sol`) | players, points, root, token balance | _lzReceive, register, play, claim | any order of calls, balance of the contract | points are paid once and in full; the first root stays |
| OApp (`proving/verified-airdrop/oapp/contracts`) | owner, LayerZero channel | buildMerkleTree, send | age and reorganisation of the committed block | sends only roots proved about its own recent chain |
| Publisher (`proving/verified-airdrop/apps`) | one run | preflight, prove, submit | delay, reorganisation, dropped or reverted transaction | what it proves is about one block |
| LayerZero (external) | nonces, attested payloads | attest, execute | unordered delivery, reverting receivers | delivers what was sent |
| Airdrop guest (`proving/verified-airdrop/methods/guest`) | array of hashes | build, get_root, main | shape of the tree for odd lists, repetitions | every value has a proof; the root stands for these values and no others |
| Steel host (`steel/src/host`, `contract.rs`) | ProofDb, ProviderDb | from_provider, with_chain_spec, preflight of several calls, into_input | the node may change forks between two requests | the input suffices for the same call |
| Steel guest (`steel/src/lib.rs`, `contract.rs`) | StateDb, WrapStateDb | into_env, with_chain_spec, reads of the calls | partial tries | everything read is true of the committed block |
| Sparse trie (`steel/src/mpt.rs`) | tree of nodes | from_rlp_nodes, get, hash | nodes embedded or referenced by hash, unresolved parts | its root is the full trie's; it answers what it was built for, and nothing wrongly |
| Caching provider (`steel/src/host/provider/file.rs`) | cache, file | requests, load, save on drop | crash during the save, answers that outlive their truth, several providers over one file | an answer was once the node's, and stays the same for one provider; what was saved is loaded again |
| Chain spec (`steel/src/config.rs`) | none | active_fork, validate_spec_id, gas_constants, new_single | boundaries, conditions on blocks and on time in one list | the latest active fork, host and guest alike; forks never go back |
| Build (`build/src/lib.rs`, `build.rs` of methods and apps) | ELF file, `ImageID.sol`, `Elf.sol`, publisher's binary | embed_methods, generate_solidity_files, link | failure between two writes, skipped builds, a copy made by hand | after a build that ended well all of them are of one guest |

`PROJECT.json` lists under "hazards" what in this code is hard to test, at its
line, with the properties aimed at it, and under "map" the lines each definition
stands for.

## 2. The modules

Conventions. A Solidity call that reverts changes nothing: it is a step that is
not taken, so each `require`, each checked operation and each condition of a
called contract is a guard. Hashes are injective and are modelled by what they
commit to. Variables marked "history" record what happened for the properties to
speak about; no guard reads them. Definitions introduced as "faulty variant" are
never used: each is one definition with a plausible bug, and substituting it
must break the property `PROJECT.json` pairs it with.

| Module | Models | State and actions |
|---|---|---|
| `Ownable2Step` | OpenZeppelin's two-step ownership (external) | `owner`, `pendingOwner`; one action per function |
| `WriteOnceMap` | what a router promises | abstract specification |
| `VerifierRouter` | the router | `verifiers`; `AddVerifier`, `RemoveVerifier`, `Verify`; history `routed` |
| `EmergencyStop` | the emergency stop | `paused`; `EstopByGuardian`, `EstopByReceipt`, `CallVerify`; `verifiable` is what the wrapped contract verifies now |
| `VerifierSystem` | the contracts deployed together | instances of the two modules above; `Decider` follows a verify call through proxies and routers |
| `VerifiedAirdrop` | the destination contract | `Register`, `Play`, `Claim`, `LzReceive` |
| `SourceChain` | the source chain (external) and `validateCommitment` | `Mine`, `Reorg`; `BlockHash` with its window |
| `AirdropPipeline` | publisher, OApp, LayerZero, composed with `VerifiedAirdrop` | `Preflight`, `Prove`, `Submit`, `MineBuild`, `OwnerSend`, `ReorgChain`, `VerifyMessage`, `Execute`, ... |
| `ChainSpec` | `steel/src/config.rs` | operators; forks by block and by second, the two deployed specifications |
| `SteelChain` | the chain as its node may show it (external) | operators: forks, blocks, queries and their true answers |
| `ProvedCall` | what Steel promises of the calls it proves | abstract specification: `Fix` a block, `Begin` with its rules, `Read` what is true of it, `Commit` or `Fail` |
| `SteelSystem` | an environment with its calls, host and guest, over `SteelChain` | one action per RPC request, header check and database access; `Reorg` between any two requests; `HostCalls`, `GuestCalls` begin a call |
| `GuestMerkleTree` | the airdrop guest | one action per iteration of its loops |
| `CachedProvider` | the caching provider, and the file between runs | `New` and `FromFile`; `Hit`, `Fetch` and `PanicOnMiss` answer a query; save on drop as `Truncate` then `Write` or `WriteFails`; `Crash`; `NodeMoves` changes the node's answers |
| `MerkleTrie` | the sparse trie, and the full trie its nodes come from (external) | nodes and RLP items as records, up to the height of a key; recursive functions on them for encoding, decoding, resolving and lookup; `ReadNode`, `Resolve` |
| `ClaimDigest` | claim digests and byte order in the contracts | operators on sequences of bytes |
| `Prover` | the zkVM: digests, exit codes and public signals of a receipt (external) | operators, in the prover's own terms |
| `ProvingPath` | build, deployment, seals, and their verification | `EmbedMethods`, `WriteImageId`, `WriteElf`, `Link`, their failures, `SkipBuild`; `CopyImageId`, `Deploy`; `Prove`, `Submit`, `ForgeTest` |
| `...Proofs` | proofs about the module they are named after; `VerifierProofs` about `VerifierRouter` and `EmergencyStop`, `SteelProofs` about `ChainSpec`, `SteelSystem` and `CachedProvider` | section 4 |

`AirdropPipeline` abstracts what `SteelSystem` details: its `Prove` step ends with
a commitment to the block of the publisher's first request, or fails if the chain
changed. `SteelSystem` uses a trie of `MerkleTrie` as the set of keys it answers
for under its root. `VerifierSystem` takes from the base verifiers what
`ProvingPath` details: which seal is accepted for which claim. `GuestMerkleTree` supports the pipeline's constant `RootOf` (a root stands
for the values proved) and the airdrop's constant `Provable` (the leaves some proof
is accepted for).

What the models leave out on purpose: events and errors' texts; re-entrancy (the
only external call of the airdrop is the last statement of `claim`, to a token
without hooks); gas, except that it bounds the depth of a verify call; the amount
of the LayerZero fee (a transaction that carries too little reverts, as
`MineBuild` may); the points `play` draws (any in range); nonce, balance
and code size of accounts.

A digest in `ClaimDigest` and `Prover` is the sequence of its 32 bytes, where a
byte is its place in the digest of a term. So an order of bytes that differs
between contracts and prover makes another digest, and a width that differs makes
another term, while SHA-256 itself stays injective.

In `SteelSystem` a call is any program: it asks its database whatever revm's rules
allow next, and the guest's call asks what the host's asked as long as it is
answered the same and runs under the same rules. Each block of `SteelChain` says
under which rules the network itself ran it; `hostRules` and `guestRules` are what
the chain specification named by the host and by the guest give for it.

## 3. The runs

| Run | Bounds | What it shows |
|---|---|---|
| `router` | 2 accounts, 2 selectors, 3 verifiers, symmetric | one implementation per selector across time, removal and renouncement final, refinement of `WriteOnceMap` |
| `emergency_stop` | 2 accounts, 3 receipts, two of them all-zero claims | a stop has a cause and is final |
| `verifier_system` | 2 base verifiers, 2 selectors, one stop behind and one in front of the router, calls 4 deep | revocation and uniqueness hold end to end, with every routing the owner can set up |
| `airdrop` | 2 players, 2 roots, 2 leaves, awards of 1 or 2, 17 tokens, largest integer 17 | points are paid once and in full, the list has one entry per registration, the root held covers every claim paid |
| `airdrop_deployment` (violated) | 1 token in all, less than one point is worth | no claim can be paid with the deployed supply |
| `pipeline` | 2 publishers, 1 string, 4 blocks, window 2, one reorganisation of 1 block, 1 confirmation | the delivered root is anchored to the source chain; a confirmed message leads to a root |
| `steel` | 4 forks of 2 blocks, 2 accounts, 2 slots, 2 calls of 4 queries in all, 2 switches, 4 releases of the rules, two specifications that differ on one fork | the guest's calls read one block, under its rules, also when the host ran them under others; they can be proved if no switch happens, the rules are the same and storage roots differ; refinement of `ProvedCall` |
| `steel_shared_root` (violated) | no switch | equal storage roots make a call unprovable |
| `caching` | 2 providers over one file, 2 queries, 2 moves of the node, 1 crash or write error, symmetric | answers were once true; a torn file has an interruption as its cause; what was saved while nobody else cached stays in every file that loads |
| `trie` | 5 keys of 4 nibbles, 2 values (one makes a leaf of exactly 32 bytes), up to 3 keys asked | the sparse trie keeps the root, answers what was asked, and is never wrong |
| `guest_tree` | lists of up to 5 out of 3 values | every value provable, the root determines the values it stands for |
| `proving_path` | 2 guests, 2 journals, 2 releases, 3 exits, with and without an assumption, symmetric | what is accepted was executed; an honest proof is accepted; contracts and prover agree on digests; a build's files agree |

Why the bounds are enough. The router's and the stop's properties speak of one
selector and of at most two verifiers or receipts at a time, and of ownership
passing between two accounts; the third verifier lets a second replacement
happen. In the airdrop, 17 tokens and 17 as the largest integer let both a
payment that exceeds the balance and points that exceed the integer occur. In
the pipeline a window of two blocks and four blocks let a commitment be fresh,
just in the window, and out of it, before and after a reorganisation, and let two
messages compete for a nonce. In Steel four queries are the least with which two
accounts and a slot of each are read, by one call or by two, and two switches are
the least with which the node leaves a fork and returns to it. The forks' last
blocks are one second before, at and one after the second a release starts
with, and past the start of a release that Steel does not support; the host names a
specification in which that release starts two seconds later, so that on one fork it
runs the calls under other rules than the guest. Five leaves give both
parities at two levels of the tree. Two providers over one file and two moves
of the node give every overlap of load, save and replay of two caches that differ;
more providers repeat them. In the proving path the exits are the one that is
accepted, one with the greatest user code, and one whose system code alone
differs; two guests and two releases let every part of the path lag behind the
others. The five keys of the trie share prefixes of every
length from none to three nibbles, so that a root is a leaf, an extension or a
branch; with the two values a leaf has less than, exactly and more than the 32
bytes from which nodes are referenced by hash.

Two runs use a VIEW. That of `MCVerifierSystem` leaves out the histories checked in
the runs of the single contracts; its invariants are state functions of the
variables in the view, and types are checked in the single runs. That of
`MCSteelSystem` identifies states of a host that is done which no later step and no
property tells apart: of the node only whether it ever switched forks is left, since
it switches no more, and of a host whose rules are not the guest's only its header,
rules and input, since such a guest never compares its answers with the preflight.

What the runs showed on the way, beside the two findings. A comment that the code
contradicts: `PennyProofVerfiedAirdrop.sol:90` says that `buildMerkleTree` "Removes
duplicates (if any) from the original array and returns the new array", but neither
it nor the guest removes any and nothing is returned. It sends the root of the journal
as it is (:116-122), the guest builds that root over the values as they come, and a
list with a repeated value has another root than the list without the repetition. No
property here says whether repetitions should be gone: `EveryValueProvable` says that
they do no harm to who may claim, `RootFixesValues` which values a root stands for and
not how often, and the theorem `RootBinds` of section 4 that the root counts them.

A player may
register again after a claim, which the list of players then shows twice:
`ListedOncePerRegistration` therefore counts registrations. Two caching providers
over one file may overwrite what the other fetched since it was created, or leave a
file that does not parse: `SavedIsKept` is about the saves that completed while nobody
else cached, which no later overlap may lose, and `TornOnlyByInterruption` excepts
files that were shared. With the deployed chain specifications no fork
exceeds the greatest supported one, so that the comparison in `active_fork` with
`max_spec_id` never fails and a block after a fork the library does not know runs
under the last rules it does; `ImplementsProvedCall` therefore needs a chain
specification that names the next fork, as that of the run does. An environment
without any call has no state to prove and its input is refused. The airdrop guest
commits the root of the values in its input and executes no call on its
environment, so that what `GuestSound` says of calls says nothing of those values:
the model of the pipeline takes `RootOf` as given. `steel/tests/eth_call.rs`
names Sepolia's specification in the guest for all of its calls, the host's being
Mainnet's for some: such calls are sound (`GuestSound` holds for any two
specifications), and can be proved for the blocks to which both give the same rules,
the premise `SameRules` of `ProvableOnOneFork`. The OApp imports
`oapp/contracts/ImageID.sol`, which the build does not write
(`methods/build.rs` writes `contracts/ImageID.sol`): `CopyImageId` is a step
somebody has to take, and until then honest proofs are rejected, as
`HonestAccepted` allows.

Deadlock is checked in `proving_path`, where somebody can always build again. It is
not checked elsewhere: contracts have states in which no call succeeds (a
renounced, stopped proxy; players without tokens left), chains are bounded by
`MaxHeight`, a Steel or guest run ends, a trie is
built once, and the node behind the caching provider makes `MaxMoves` moves.

Fairness. Only `AirdropPipeline` states any: `MineEmpty` (the source chain keeps
growing), `VerifyMessage` and `Execute` (LayerZero's verifiers and executor keep
serving the pathway, as the fee of each message pays them to). Nothing is
assumed of publishers, the owner or players.

The assumption `MaxReorg <= Confirmations` says that LayerZero waits longer than the
reorganisations that happen on the source chain reach; without it `VerifiedIsSent` and
`ClaimsAgainstSentRoot` do not hold. No file of the repository sets this value:
`oapp/layerzero.config.ts:44-80` configures 42 confirmations for the connection of
`MyOApp` from Fuji to Sepolia only, while the airdrop's contract sends to `eidSepolia`
(`PennyProofVerfiedAirdrop.sol:117`) from Amoy, where `scripts/addPeers.ts` sets its
peer, a connection that has LayerZero's defaults. So the assumption is one about the
deployment, to be checked before a pathway is opened, and nothing the code ensures.

## 4. The proofs

Eight modules hold proofs, for all values of the constants that satisfy the named
assumptions of the module they extend: any number of chains, forks, calls, players,
providers, receipts and leaves. Of the 38 properties that passing runs check, 37 are
theorems. The assumptions say that bounds are natural numbers, that a default
(`NoRun`, `Absent`, the zero address, ...) is not an ordinary value, and in addition

* `PipelineAssumption`: `MaxReorg <= Confirmations`, as above;
* `AirdropAssumption`: points are given in positive amounts, the supply and the
  bonus of a registration fit in an integer; `DestAssumption`: the same of the
  pipeline's destination;
* `SystemAssumption`: the contracts deployed together have different addresses, none
  of them zero or the tombstone, and a base verifier has a selector;
* `ProverAssumption`: user exit codes are below 256; `FileAssumption`: an
  `ImageID.sol` that names no image is not that of a guest;
* `SteelAssumption`: host and guest name a chain specification of at least one
  fork, as every constructor makes it;
* `TrieAssumption`: all keys have one length (they are hashes), and the RLP string of a
  value has at least one byte.

TLC evaluates all of them in the runs, and the inductive invariants below were
checked on the runs' instances as well.

**Router** (`VerifierProofs`). Type invariant; `OneImplementationAcrossTime`
and `ServedOrRemoved` from the inductive `RouterInv` (the set of verifiers an entry has
served is empty while it is unset, the entry itself while it is in use, and has at
most one member once it is a tombstone: uniqueness alone is not inductive, because
it does not say that the one past verifier is the present one); `RenouncedIsFinal`
from the invariant that a contract without owner has no pending owner; refinement of
`WriteOnceMap`.

**Emergency stop** (`VerifierProofs`). Type invariant; finality of the stop;
`StoppedWithCause`; `RenouncedLeavesBreaker`, with the same ownership invariant.

**The verifier contracts together** (`VerifierSystemProofs`).
`OneDeciderAcrossTime`, `NeverReaccepted` and `BreakerNeedsExploit`, for any depth
of calls. Where a call ends is a walk from contract to contract; a walk is
unfolded by induction over its length, so that `Decider` has a value for each entry
point (`Decisions`) although a proxy may be listed behind itself. The invariant says
of each entry and selector that the base verifier it once had decides now or that
the way is `Gone`: it ends at a tombstone or a stopped proxy, and no step brings such
a way back (`GoneStays`). Neither property is inductive without it, since it is the
way and not the receipt that has been given up. `MadeOfItsContracts`: each contract
in the composition is a router or a stop as its own module specifies it, for which
the steps of the others are changes of what stands behind it; what is proved of the
single contracts holds of them here.

**Airdrop** (`VerifiedAirdropProofs`). Type invariant; `PaidWhatWasEarned`, by
distributing the token unit over each change of points;
`ListedOncePerRegistration`, by the cardinality of a player's entries;
`RootIsFinal`; `ClaimsCoveredByRoot`.

**Pipeline** (`AirdropPipelineProofs`). Type invariant; `SentRootIsAnchored`,
`VerifiedIsSent`, `RootIsTheOneExecuted` and `ClaimsAgainstSentRoot`. They are
inductive together with `ChainOK`, `PublishersOK` (a run whose transaction is pending
or mined has submitted it, so it does not begin again and change its commitment) and
`MessagesOK`: a verified message stands in a block at most `tip - Confirmations`.
`VerifiedIsSent` alone is not inductive, since a reorganisation might replace the
block of the message. A reorganisation keeps the blocks up to
`tip - MaxReorg`, with their hashes and, because a nonce counts the messages up to
its block, with their nonces (`ReorgStays`, `NonceStays`). `DestinationRefined`: the
destination half of the pipeline implements `VerifiedAirdrop`, so that all that is
proved of the airdrop alone holds in the pipeline.

**Steel** (`SteelProofs`). Type invariant; soundness, `GuestSound`, and that
`SteelSystem` implements `ProvedCall`. The inductive `Inv` says where host and guest
are in their order of steps (`HostOrder`, `GuestOrder`), that each header the guest
has reached and each hash it keeps is an ancestor of the committed block and each
storage it has linked that of its account in that block (`DbSound`), and that the
answers given so far are true (`AnswersSound`). It says nothing of the host's database
and of what the node answered on which fork: what the guest checks suffices.
Refinement needs the hypothesis `NetworkKnown`: for each block the guest's chain
specification gives the rules the network ran it under, or none.

Completeness, `ProvableOnOneFork`, needs the opposite: all that the host has stored.
The invariant `OneFork` follows a query from the log through the host's database
(`HostDbInv`: recorded under its account, its code, its number), the proofs
(`ProofsInv`), the input (`InputInv`: every slot asked for is in the trie with its
account's storage root, unless two accounts share that root) and the ancestors
(`AncestorsInv`: down to the lowest number asked for) to the guest, whose answers are
an initial part of the log (`ReplayInv`). That a storage query comes after a `basic`
of the same call (`LogInv`) is what makes the guest's database, new for each call, have
the account linked. `Complete` promises all this as long as the node has not switched
and the header, once there is one, has the same rules on both sides (`SameRules`, a
premise of the property): without them the guest's calls are other calls, of which
only soundness is left.

**Chain specification** (`SteelProofs`). A later block at a later second never
has an earlier fork; a fork that `active_fork` returns is a valid one; a specification
of a single fork gives it for every block.

**Proving path** (`ProvingPathProofs`). `AcceptedIsExecuted`, `HonestAccepted`,
`BuildsAgree` and `DigestsAgree`. The argument follows the bytes: the five swaps of
`reverseByteOrderUint256` reverse a word; the bytes that `ReceiptClaimLib.digest`
hashes determine all fields of the claim, the packed exit codes included; the public
signals, two halves of reversed words each, determine the claim digest and the release;
a seal determines its receipt. In the other direction the verifier's selector and
signals are shown to be the host's and the circuit's: `taggedList` of the contracts
hashes any list as the prover does (`ListMeets`), the constant of `ControlID.sol` that is
kept in the opposite byte order is reversed back by the constructor
(`ControlReversed`), and a digest is cut where the circuit cuts it (`SignalsMeet`). The inductive part is `Typed`, `Judged` (a verdict is about a seal that
`encode` or the FFI program made of a receipt) and `Built` (what each file holds at each
point of the build: `BuildsAgree` alone says nothing of a build that goes on).

**Caching provider** (`SteelProofs`, after Steel itself). Type invariant; `AnswersOnceTrue`
from the invariant that all caches and the file hold only what the node has
told, under the query it was told for; `TornOnlyByInterruption` from an invariant
about one provider at a time (`Alone`): as long as nobody shared the file, at most one
caching provider is alive and the file is torn only by a fault or while that provider
saves; `SavedIsKept` from one that holds of shared files too (`Kept`): every cache that
may still be saved holds what was saved while nobody else cached, because its provider
was created after that save, or is the one that made it, and a file that does not
parse starts none.

**Airdrop guest** (`GuestMerkleTreeProofs`). `NothingUnhashed`, `EveryValueProvable`
and `RootFixesValues`, for lists of any length. `Inv` says how far the two loops have
come: which leaves are hashed and what `hash_lookup` has of them (`LeavesIn`), and
from which place on every inner place holds the hash of its children (`NodesIn`).
What is left is about finished heaps. The recursive definition of the root has one
solution, found from the last place down (`HeapExists`, `HashesUnique`), and it is the
array (`BuiltIsHeap`). The proof of `verifyCalldata` climbs from a place to its parent,
on whichever side it hangs (`ProofsClimb`). `RootFixesValues` follows from more, `RootBinds`: two lists with one root hold
the same values, equally often, although pairs are hashed without their order and the
lists may have different lengths. The places `j..2j` cut every path to a leaf once
(`AllCuts`), so the sets of indices under the two children of a place are disjoint, and
counts of a value add up (`OccSplits`); equal hashes then have equal counts below them,
place by place from the leaves up (`HashFixesValues`). The hypothesis on the hash is
the model's: keccak256 is injective, and the hash of a leaf is not that of a pair.

**Sparse trie** (`MerkleTrieProofs`). `RootPreserved`, `AskedAnswered` and
`NeverWrong`, for keys of any length, any map from keys to values, any keys asked for
and any order of the nodes. The invariant of the steps, `Inv`, is short: `nodes_by_hash`
holds what `parse_node` makes of the nodes read, and those are all but the pending
ones. What is left is about functions on trees.

The recursive functions of the module exist, by induction over the height of nodes and
items (`EncodedExists`, `DecodeExists`, `OfExists`) and, for the full trie, over the
positions from the longest to the empty one (`AtExists`). A path survives
`encode_path_leaf` and `decode_path`, odd or even, with the kind of its node
(`PathReadBack`). The core is about a node of the full trie and two things read back
from it: `Own`, its RLP, decoded and resolved, and `Seen`, the reference to it in its
parent, decoded and resolved. Both are *faithful*: they have the node's RLP and its
reference, so that hashes agree; `get` on them agrees with the node or panics; and it
agrees where all nodes on the path of the key that are not embedded have been read. One
follows from the other (`SeenFromOwn`: a small node is embedded, a large one is looked
up under its hash, or stays a digest), and `Own` of a node from `Seen` of its children
(`OwnOfEnds`, `OwnOfExtension`, `OwnOfBranch`); `FullTrieFaithful` puts them together
from the longest positions to the root. `FullTrieAnswers` says that the full trie
answers as the map it was made of: at each position the keys below it are none, one,
several with a common path, or several that part there. The lookup by hash needs no
assumption about collisions beyond the model's: a hash is a term, so what stands under
it in `nodes_by_hash` is the decoded item itself. The lengths that decide what is
embedded are never computed in these proofs; they hold for every `Length`.

Induction. The library's induction theorems take an operator, which the provers
cannot instantiate; here induction is over the least natural number outside a *set*
(`NatSetInduction`, from `NatLessThanWellFounded` and `WFMin`), and that
reaches recursive functions, one set at a time.

Only model-checked:

* `ConfirmedIsDelivered`, a liveness property under fairness, which the prover does not
  handle. It is the one property of a passing run that no theorem states.

What the theorems leave to the model: that the hash functions are injective, that a
call is any program that asks the same when it is answered the same, and the external
contracts and services as the repository uses them.

## 5. Not modelled

* The pairing arithmetic of `Groth16Verifier.sol` (generated code, over 254-bit
  fields): `verifyProof` accepts a proof for the signals it was made for.
* Conversions between JSON-RPC types and headers, accounts and proofs
  (`steel/src/host/provider/ethers.rs`, `steel/src/ethereum.rs`): pure functions
  without state. A request that fails or finds no block is modelled.
* Trie nodes that are not well-formed RLP, and the count of nodes for the log.
* The text of generated files, hex and ABI encoding, arguments and printing of the
  programs, process I/O of the FFI.
* The one-off scripts that wire the pathway (`addPeers.ts` and others), and the
  copies the OApp holds of contracts that are modelled where they come from.

## 6. What is done, and what could follow

Done, in this order: router, emergency stop and their composition; airdrop;
pipeline; Steel with several calls, chain specifications and the abstract proved
call; guest tree; caching provider; sparse trie; digests, seals and build; the
proofs above.

What could follow: `MerkleTrie` in the place of `SteelSystem`'s sets of keys, and a proof
of the guest's calls over it.
