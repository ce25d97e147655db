---------------------------- MODULE SteelSystem ----------------------------
(***************************************************************************)
(* Steel: view calls are run once on the host against an RPC node, the     *)
(* state they read is fetched again as Merkle proofs, and the guest        *)
(* repeats the calls on those proofs alone.                                *)
(*                                                                         *)
(* The node is asked by block number, one request at a time; between two   *)
(* requests it may have switched to another fork.                          *)
(*                                                                         *)
(* A call is any program: it asks its database whatever the rules of       *)
(* revm allow, and asks the same as long as it is answered the same and is *)
(* run under the same rules.                                               *)
(***************************************************************************)
EXTENDS SteelChain, FiniteSets, SequencesExt

CONSTANTS
  HostSpec,      \* the chain specifications the host and the guest name
  GuestSpec,
  MaxCalls,      \* bound on the calls of one environment
  MaxQueries,    \* bound on the database queries of all calls
  MaxReorgs      \* bound on the switches between forks

ASSUME SteelAssumption ==
  /\ IsChainSpec(HostSpec) /\ IsChainSpec(GuestSpec)
  /\ MaxCalls \in Nat /\ MaxQueries \in Nat /\ MaxReorgs \in Nat

VARIABLES
  fork,        \* the fork the node is on
  reorgs,
  hostPc,      \* progress of the host
  header,      \* EvmEnv.header: the block the environment is created for
  hostRules,   \* EvmEnv.cfg_env of the host
  hostCall,    \* number of the host's present call
  accounts,    \* ProofDb.accounts: address -> slots read
  codeHashes,  \* ProviderDb.code_hashes: code hash -> address last seen with it
  contracts,   \* ProofDb.contracts: code hash -> code fetched
  numbers,     \* ProofDb.block_hash_numbers
  log,         \* history: queries of the preflight and their answers
  proofs,      \* EIP-1186 proofs fetched so far
  input,       \* EvmInput: tries, contracts and ancestors
  guestPc,
  previous,    \* into_env: the header its loop has reached
  blockHashes, \* StateDb.block_hashes
  guestRules,
  guestCall,
  linked,      \* WrapStateDb.account_storage: address -> storage
  answers      \* queries of the guest's calls and their answers

nodeVars == <<fork, reorgs>>
envVars == <<header, hostRules>>
dbVars == <<accounts, codeHashes, contracts, numbers>>
hostVars == <<hostPc, envVars, hostCall, dbVars, log, proofs, input>>
guestEnvVars == <<previous, blockHashes, guestRules>>
callVars == <<guestCall, linked, answers>>
guestVars == <<guestPc, guestEnvVars, callVars>>
vars == <<nodeVars, hostVars, guestVars>>

EmptyMap == [x \in {} |-> x]
Put(map, k, v) == [x \in DOMAIN map \cup {k} |-> IF x = k THEN v ELSE map[x]]

\* EvmEnv::with_chain_spec: the rules of the header's block.
WithChainSpec(spec, block) == ActiveFork(spec, Len(block), TimestampOf(block))

\* A query of one of the calls, and what it was answered.
Entry == [call : 1..MaxCalls, query : Query, answer : Answer]
Recorded(call, q, answer) == [call |-> call, query |-> q, answer |-> answer]
OfCall(asked, call) == {e \in ToSet(asked) : e.call = call}

\* Within a call revm starts with the accounts of the transaction; it asks for
\* an account once, for code by a hash an account was said to have, for storage
\* only of accounts with code, and for past blocks.
MayAsk(asked, q) ==
  /\ \A e \in asked : e.query # q
  /\ asked = {} => q[1] = "basic"
  /\ q[1] = "code" =>
       \E e \in asked : e.query[1] = "basic" /\ e.answer = q[2]
  /\ q[1] = "storage" =>
       \E e \in asked : e.query = <<"basic", q[2]>> /\ e.answer # NoCode

NoInput == [stateRoot |-> <<>>, known |-> {}, storageTries |-> EmptyMap,
            contracts |-> {}, ancestors |-> <<>>]

Init ==
  /\ fork \in Forks /\ reorgs = 0
  /\ hostPc = "start"
  /\ header = <<>> /\ hostRules = Unsupported /\ hostCall = 0
  /\ accounts = EmptyMap /\ codeHashes = EmptyMap /\ contracts = EmptyMap
  /\ numbers = {} /\ log = <<>> /\ proofs = <<>>
  /\ input = NoInput
  /\ guestPc = "waiting"
  /\ previous = <<>> /\ blockHashes = EmptyMap /\ guestRules = Unsupported
  /\ guestCall = 0 /\ linked = EmptyMap /\ answers = <<>>

-----------------------------------------------------------------------------
(* The node *)

\* Which fork is canonical matters to nobody once the input is complete.
Reorg ==
  /\ hostPc \in {"preflight", "proofs", "ancestors"}
  /\ reorgs < MaxReorgs
  /\ fork' \in Forks \ {fork}
  /\ reorgs' = reorgs + 1
  /\ UNCHANGED <<hostVars, guestVars>>

Canonical == Block(fork, BlockNumber)

-----------------------------------------------------------------------------
(* The host: preflight *)

\* from_provider and with_chain_spec, which panics for a block it has no rules
\* for.
FromProvider ==
  /\ hostPc = "start"
  /\ header' = Canonical
  /\ hostRules' = WithChainSpec(HostSpec, Canonical)
  /\ hostPc' = IF hostRules' = Unsupported THEN "aborted" ELSE "preflight"
  /\ UNCHANGED <<nodeVars, hostCall, dbVars, log, proofs, input, guestVars>>

\* A call may return once it has loaded its accounts.
CallReturned == hostCall > 0 => OfCall(log, hostCall) # {}

\* Contract::preflight: each call has an EVM of its own over the same database.
HostCalls ==
  /\ hostPc = "preflight" /\ CallReturned
  /\ hostCall < MaxCalls
  /\ hostCall' = hostCall + 1
  /\ UNCHANGED <<nodeVars, hostPc, envVars, dbVars, log, proofs, input, guestVars>>

Ask(q, answer) ==
  /\ hostPc = "preflight" /\ hostCall > 0
  /\ Len(log) < MaxQueries
  /\ MayAsk(OfCall(log, hostCall), q)
  /\ log' = Append(log, Recorded(hostCall, q, answer))
  /\ UNCHANGED <<nodeVars, hostPc, envVars, hostCall, proofs, input, guestVars>>

Basic(a) ==
  LET code == CodeOf(StateOf(Canonical)[a])
  IN  /\ Ask(<<"basic", a>>, code)
      /\ codeHashes' = IF code = NoCode THEN codeHashes
                                        ELSE Put(codeHashes, code, a)
      /\ accounts' = IF a \in DOMAIN accounts THEN accounts
                                              ELSE Put(accounts, a, {})
      /\ UNCHANGED <<contracts, numbers>>

\* The code is fetched from the account last seen with that hash, which by
\* now may hold other code, or none.
CodeByHash(c) ==
  /\ c \in DOMAIN codeHashes
  /\ LET code == CodeOf(StateOf(Canonical)[codeHashes[c]])
     IN  /\ Ask(<<"code", c>>, code)
         /\ contracts' = Put(contracts, c, code)
  /\ UNCHANGED <<accounts, codeHashes, numbers>>

\* The slot of an account that has vanished reads as zero.
Storage(a, s) ==
  LET account == StateOf(Canonical)[a]
      old == IF a \in DOMAIN accounts THEN accounts[a] ELSE {}
  IN  /\ Ask(<<"storage", a, s>>,
             SlotOf(account, s))
      /\ accounts' = Put(accounts, a, old \cup {s})
      /\ UNCHANGED <<codeHashes, contracts, numbers>>

BlockHash(n) ==
  /\ Ask(<<"blockhash", n>>, Block(fork, n))
  /\ numbers' = numbers \cup {n}
  /\ UNCHANGED <<accounts, codeHashes, contracts>>

\* into_input, which the publisher calls after one call.
EndPreflight ==
  /\ hostPc = "preflight" /\ CallReturned
  /\ hostPc' = "proofs"
  /\ UNCHANGED <<nodeVars, envVars, hostCall, dbVars, log, proofs, input, guestVars>>

\* Any request may fail for good (after the client's retries), which ends the
\* run with an error.
RpcFails ==
  /\ hostPc \in {"start", "preflight", "proofs", "ancestors"}
  /\ hostPc' = "aborted"
  /\ UNCHANGED <<nodeVars, envVars, hostCall, dbVars, log, proofs, input, guestVars>>

-----------------------------------------------------------------------------
(* The host: into_input *)

\* One proof per account, in the arbitrary order of a hash map.
GetProof(a) ==
  /\ hostPc = "proofs"
  /\ a \in DOMAIN accounts \ {proofs[k].address : k \in DOMAIN proofs}
  /\ proofs' = Append(proofs, [address |-> a, state |-> StateOf(Canonical),
                               slots |-> accounts[a]])
  /\ UNCHANGED <<nodeVars, hostPc, envVars, hostCall, dbVars, log, input, guestVars>>

\* MerkleTrie::from_rlp_nodes: the first node is the root, and the nodes of
\* proofs from another state hang below a root that is not there.
StateRoot(ps) == ps[1].state
KnownAccounts(ps) ==
  {p.address : p \in {q \in ToSet(ps) : q.state = StateRoot(ps)}}

StorageRoot(p) == p.state[p.address].storage

\* The proofs of accounts that are there and had slots read.
WithStorage(ps) ==
  {k \in DOMAIN ps : ps[k].slots # {} /\ ps[k].state[ps[k].address] # NoAccount}

\* The map from storage root to trie keeps the last trie with that root.
StorageTries(ps) ==
  [root \in {StorageRoot(ps[k]) : k \in WithStorage(ps)} |->
     ps[Max({k \in WithStorage(ps) : StorageRoot(ps[k]) = root})].slots]

\* The state root check, of into_input and again of into_env.
StateRootMatches(block, root) == StateOf(block) = root

BuildTries ==
  /\ hostPc = "proofs"
  /\ Len(proofs) = Cardinality(DOMAIN accounts)
  /\ IF proofs # <<>> /\ StateRootMatches(header, StateRoot(proofs))
     THEN /\ hostPc' = "ancestors"
          /\ input' = [NoInput EXCEPT
                         !.stateRoot = StateRoot(proofs),
                         !.known = KnownAccounts(proofs),
                         !.storageTries = StorageTries(proofs),
                         !.contracts = {contracts[h] : h \in DOMAIN contracts}]
     ELSE hostPc' = "refused" /\ UNCHANGED input
  /\ UNCHANGED <<nodeVars, envVars, hostCall, dbVars, log, proofs, guestVars>>

\* Faulty variant: one header too many is fetched at the older end.
OldestNeededAndParent == Min(numbers \cup {BlockNumber}) - 1

\* Faulty variant: the loop stops one header short.
OldestNeededExclusive == Min(numbers \cup {BlockNumber}) + 1

\* The oldest block whose header the guest will need.
OldestNeeded == Min(numbers \cup {BlockNumber})

\* Headers from the parent of the block down to the oldest one asked for.
GetAncestor ==
  /\ hostPc = "ancestors"
  /\ LET n == BlockNumber - 1 - Len(input.ancestors)
     IN  IF n >= OldestNeeded
         THEN /\ input' = [input EXCEPT
                             !.ancestors = Append(@, Block(fork, n))]
              /\ UNCHANGED <<hostPc, dbVars, proofs>>
         ELSE /\ hostPc' = "done"              \* the environment is consumed
              /\ accounts' = EmptyMap /\ codeHashes' = EmptyMap
              /\ contracts' = EmptyMap /\ numbers' = {} /\ proofs' = <<>>
              /\ UNCHANGED input
  /\ UNCHANGED <<nodeVars, envVars, hostCall, log, guestVars>>

-----------------------------------------------------------------------------
(* The guest: into_env *)

IntoEnv ==
  /\ guestPc = "waiting" /\ hostPc = "done"
  /\ IF StateRootMatches(header, input.stateRoot)
     THEN /\ guestPc' = "linking"
          /\ previous' = header
          /\ blockHashes' = Put(EmptyMap, Len(header), header)
     ELSE guestPc' = "panicked" /\ UNCHANGED <<previous, blockHashes>>
  /\ UNCHANGED <<nodeVars, hostVars, guestRules, callVars>>

\* Faulty variant: the ancestors are told apart by their numbers.
IsParentNumber(block, ancestor) == Len(ancestor) = Len(block) - 1

\* The header's parent hash is the hash of the ancestor.
IsParent(block, ancestor) == ParentOf(block) = ancestor

\* The ancestors not yet read by the loop.
Unread == Len(input.ancestors) + 1 - Cardinality(DOMAIN blockHashes)

\* One iteration of the loop.
LinkAncestor ==
  /\ guestPc = "linking" /\ Unread > 0
  /\ LET ancestor == input.ancestors[Cardinality(DOMAIN blockHashes)]
     IN  IF IsParent(previous, ancestor)
         THEN /\ blockHashes' = Put(blockHashes, Len(ancestor), ancestor)
              /\ previous' = ancestor
              /\ UNCHANGED guestPc
         ELSE guestPc' = "panicked" /\ UNCHANGED <<previous, blockHashes>>
  /\ UNCHANGED <<nodeVars, hostVars, guestRules, callVars>>

\* The loop is done; with_chain_spec follows.
EnvReady ==
  /\ guestPc = "linking" /\ Unread = 0
  /\ guestRules' = WithChainSpec(GuestSpec, header)
  /\ guestPc' = IF guestRules' = Unsupported THEN "panicked" ELSE "running"
  /\ UNCHANGED <<nodeVars, hostVars, previous, blockHashes, callVars>>

-----------------------------------------------------------------------------
(* The guest: its calls *)

\* The guest asks what the host asked until it is answered differently.
Replaying == guestRules = hostRules /\ IsPrefix(answers, log)
Expected == log[Len(answers) + 1]

\* The present call, if any, has asked all it will.
CallDone ==
  IF Replaying THEN Len(answers) < Len(log) => Expected.call # guestCall
               ELSE guestCall > 0 => OfCall(answers, guestCall) # {}

\* Every call has a WrapStateDb of its own.
GuestCalls ==
  /\ guestPc = "running" /\ CallDone
  /\ guestCall < IF Replaying THEN hostCall ELSE MaxCalls
  /\ guestCall' = guestCall + 1
  /\ linked' = EmptyMap
  /\ UNCHANGED <<nodeVars, hostVars, guestPc, guestEnvVars, answers>>

GuestAsks(q) ==
  /\ guestPc = "running" /\ guestCall > 0
  /\ IF Replaying
     THEN Len(answers) < Len(log) /\ Expected.call = guestCall /\ Expected.query = q
     ELSE Len(answers) < MaxQueries /\ MayAsk(OfCall(answers, guestCall), q)
  /\ UNCHANGED <<nodeVars, hostVars, guestEnvVars, guestCall>>

Answered(q, answer) ==
  /\ answers' = Append(answers, Recorded(guestCall, q, answer))
  /\ UNCHANGED guestPc

Panic == guestPc' = "panicked" /\ UNCHANGED answers

\* A sparse trie answers for the keys it was built for; for another key the
\* path may happen to be resolved, and otherwise the access panics.
Lookup(known, q, answer) == Answered(q, answer) \/ (~known /\ Panic)

GuestBasic(a) ==
  LET account == input.stateRoot[a]
  IN  /\ GuestAsks(<<"basic", a>>)
      /\ Lookup(a \in input.known, <<"basic", a>>, CodeOf(account))
      /\ linked' =
           IF account = NoAccount THEN Put(linked, a, NoAccount)
           ELSE IF account.storage \in DOMAIN input.storageTries
           THEN Put(linked, a, account) ELSE linked

GuestCode(c) ==
  /\ GuestAsks(<<"code", c>>)
  /\ IF c \in input.contracts THEN Answered(<<"code", c>>, c) ELSE Panic
  /\ UNCHANGED linked

GuestStorage(a, s) ==
  /\ GuestAsks(<<"storage", a, s>>)
  /\ IF a \in DOMAIN linked
     THEN Lookup(linked[a] = NoAccount
                   \/ s \in input.storageTries[linked[a].storage],
                 <<"storage", a, s>>, SlotOf(linked[a], s))
     ELSE Panic
  /\ UNCHANGED linked

GuestBlockHash(n) ==
  /\ GuestAsks(<<"blockhash", n>>)
  /\ IF n \in DOMAIN blockHashes
     THEN Answered(<<"blockhash", n>>, blockHashes[n])
     ELSE Panic
  /\ UNCHANGED linked

\* The journal, with the header's hash, is committed: the airdrop's guest does
\* so without any call.  A call that took another course than on the host may
\* also revert.
GuestEnds ==
  /\ guestPc = "running"
  /\ \/ CallDone /\ guestPc' = "committed"
     \/ ~Replaying /\ guestPc' = "panicked"
  /\ UNCHANGED <<nodeVars, hostVars, guestEnvVars, callVars>>

Next ==
  \/ Reorg \/ FromProvider \/ HostCalls \/ EndPreflight \/ RpcFails
  \/ \E a \in Addresses :
       \/ Basic(a) \/ GetProof(a) \/ GuestBasic(a)
       \/ \E s \in Slots : Storage(a, s) \/ GuestStorage(a, s)
  \/ \E c \in Codes : CodeByHash(c) \/ GuestCode(c)
  \/ \E n \in 1..(BlockNumber - 1) : BlockHash(n) \/ GuestBlockHash(n)
  \/ BuildTries \/ GetAncestor
  \/ IntoEnv \/ LinkAncestor \/ EnvReady \/ GuestCalls \/ GuestEnds

Spec == Init /\ [][Next]_vars

-----------------------------------------------------------------------------
(* Properties *)

TypeOK ==
  /\ fork \in Forks /\ reorgs \in 0..MaxReorgs
  /\ hostPc \in {"start", "preflight", "proofs", "ancestors", "done",
                 "refused", "aborted"}
  /\ header \in Blocks \cup {<<>>}
  /\ hostCall \in 0..MaxCalls /\ guestCall \in 0..MaxCalls
  /\ DOMAIN accounts \subseteq Addresses
  /\ \A a \in DOMAIN accounts : accounts[a] \subseteq Slots
  /\ DOMAIN codeHashes \subseteq Codes /\ DOMAIN contracts \subseteq Codes
  /\ numbers \subseteq 1..(BlockNumber - 1)
  /\ Len(log) <= MaxQueries /\ Len(answers) <= MaxQueries
  /\ log \in Seq(Entry) /\ answers \in Seq(Entry)
  /\ \A k \in DOMAIN proofs : proofs[k].address \in Addresses
  /\ input.ancestors \in Seq(Blocks)
  /\ guestPc \in {"waiting", "linking", "running", "panicked", "committed"}
  /\ DOMAIN linked \subseteq Addresses /\ DOMAIN blockHashes \subseteq 1..BlockNumber

\* Whatever forks the node went through while the host asked it, everything
\* the guest's calls are told is true of the one block the journal commits to.
GuestSound ==
  \A k \in DOMAIN answers : answers[k].answer = Truth(header, answers[k].query)

\* Two accounts whose storage was read have the same storage root: their
\* proofs compete for one entry of the host's storage_tries.
SharedRoot ==
  \E d, e \in ToSet(log) :
    /\ d.query[1] = "storage" /\ e.query[1] = "storage"
    /\ d.query[2] # e.query[2]
    /\ StateOf(header)[d.query[2]].storage = StateOf(header)[e.query[2]].storage

\* The specifications named by host and guest give the block the same rules.
SameRules == WithChainSpec(HostSpec, header) = WithChainSpec(GuestSpec, header)

\* Calls that ran on the host while the node stayed on its fork can be
\* proved under the same rules, storage roots permitting: the input holds all
\* the guest asks for, and the guest repeats the preflight answer by answer,
\* whatever an earlier call left in the database of the host.
ProvableOnOneFork ==
  reorgs = 0 /\ hostCall > 0 /\ SameRules =>
    /\ hostPc # "refused"
    /\ IsPrefix(answers, log)
    /\ guestPc = "panicked" => SharedRoot

\* "The resulting input contains inclusion proofs for all the required chain
\* state data" (into_input): the same calls never fail in the guest for lack
\* of them.
SameCallsProvable ==
  reorgs = 0 /\ hostCall > 0 => hostPc # "refused" /\ guestPc # "panicked"

\* Steel implements a proved call: the block is that of the host's first
\* request, the rules are those of the guest's EvmEnv.
Outcome == CASE guestPc = "committed" -> "committed"
             [] guestPc = "panicked"  -> "failed"
             [] OTHER                 -> "none"

Call == INSTANCE ProvedCall
          WITH NoBlock <- <<>>, NoRules <- Unsupported,
               block <- header, rules <- guestRules,
               reads <- {<<e.query, e.answer>> : e \in ToSet(answers)},
               outcome <- Outcome

ImplementsProvedCall == Call!Spec
=============================================================================
