----------------------------- MODULE SteelProofs -----------------------------
(***************************************************************************)
(* Fork selection, for all chain specifications, block numbers and times;  *)
(* the soundness of Steel for all chains, forks and calls (what the guest  *)
(* is told is true of the block it commits to, and Steel implements        *)
(* ProvedCall); its completeness: what a preflight read on one fork, the   *)
(* input holds and the guest repeats; and the provider the host asks when  *)
(* answers are cached in a file, for any number of providers, queries,     *)
(* answers, moves of the node and faults.                                  *)
(***************************************************************************)
EXTENDS SteelSystem, CachedProvider, SequenceTheorems, FiniteSetTheorems,
        WellFoundedInduction, NaturalsInduction, TLAPS

-----------------------------------------------------------------------------
(* Greatest and least of a set of releases *)

\* A set of natural numbers that is not empty has a least one.
LEMMA MinExists ==
  ASSUME NEW S \in SUBSET Nat, S # {}
  PROVE  Min(S) \in S /\ \A k \in S : Min(S) <= k
<1>1. PICK m \in S : \A k \in S : ~(<<k, m>> \in OpToRel(<, Nat))
  BY NatLessThanWellFounded, WFMin
<1>2. m \in S /\ m \in Nat
  BY <1>1, Zenon
<1>3. ASSUME NEW k \in S PROVE m <= k
  <2>1. k \in Nat
    BY <1>3
  <2>2. k < m => <<k, m>> \in OpToRel(<, Nat)
    BY <1>2, <2>1 DEF OpToRel
  <2>3. ~(k < m)
    BY <1>1, <1>3, <2>2, Zenon
  <2> QED
    BY <1>2, <2>1, <2>3
<1> QED
  BY <1>2, <1>3 DEF Min

\* Latest is the greatest of a set of releases.
LEMMA LatestIsGreatest ==
  ASSUME NEW ids \in SUBSET SpecId, ids # {}
  PROVE  Latest(ids) \in ids /\ \A id \in ids : id <= Latest(ids)
<1> DEFINE T == {255 - id : id \in ids}
<1>1. T \in SUBSET Nat /\ T # {}
  <2>1. \A id \in ids : 255 - id \in Nat
    BY DEF SpecId
  <2>2. T \subseteq Nat
    BY <2>1
  <2>3. PICK id \in ids : TRUE
    OBVIOUS
  <2>4. 255 - id \in T
    BY <2>3
  <2> QED
    BY <2>2, <2>4
<1>2. PICK x \in T : \A y \in T : x <= y
  BY <1>1, MinExists
<1>3. PICK top \in ids : x = 255 - top
  BY <1>2
<1>4. \A id \in ids : id <= top
  <2> TAKE id \in ids
  <2>1. 255 - top <= 255 - id
    BY <1>2, <1>3
  <2> QED
    BY <2>1 DEF SpecId
<1> QED
  BY <1>3, <1>4 DEF Latest

\* Earliest is the least of a set of releases.
LEMMA EarliestIsLeast ==
  ASSUME NEW ids \in SUBSET SpecId, ids # {}
  PROVE  Earliest(ids) \in ids /\ \A id \in ids : Earliest(ids) <= id
<1>1. \E x \in ids : \A y \in ids : x <= y
  <2>1. ids \in SUBSET Nat
    BY DEF SpecId
  <2> QED
    BY <2>1, MinExists
<1> QED
  BY <1>1 DEF Earliest

-----------------------------------------------------------------------------
(* Fork selection *)

\* What spec_id finds: the latest release whose condition holds.
LEMMA SpecIdIsLatest ==
  ASSUME NEW spec, IsChainSpec(spec), NEW n \in Nat, NEW t \in Nat
  PROVE  \/ /\ SpecIdAt(spec, n, t) = Unsupported
            /\ \A id \in DOMAIN spec.hardForks : ~Active(spec.hardForks[id], n, t)
         \/ /\ SpecIdAt(spec, n, t) \in DOMAIN spec.hardForks
            /\ SpecIdAt(spec, n, t) \in SpecId
            /\ Active(spec.hardForks[SpecIdAt(spec, n, t)], n, t)
            /\ \A id \in DOMAIN spec.hardForks :
                 Active(spec.hardForks[id], n, t) => id <= SpecIdAt(spec, n, t)
<1> DEFINE active == {id \in DOMAIN spec.hardForks : Active(spec.hardForks[id], n, t)}
<1>1. active \in SUBSET SpecId
  BY DEF IsChainSpec
<1>2. CASE active = {}
  BY <1>2 DEF SpecIdAt
<1>3. CASE active # {}
  <2>1. Latest(active) \in active /\ \A id \in active : id <= Latest(active)
    BY <1>1, <1>3, LatestIsGreatest
  <2>2. SpecIdAt(spec, n, t) = Latest(active)
    BY <1>3 DEF SpecIdAt
  <2> HIDE DEF active
  <2>3. /\ SpecIdAt(spec, n, t) \in active
        /\ \A id \in active : id <= SpecIdAt(spec, n, t)
    BY <2>1, <2>2
  <2> USE DEF active
  <2> QED
    BY <1>1, <2>3
<1> QED
  BY <1>2, <1>3

\* A condition that holds at a block holds at all later ones: conditions on
\* numbers and on times may be mixed in one specification.
LEMMA StaysActive ==
  ASSUME NEW spec, IsChainSpec(spec), NEW id \in DOMAIN spec.hardForks,
         NEW n \in Nat, NEW t \in Nat, NEW m \in Nat, NEW u \in Nat,
         n <= m, t <= u, Active(spec.hardForks[id], n, t)
  PROVE  Active(spec.hardForks[id], m, u)
<1>1. spec.hardForks[id].at \in Nat
  BY DEF IsChainSpec
<1> QED
  BY <1>1 DEF Active

\* spec_id never goes back: a block that is not below and not before another is
\* not run under earlier rules than it, conditions on blocks and times mixed.
THEOREM ForksNeverGoBack ==
  ASSUME NEW spec, IsChainSpec(spec),
         NEW n \in Nat, NEW t \in Nat, NEW m \in Nat, NEW u \in Nat,
         n <= m, t <= u
  PROVE  SpecIdAt(spec, n, t) <= SpecIdAt(spec, m, u)
<1>1. CASE SpecIdAt(spec, n, t) = Unsupported
  <2>1. SpecIdAt(spec, m, u) \in SpecId \cup {Unsupported}
    BY SpecIdIsLatest
  <2> QED
    BY <1>1, <2>1 DEF Unsupported, SpecId
<1>2. CASE SpecIdAt(spec, n, t) # Unsupported
  <2> DEFINE id == SpecIdAt(spec, n, t)
  <2>1. id \in DOMAIN spec.hardForks /\ Active(spec.hardForks[id], n, t)
    BY <1>2, SpecIdIsLatest
  <2>2. Active(spec.hardForks[id], m, u)
    BY <2>1, StaysActive
  <2> QED
    BY <2>1, <2>2, SpecIdIsLatest
<1> QED
  BY <1>1, <1>2

\* A fork that active_fork returns is one that validate_spec_id accepts, so the
\* two checks of ChainSpec (config.rs) never disagree.
THEOREM ActiveIsValid ==
  ASSUME NEW spec, IsChainSpec(spec), NEW n \in Nat, NEW t \in Nat,
         ActiveFork(spec, n, t) # Unsupported
  PROVE  ValidSpecId(spec, ActiveFork(spec, n, t))
<1> DEFINE id == SpecIdAt(spec, n, t)
<1>1. ActiveFork(spec, n, t) = id /\ ~(id > spec.maxSpecId) /\ id # Unsupported
  BY DEF ActiveFork
<1>2. id \in DOMAIN spec.hardForks /\ id \in SpecId
  BY <1>1, SpecIdIsLatest
<1>3. Earliest(DOMAIN spec.hardForks) <= id
  BY <1>2, EarliestIsLeast DEF IsChainSpec
<1>4. id <= spec.maxSpecId
  <2>1. spec.maxSpecId \in SpecId
    BY DEF IsChainSpec
  <2>2. \A x, y \in SpecId : ~(x > y) => x <= y
    BY DEF SpecId
  <2> QED
    BY <1>1, <1>2, <2>1, <2>2
<1> QED
  BY <1>1, <1>3, <1>4 DEF ValidSpecId

\* A specification of ChainSpec::new_single gives every block its one release.
THEOREM SingleForEver ==
  ASSUME NEW chainId, NEW id \in SpecId, NEW constants, NEW n \in Nat, NEW t \in Nat
  PROVE  ActiveFork(NewSingle(chainId, id, constants), n, t) = id
<1> DEFINE spec == NewSingle(chainId, id, constants)
<1>1. /\ DOMAIN spec.hardForks = {id} /\ spec.maxSpecId = id
      /\ DOMAIN spec.gasConstants = {id}
      /\ spec.hardForks[id] = [kind |-> "block", at |-> 0]
  BY DEF NewSingle, AtBlock
<1>2. IsChainSpec(spec)
  BY <1>1 DEF IsChainSpec
<1>3. Active(spec.hardForks[id], n, t)
  BY <1>1 DEF Active
<1> HIDE DEF spec
<1>4. SpecIdAt(spec, n, t) = id
  BY <1>1, <1>2, <1>3, SpecIdIsLatest
<1>5. ActiveFork(spec, n, t) = id
  BY <1>1, <1>4 DEF ActiveFork, SpecId
<1> QED
  BY <1>5 DEF spec

-----------------------------------------------------------------------------
(* Blocks *)

\* A chain up to some block of another, the empty one included.
Below(chain, block) ==
  \E n \in 0..Len(block) : chain = SubSeq(block, 1, n)

\* What the parent hash of a header below a block commits to is below it too.
LEMMA ParentBelow ==
  ASSUME NEW block \in Seq(BlockData), NEW chain, Below(chain, block)
  PROVE  /\ Below(ParentOf(chain), block)
         /\ ParentOf(chain) = SubSeq(block, 1, Len(ParentOf(chain)))
<1>1. PICK n \in 0..Len(block) : chain = SubSeq(block, 1, n)
  BY DEF Below
<1>2. Len(block) \in Nat /\ \A k \in 1..Len(block) : block[k] \in BlockData
  BY LenProperties, ElementOfSeq
<1>3. Len(chain) = n
  BY <1>1, <1>2, SubSeqProperties
<1>4. CASE n <= 1
  <2>1. SubSeq(block, 1, 0) = <<>> /\ ParentOf(chain) = <<>>
    BY <1>2, <1>3, <1>4, SubSeqEmpty DEF ParentOf
  <2>2. 0 \in 0..Len(block) /\ Len(<<>>) = 0
    BY <1>2
  <2> QED
    BY <2>1, <2>2 DEF Below
<1>5. CASE n >= 2
  <2>1. n \in 1..Len(block) /\ n - 1 \in 1..(n - 1 + 1) /\ n - 1 \in 0..Len(block)
    BY <1>2, <1>5
  <2>2. SubSeq(SubSeq(block, 1, n), 1, n - 1) = SubSeq(block, 1, n - 1)
    <3>1. /\ 1 \in 1..Len(block) /\ 1 \in 1..(n - 1 + 1)
          /\ 1 + 1 - 1 = 1 /\ 1 + (n - 1) - 1 = n - 1
      BY <1>2, <1>5
    <3> QED
      BY <2>1, <3>1, SubSeqOfSubSeq
  <2>3. Len(SubSeq(block, 1, n - 1)) = n - 1
    BY <1>2, <2>1, <1>5, SubSeqProperties
  <2> QED
    BY <1>1, <1>3, <2>1, <2>2, <2>3 DEF Below, ParentOf
<1> QED
  BY <1>2, <1>4, <1>5

\* The block the node shows for the environment is one of the blocks.
LEMMA CanonicalBlock ==
  ASSUME fork \in Forks
  PROVE  Canonical \in Blocks /\ Canonical # <<>>
<1>1. BlockNumber \in 1..BlockNumber
  BY ChainAssumption
<1>2. History[fork] \in Seq(BlockData) /\ Len(History[fork]) = BlockNumber
  BY ChainAssumption
<1>3. Len(SubSeq(History[fork], 1, BlockNumber)) = BlockNumber
  BY <1>2, ChainAssumption
<1> QED
  BY <1>1, <1>3, ChainAssumption DEF Canonical, Block, Blocks

\* A block is a sequence of what its headers hold, with at least the genesis.
LEMMA BlockIsSequence ==
  ASSUME NEW block \in Blocks
  PROVE  block \in Seq(BlockData) /\ Len(block) \in 1..BlockNumber
<1>1. PICK f \in Forks, n \in 1..BlockNumber : block = SubSeq(History[f], 1, n)
  BY DEF Blocks, Block
<1> QED
  BY <1>1, ChainAssumption, SubSeqProperties

\* The part of a fork's block up to a number is the fork's block of that number.
LEMMA PartOfFork ==
  ASSUME NEW f \in Forks, NEW n \in 1..BlockNumber
  PROVE  /\ Block(f, n) \in Blocks /\ Len(Block(f, n)) = n
         /\ SubSeq(Block(f, BlockNumber), 1, n) = Block(f, n)
         /\ n > 1 => ParentOf(Block(f, n)) = Block(f, n - 1)
<1> DEFINE h == History[f]
<1>1. h \in Seq(BlockData) /\ Len(h) = BlockNumber /\ BlockNumber \in Nat \ {0}
  BY ChainAssumption
<1>2. ASSUME NEW k \in 1..BlockNumber, NEW j \in 1..k
      PROVE  SubSeq(SubSeq(h, 1, k), 1, j) = SubSeq(h, 1, j)
  <2>1. /\ 1 \in 1..Len(h) /\ k \in 1..Len(h) /\ 1 \in 1..(k - 1 + 1)
        /\ j \in 1..(k - 1 + 1) /\ 1 + 1 - 1 = 1 /\ 1 + j - 1 = j
    BY <1>1
  <2> QED
    BY <1>1, <2>1, SubSeqOfSubSeq
<1>3. Len(Block(f, n)) = n
  <2>1. \A i \in 1..n : h[i] \in BlockData
    BY <1>1, ElementOfSeq
  <2>2. Len(SubSeq(h, 1, n)) = n
    BY <2>1, SubSeqProperties
  <2> QED
    BY <2>2 DEF Block
<1>4. SubSeq(Block(f, BlockNumber), 1, n) = Block(f, n)
  BY <1>1, <1>2 DEF Block
<1>5. ASSUME n > 1 PROVE ParentOf(Block(f, n)) = Block(f, n - 1)
  <2>1. n - 1 \in 1..n
    BY <1>5
  <2> QED
    BY <1>2, <1>3, <2>1 DEF ParentOf, Block
<1> QED
  BY <1>3, <1>4, <1>5 DEF Blocks

-----------------------------------------------------------------------------
(* The invariant *)

\* Entries of a call's history that are true of a block.
TrueEntry(block) ==
  {Recorded(call, q, Truth(block, q)) : call \in Nat, q \in Query}

\* The host fixes the header before all else and keeps it; the guest starts
\* when the host is done.
HeaderFixed ==
  \/ hostPc \in {"start", "aborted"} /\ header = <<>>
  \/ hostPc # "start" /\ header \in Blocks

HostOrder ==
  /\ fork \in Forks
  /\ HeaderFixed
  /\ guestPc # "waiting" => hostPc = "done"

\* Nothing is read, and no rules are set, before the environment is ready.
GuestOrder ==
  /\ guestPc = "waiting" => blockHashes = EmptyMap
  /\ guestPc \in {"waiting", "linking"} =>
       guestRules = Unsupported /\ answers = <<>> /\ linked = EmptyMap
  /\ guestPc = "running" => guestRules # Unsupported
  /\ guestCall \in Nat

\* Each part of the guest's database holds what the header commits to.
DbSound ==
  /\ guestPc \in {"linking", "running"} => input.stateRoot = StateOf(header)
  /\ guestPc = "linking" => Below(previous, header)
  /\ \A n \in DOMAIN blockHashes : blockHashes[n] = SubSeq(header, 1, n)
  /\ \A a \in DOMAIN linked : linked[a] = StateOf(header)[a]

AnswersSound == answers \in Seq(TrueEntry(header))

Inv == HostOrder /\ GuestOrder /\ DbSound /\ AnswersSound

\* No answers yet are answers of any kind.
LEMMA EmptyAnswers == ASSUME NEW S PROVE <<>> \in Seq(S)
OBVIOUS

\* A step of the host leaves the guest waiting, with nothing to be sound about.
LEMMA HostStep ==
  ASSUME Inv, hostPc # "done", UNCHANGED guestVars, fork' \in Forks, HeaderFixed'
  PROVE  Inv'
<1>1. guestPc = "waiting" /\ guestPc' = "waiting"
  BY DEF Inv, HostOrder, guestVars
<1>2. HostOrder' /\ GuestOrder'
  BY <1>1 DEF Inv, HostOrder, GuestOrder, guestVars, guestEnvVars, callVars
<1>3. DbSound'
  BY <1>1, <1>2 DEF GuestOrder, DbSound, EmptyMap
<1>4. AnswersSound'
  BY <1>1, <1>2, EmptyAnswers DEF GuestOrder, AnswersSound
<1> QED
  BY <1>2, <1>3, <1>4 DEF Inv

HostNext ==
  \/ Reorg \/ FromProvider \/ HostCalls \/ EndPreflight \/ RpcFails
  \/ \E a \in Addresses : Basic(a) \/ GetProof(a) \/ \E s \in Slots : Storage(a, s)
  \/ \E c \in Codes : CodeByHash(c)
  \/ \E n \in 1..(BlockNumber - 1) : BlockHash(n)
  \/ BuildTries \/ GetAncestor

\* What all the host's steps have in common.
LEMMA HostFrame ==
  ASSUME Inv, HostNext
  PROVE  /\ hostPc # "done" /\ UNCHANGED guestVars /\ fork' \in Forks
         /\ HeaderFixed'
         /\ header' # header => header = <<>>
<1> USE DEF Inv, HostOrder, HeaderFixed
<1>1. CASE Reorg
  BY <1>1 DEF Reorg, hostVars, envVars
<1>2. CASE FromProvider
  BY <1>2, CanonicalBlock DEF FromProvider, nodeVars
<1>3. CASE HostCalls \/ EndPreflight \/ RpcFails
  BY <1>3 DEF HostCalls, EndPreflight, RpcFails, nodeVars, envVars
<1>4. ASSUME NEW q, NEW answer, Ask(q, answer)
      PROVE  /\ hostPc # "done" /\ hostPc # "start" /\ hostPc' = hostPc
             /\ UNCHANGED guestVars /\ fork' = fork /\ header' = header
  BY <1>4 DEF Ask, nodeVars, envVars
<1>5. ASSUME NEW a \in Addresses, Basic(a) \/ \E s \in Slots : Storage(a, s)
      PROVE  \E q, answer : Ask(q, answer)
  <2>1. CASE Basic(a)
    BY <2>1 DEF Basic
  <2>2. CASE \E s \in Slots : Storage(a, s)
    BY <2>2 DEF Storage
  <2> QED
    BY <1>5, <2>1, <2>2
<1>6. ASSUME \/ \E c \in Codes : CodeByHash(c)
             \/ \E n \in 1..(BlockNumber - 1) : BlockHash(n)
      PROVE  \E q, answer : Ask(q, answer)
  BY <1>6 DEF CodeByHash, BlockHash
<1>7. CASE \E a \in Addresses : GetProof(a)
  BY <1>7 DEF GetProof, nodeVars, envVars
<1>8. CASE BuildTries \/ GetAncestor
  BY <1>8 DEF BuildTries, GetAncestor, nodeVars, envVars
<1>9. CASE \E q, answer : Ask(q, answer)
  BY <1>4, <1>9
<1> QED
  BY <1>1, <1>2, <1>3, <1>5, <1>6, <1>7, <1>8, <1>9 DEF HostNext

-----------------------------------------------------------------------------
(* Steps of the guest *)

GuestReads ==
  \/ \E a \in Addresses : GuestBasic(a) \/ \E s \in Slots : GuestStorage(a, s)
  \/ \E c \in Codes : GuestCode(c)
  \/ \E n \in 1..(BlockNumber - 1) : GuestBlockHash(n)

HostKept == UNCHANGED <<fork, hostPc, header, input>>

\* The facts of the invariant about a guest that runs.
LEMMA Running ==
  ASSUME Inv, guestPc = "running"
  PROVE  /\ hostPc = "done" /\ header \in Blocks
         /\ input.stateRoot = StateOf(header)
         /\ guestRules # Unsupported
BY DEF Inv, HostOrder, HeaderFixed, GuestOrder, DbSound

\* An access of a call is answered with the truth about the header's block, or
\* panics.
ReadOutcome ==
  /\ guestPc = "running" /\ HostKept
  /\ UNCHANGED <<guestEnvVars, guestCall>>
  /\ \A a \in DOMAIN linked' : linked'[a] = StateOf(header)[a]
  /\ \/ \E q \in Query : Answered(q, Truth(header, q))
     \/ Panic

\* Whatever the guest's database is asked, it answers what is true of the block,
\* or it panics: account, storage, code and block hash (StateDb, db.rs).
LEMMA ReadTrue ==
  ASSUME Inv, GuestReads
  PROVE  ReadOutcome
<1>1. ASSUME NEW q, GuestAsks(q)
      PROVE  /\ guestPc = "running" /\ HostKept
             /\ UNCHANGED <<guestEnvVars, guestCall>>
  BY <1>1 DEF GuestAsks, HostKept, nodeVars, hostVars, envVars
<1>2. \A a \in DOMAIN linked : linked[a] = StateOf(header)[a]
  BY DEF Inv, DbSound
<1>3. ASSUME NEW a \in Addresses, GuestBasic(a)
      PROVE  ReadOutcome
  <2> DEFINE q == <<"basic", a>>
  <2>1. GuestAsks(q)
    BY <1>3 DEF GuestBasic
  <2>2. input.stateRoot = StateOf(header)
    BY <1>1, <2>1, Running
  <2>3. q \in Query /\ Truth(header, q) = CodeOf(input.stateRoot[a])
    BY <2>2 DEF Query, Truth
  <2>4. Answered(q, Truth(header, q)) \/ Panic
    BY <1>3, <2>3 DEF GuestBasic, Lookup
  <2>5. linked' = linked \/ linked' = Put(linked, a, StateOf(header)[a])
    BY <1>3, <2>2 DEF GuestBasic
  <2>6. \A b \in DOMAIN linked' : linked'[b] = StateOf(header)[b]
    BY <1>2, <2>5 DEF Put
  <2> QED
    BY <1>1, <2>1, <2>3, <2>4, <2>6 DEF ReadOutcome
<1>4. ASSUME NEW a \in Addresses, NEW s \in Slots, GuestStorage(a, s)
      PROVE  ReadOutcome
  <2> DEFINE q == <<"storage", a, s>>
  <2>1. GuestAsks(q) /\ linked' = linked
    BY <1>4 DEF GuestStorage
  <2>2. q \in Query /\ Truth(header, q) = SlotOf(StateOf(header)[a], s)
    BY DEF Query, Truth
  <2>3. CASE a \in DOMAIN linked
    <3>1. Answered(q, SlotOf(linked[a], s)) \/ Panic
      BY <1>4, <2>3 DEF GuestStorage, Lookup
    <3> QED
      BY <1>1, <1>2, <2>1, <2>2, <2>3, <3>1 DEF ReadOutcome
  <2>4. CASE a \notin DOMAIN linked
    BY <1>1, <1>2, <1>4, <2>1, <2>4 DEF GuestStorage, ReadOutcome
  <2> QED
    BY <2>3, <2>4
<1>5. ASSUME NEW c \in Codes, GuestCode(c)
      PROVE  ReadOutcome
  <2> DEFINE q == <<"code", c>>
  <2>1. GuestAsks(q) /\ linked' = linked /\ (Answered(q, c) \/ Panic)
    BY <1>5 DEF GuestCode
  <2>2. q \in Query /\ Truth(header, q) = c
    BY DEF Query, Truth
  <2> QED
    BY <1>1, <1>2, <2>1, <2>2 DEF ReadOutcome
<1>6. ASSUME NEW n \in 1..(BlockNumber - 1), GuestBlockHash(n)
      PROVE  ReadOutcome
  <2> DEFINE q == <<"blockhash", n>>
  <2>1. GuestAsks(q) /\ linked' = linked
    BY <1>6 DEF GuestBlockHash
  <2>2. q \in Query /\ Truth(header, q) = SubSeq(header, 1, n)
    BY DEF Query, Truth
  <2>3. Answered(q, Truth(header, q)) \/ Panic
    BY <1>6, <2>2 DEF GuestBlockHash, Inv, DbSound
  <2> QED
    BY <1>1, <1>2, <2>1, <2>2, <2>3 DEF ReadOutcome
<1> QED
  BY <1>3, <1>4, <1>5, <1>6 DEF GuestReads

\* A true answer, or none, leaves the answers sound.
LEMMA AnswersKept ==
  ASSUME Inv, guestCall' = guestCall, header' = header,
         (\E q \in Query : Answered(q, Truth(header, q))) \/ answers' = answers
  PROVE  AnswersSound'
<1>1. answers \in Seq(TrueEntry(header)) /\ guestCall \in Nat
  BY DEF Inv, AnswersSound, GuestOrder
<1>2. ASSUME NEW q \in Query, Answered(q, Truth(header, q))
      PROVE  answers' \in Seq(TrueEntry(header))
  <2>1. Recorded(guestCall, q, Truth(header, q)) \in TrueEntry(header)
    BY <1>1 DEF TrueEntry
  <2> QED
    BY <1>1, <1>2, <2>1, AppendProperties DEF Answered
<1>3. answers' \in Seq(TrueEntry(header))
  BY <1>1, <1>2
<1> QED
  BY <1>3 DEF AnswersSound

GuestNext ==
  IntoEnv \/ LinkAncestor \/ EnvReady \/ GuestCalls \/ GuestReads \/ GuestEnds

\* Every step of the guest keeps the invariant and leaves the host's state alone.
LEMMA GuestStep ==
  ASSUME Inv, GuestNext
  PROVE  Inv' /\ HostKept
<1>1. HostOrder
  BY DEF Inv
<1>2. ASSUME IntoEnv
      PROVE  Inv' /\ HostKept
  <2>1. /\ guestPc = "waiting" /\ hostPc = "done" /\ HostKept
        /\ guestPc' \in {"linking", "panicked"} /\ UNCHANGED <<guestRules, callVars>>
    BY <1>2 DEF IntoEnv, nodeVars, hostVars, envVars, HostKept
  <2>2. header \in Blocks /\ header \in Seq(BlockData) /\ Len(header) \in Nat
    BY <1>1, <2>1, BlockIsSequence DEF HostOrder, HeaderFixed
  <2>3. HostOrder' /\ GuestOrder'
    BY <2>1 DEF Inv, HostOrder, HeaderFixed, GuestOrder, HostKept, callVars
  <2>4. SubSeq(header, 1, Len(header)) = header /\ Below(header, header)
    BY <2>2, SubSeqFull DEF Below
  <2>5. DbSound'
    <3>1. CASE StateRootMatches(header, input.stateRoot)
      <4>1. previous' = header /\ blockHashes' = Put(EmptyMap, Len(header), header)
        BY <1>2, <3>1 DEF IntoEnv
      <4>2. \A n \in DOMAIN blockHashes' : blockHashes'[n] = SubSeq(header, 1, n)
        BY <2>4, <4>1 DEF Put, EmptyMap
      <4> QED
        BY <2>1, <2>4, <3>1, <4>1, <4>2
           DEF Inv, GuestOrder, DbSound, StateRootMatches, HostKept, callVars, EmptyMap
    <3>2. CASE ~StateRootMatches(header, input.stateRoot)
      BY <1>2, <2>1, <3>2 DEF IntoEnv, Inv, DbSound, HostKept, callVars
    <3> QED
      BY <3>1, <3>2
  <2>6. AnswersSound'
    BY <2>1, AnswersKept DEF HostKept, callVars
  <2> QED
    BY <2>1, <2>3, <2>5, <2>6 DEF Inv
<1>3. ASSUME LinkAncestor
      PROVE  Inv' /\ HostKept
  <2>1. /\ guestPc = "linking" /\ HostKept
        /\ guestPc' \in {"linking", "panicked"} /\ UNCHANGED <<guestRules, callVars>>
    BY <1>3 DEF LinkAncestor, nodeVars, hostVars, envVars, HostKept
  <2>2. hostPc = "done" /\ header \in Blocks /\ header \in Seq(BlockData)
    BY <1>1, <2>1, BlockIsSequence DEF HostOrder, HeaderFixed
  <2>3. HostOrder' /\ GuestOrder'
    BY <2>1, <2>2 DEF Inv, HostOrder, HeaderFixed, GuestOrder, HostKept, callVars
  <2>4. DbSound'
    <3> DEFINE ancestor == input.ancestors[Cardinality(DOMAIN blockHashes)]
    <3>1. CASE IsParent(previous, ancestor)
      <4>1. /\ previous' = ancestor /\ ancestor = ParentOf(previous)
            /\ blockHashes' = Put(blockHashes, Len(ancestor), ancestor)
        BY <1>3, <3>1 DEF LinkAncestor, IsParent
      <4>2. Below(previous, header)
        BY <2>1 DEF Inv, DbSound
      <4>3. Below(ancestor, header) /\ ancestor = SubSeq(header, 1, Len(ancestor))
        BY <2>2, <4>1, <4>2, ParentBelow
      <4>4. \A n \in DOMAIN blockHashes' : blockHashes'[n] = SubSeq(header, 1, n)
        BY <4>1, <4>3 DEF Inv, DbSound, Put
      <4> QED
        BY <2>1, <4>1, <4>3, <4>4 DEF Inv, DbSound, HostKept, callVars, Below
    <3>2. CASE ~IsParent(previous, ancestor)
      BY <1>3, <2>1, <3>2 DEF LinkAncestor, Inv, DbSound, HostKept, callVars
    <3> QED
      BY <3>1, <3>2
  <2>5. AnswersSound'
    BY <2>1, AnswersKept DEF HostKept, callVars
  <2> QED
    BY <2>1, <2>3, <2>4, <2>5 DEF Inv
<1>4. ASSUME EnvReady \/ GuestCalls \/ GuestEnds
      PROVE  Inv' /\ HostKept
  <2>1. /\ HostKept /\ UNCHANGED <<previous, blockHashes, answers>>
        /\ guestPc \in {"linking", "running"}
        /\ guestPc' \in {"running", "panicked", "committed"}
        /\ guestPc' = "running" => guestRules' # Unsupported
        /\ guestCall' \in Nat
        /\ linked' \in {linked, EmptyMap}
    <3>1. CASE EnvReady
      BY <3>1 DEF EnvReady, nodeVars, hostVars, envVars, HostKept, callVars,
                  Inv, GuestOrder
    <3>2. CASE GuestCalls
      BY <3>2 DEF GuestCalls, nodeVars, hostVars, envVars, HostKept,
                  guestEnvVars, Inv, GuestOrder
    <3>3. CASE GuestEnds
      BY <3>3 DEF GuestEnds, nodeVars, hostVars, envVars, HostKept,
                  guestEnvVars, callVars, Inv, GuestOrder
    <3> QED
      BY <1>4, <3>1, <3>2, <3>3
  <2>2. HostOrder' /\ GuestOrder'
    BY <2>1 DEF Inv, HostOrder, HeaderFixed, GuestOrder, HostKept
  <2>3. DbSound'
    BY <2>1 DEF Inv, DbSound, HostKept, EmptyMap
  <2>4. AnswersSound'
    BY <2>1 DEF Inv, AnswersSound, HostKept
  <2> QED
    BY <2>1, <2>2, <2>3, <2>4 DEF Inv
<1>5. ASSUME GuestReads
      PROVE  Inv' /\ HostKept
  <2>1. /\ guestPc = "running" /\ HostKept
        /\ UNCHANGED <<guestEnvVars, guestCall>>
        /\ \A a \in DOMAIN linked' : linked'[a] = StateOf(header)[a]
        /\ (\E q \in Query : Answered(q, Truth(header, q))) \/ Panic
    BY <1>5, ReadTrue DEF ReadOutcome
  <2>2. guestPc' \in {"running", "panicked"}
    BY <2>1 DEF Answered, Panic
  <2>3. HostOrder' /\ GuestOrder'
    BY <2>1, <2>2 DEF Inv, HostOrder, HeaderFixed, GuestOrder, HostKept, guestEnvVars
  <2>4. DbSound'
    BY <2>1, <2>2 DEF Inv, DbSound, HostKept, guestEnvVars
  <2>5. AnswersSound'
    BY <2>1, AnswersKept DEF HostKept, Panic
  <2> QED
    BY <2>1, <2>3, <2>4, <2>5 DEF Inv
<1> QED
  BY <1>2, <1>3, <1>4, <1>5 DEF GuestNext

-----------------------------------------------------------------------------
(* Soundness *)

\* A step is one of the host and its node, or one of the guest.
LEMMA NextSplit == Next <=> HostNext \/ GuestNext
BY DEF Next, HostNext, GuestNext, GuestReads

\* The invariant holds before the host has asked for anything.
LEMMA InvInit == Init => Inv
<1> SUFFICES ASSUME Init PROVE Inv
  OBVIOUS
<1>1. HostOrder /\ GuestOrder /\ DbSound
  BY DEF Init, HostOrder, HeaderFixed, GuestOrder, DbSound, EmptyMap
<1>2. AnswersSound
  BY EmptyAnswers DEF Init, AnswersSound
<1> QED
  BY <1>1, <1>2 DEF Inv

\* The invariant is kept by every step.
LEMMA InvStep == Inv /\ [Next]_vars => Inv'
<1> SUFFICES ASSUME Inv, [Next]_vars PROVE Inv'
  OBVIOUS
<1>1. CASE HostNext
  BY <1>1, HostFrame, HostStep
<1>2. CASE GuestNext
  BY <1>2, GuestStep
<1>3. CASE UNCHANGED vars
  BY <1>3 DEF vars, nodeVars, hostVars, envVars, guestVars, guestEnvVars, callVars,
              Inv, HostOrder, HeaderFixed, GuestOrder, DbSound, AnswersSound
<1> QED
  BY <1>1, <1>2, <1>3, NextSplit

\* Every reachable state satisfies the invariant: the input's parts that into_env
\* has checked, and no others, are believed, and they are those of one block.
THEOREM Invariance == Spec => []Inv
BY InvInit, InvStep, PTL DEF Spec

\* Everything the guest's calls are told is true of the block the journal
\* commits to, whatever forks the node showed the host.
THEOREM Soundness == Spec => []GuestSound
<1>1. Inv => GuestSound
  <2> SUFFICES ASSUME Inv, NEW k \in DOMAIN answers
               PROVE  answers[k].answer = Truth(header, answers[k].query)
    BY DEF GuestSound
  <2>1. answers[k] \in TrueEntry(header)
    BY ElementOfSeq DEF Inv, AnswersSound
  <2> QED
    BY <2>1 DEF TrueEntry, Recorded
<1> QED
  BY <1>1, Invariance, PTL

-----------------------------------------------------------------------------
(* Types *)

\* What the host has fetched of one account (EIP-1186).
Fetched == [address : Addresses, state : State, slots : SUBSET Slots]

\* The strengthening of TypeOK: the header is the whole block of some fork.
HostTypes ==
  /\ reorgs \in 0..MaxReorgs
  /\ hostPc \in {"start", "preflight", "proofs", "ancestors", "done", "refused", "aborted"}
  /\ \/ header = <<>> /\ guestPc = "waiting"
     \/ \E f \in Forks : header = Block(f, BlockNumber)
  /\ hostCall \in 0..MaxCalls
  /\ log \in Seq(Entry) /\ Len(log) <= MaxQueries

DbTypes ==
  /\ DOMAIN accounts \subseteq Addresses
  /\ \A a \in DOMAIN accounts : accounts[a] \subseteq Slots
  /\ DOMAIN codeHashes \subseteq Codes
  /\ \A c \in DOMAIN codeHashes : codeHashes[c] \in Addresses
  /\ DOMAIN contracts \subseteq Codes
  /\ numbers \subseteq 1..(BlockNumber - 1)

InputTypes ==
  /\ proofs \in Seq(Fetched)
  /\ DOMAIN input = {"stateRoot", "known", "storageTries", "contracts", "ancestors"}
  /\ input.ancestors \in Seq(Blocks)

GuestTypes ==
  /\ guestPc \in {"waiting", "linking", "running", "panicked", "committed"}
  /\ guestCall \in 0..MaxCalls
  /\ answers \in Seq(Entry) /\ Len(answers) <= MaxQueries
  /\ DOMAIN linked \subseteq Addresses
  /\ DOMAIN blockHashes \subseteq 1..BlockNumber
  /\ guestPc = "linking" => DOMAIN blockHashes # {}

Types == HostTypes /\ DbTypes /\ InputTypes /\ GuestTypes

\* What the state of a fork's block holds of an account.
LEMMA AccountTyped ==
  ASSUME NEW f \in Forks
  PROVE  /\ StateOf(Block(f, BlockNumber)) \in State
         /\ \A a \in Addresses : LET account == StateOf(Block(f, BlockNumber))[a]
                                 IN  /\ CodeOf(account) \in Codes \cup {NoCode}
                                     /\ \A s \in Slots : SlotOf(account, s) \in Values
<1>1. History[f] \in Seq(BlockData) /\ Len(History[f]) = BlockNumber /\ BlockNumber \in Nat \ {0}
  BY ChainAssumption
<1>2. Block(f, BlockNumber) = History[f]
  BY <1>1, SubSeqFull DEF Block
<1>3. History[f][BlockNumber] \in BlockData
  BY <1>1, ElementOfSeq
<1>4. StateOf(Block(f, BlockNumber)) \in State
  BY <1>1, <1>2, <1>3 DEF StateOf, BlockData
<1>5. ASSUME NEW account \in Account \cup {NoAccount}
      PROVE  /\ CodeOf(account) \in Codes \cup {NoCode}
             /\ \A s \in Slots : SlotOf(account, s) \in Values
  BY ChainAssumption, <1>5 DEF CodeOf, SlotOf, Account
<1>6. \A a \in Addresses : StateOf(Block(f, BlockNumber))[a] \in Account \cup {NoAccount}
  BY <1>4 DEF State
<1> QED
  BY <1>4, <1>5, <1>6

\* The truth about a fork's block is an answer.
LEMMA TruthTyped ==
  ASSUME NEW f \in Forks, NEW q \in Query
  PROVE  Truth(Block(f, BlockNumber), q) \in Answer
<1> DEFINE block == Block(f, BlockNumber)
<1>1. CASE \E a \in Addresses : q = <<"basic", a>>
  <2>1. PICK a \in Addresses : q = <<"basic", a>>
    BY <1>1
  <2>2. Truth(block, q) = CodeOf(StateOf(block)[a])
    BY <2>1 DEF Truth
  <2> QED
    BY <2>1, <2>2, AccountTyped DEF Answer
<1>2. CASE \E c \in Codes : q = <<"code", c>>
  BY <1>2 DEF Truth, Answer
<1>3. CASE \E a \in Addresses, s \in Slots : q = <<"storage", a, s>>
  <2>1. PICK a \in Addresses, s \in Slots : q = <<"storage", a, s>>
    BY <1>3
  <2>2. Truth(block, q) = SlotOf(StateOf(block)[a], s)
    BY <2>1 DEF Truth
  <2> QED
    BY <2>1, <2>2, AccountTyped DEF Answer
<1>4. CASE \E n \in 1..(BlockNumber - 1) : q = <<"blockhash", n>>
  <2>1. PICK n \in 1..(BlockNumber - 1) : q = <<"blockhash", n>>
    BY <1>4
  <2>2. Truth(block, q) = SubSeq(block, 1, n) /\ n \in 1..BlockNumber
    BY <2>1, ChainAssumption DEF Truth
  <2>3. SubSeq(block, 1, n) = Block(f, n) /\ Block(f, n) \in Blocks
    BY <2>2, PartOfFork
  <2> QED
    BY <2>2, <2>3 DEF Answer
<1> QED
  BY <1>1, <1>2, <1>3, <1>4 DEF Query

\* A recorded answer has its type.
LEMMA Logged ==
  ASSUME NEW entries \in Seq(Entry), NEW call \in 1..MaxCalls, NEW q \in Query,
         NEW answer \in Answer, NEW N \in Nat, Len(entries) < N
  PROVE  /\ Append(entries, Recorded(call, q, answer)) \in Seq(Entry)
         /\ Len(Append(entries, Recorded(call, q, answer))) <= N
<1>1. Recorded(call, q, answer) \in Entry
  BY DEF Entry, Recorded
<1>2. Len(entries) \in Nat
  BY LenProperties
<1> QED
  BY <1>1, <1>2, AppendProperties

\* A query of the preflight is logged.
LEMMA AskTypes ==
  ASSUME Inv, Types, NEW q \in Query, NEW answer \in Answer, Ask(q, answer)
  PROVE  HostTypes' /\ InputTypes' /\ GuestTypes'
<1>1. /\ UNCHANGED <<fork, reorgs, hostPc, header, hostCall, proofs, input>>
      /\ UNCHANGED <<guestPc, guestCall, linked, answers, blockHashes>>
      /\ hostCall > 0 /\ Len(log) < MaxQueries
      /\ log' = Append(log, Recorded(hostCall, q, answer))
  BY DEF Ask, nodeVars, envVars, guestVars, guestEnvVars, callVars
<1>2. log' \in Seq(Entry) /\ Len(log') <= MaxQueries
  <2>1. log \in Seq(Entry) /\ hostCall \in 1..MaxCalls /\ MaxQueries \in Nat
    BY <1>1, SteelAssumption DEF Types, HostTypes
  <2> QED
    BY <1>1, <2>1, Logged
<1> QED
  BY <1>1, <1>2 DEF Types, HostTypes, InputTypes, GuestTypes

\* Each read of the preflight adds keys of their types to ProofDb.
LEMMA PreflightTypes ==
  ASSUME Inv, Types,
         \/ \E a \in Addresses : Basic(a) \/ \E s \in Slots : Storage(a, s)
         \/ \E c \in Codes : CodeByHash(c)
         \/ \E n \in 1..(BlockNumber - 1) : BlockHash(n)
  PROVE  Types'
<1>1. fork \in Forks /\ Canonical = Block(fork, BlockNumber)
  BY DEF Inv, HostOrder, Canonical
<1>2. ASSUME NEW a \in Addresses, Basic(a) PROVE Types'
  <2> DEFINE code == CodeOf(StateOf(Canonical)[a])
  <2>1. code \in Codes \cup {NoCode}
    BY <1>1, AccountTyped
  <2>2. /\ Ask(<<"basic", a>>, code) /\ UNCHANGED <<contracts, numbers>>
        /\ codeHashes' = codeHashes \/ (code # NoCode /\ codeHashes' = Put(codeHashes, code, a))
        /\ accounts' = accounts \/ accounts' = Put(accounts, a, {})
    BY <1>2 DEF Basic
  <2>3. <<"basic", a>> \in Query /\ code \in Answer
    BY <2>1 DEF Query, Answer
  <2> HIDE DEF code
  <2>4. /\ DOMAIN codeHashes' \subseteq Codes
        /\ \A c \in DOMAIN codeHashes' : codeHashes'[c] \in Addresses
    BY <2>1, <2>2 DEF Put, Types, DbTypes
  <2>5. /\ DOMAIN accounts' \subseteq Addresses
        /\ \A b \in DOMAIN accounts' : accounts'[b] \subseteq Slots
    BY <2>2 DEF Put, Types, DbTypes
  <2>6. DbTypes'
    BY <2>2, <2>4, <2>5 DEF Types, DbTypes
  <2> QED
    BY <2>2, <2>3, <2>6, AskTypes DEF Types
<1>3. ASSUME NEW a \in Addresses, NEW s \in Slots, Storage(a, s) PROVE Types'
  <2> DEFINE old == IF a \in DOMAIN accounts THEN accounts[a] ELSE {}
             slot == SlotOf(StateOf(Canonical)[a], s)
  <2>1. slot \in Values
    BY <1>1, AccountTyped
  <2>2. /\ Ask(<<"storage", a, s>>, slot) /\ UNCHANGED <<codeHashes, contracts, numbers>>
        /\ accounts' = Put(accounts, a, old \cup {s})
    BY <1>3 DEF Storage
  <2>3. <<"storage", a, s>> \in Query /\ slot \in Answer
    BY <2>1 DEF Query, Answer
  <2>4. old \subseteq Slots
    BY DEF Types, DbTypes
  <2> HIDE DEF old, slot
  <2>5. /\ DOMAIN accounts' \subseteq Addresses
        /\ \A b \in DOMAIN accounts' : accounts'[b] \subseteq Slots
    BY <2>2, <2>4 DEF Put, Types, DbTypes
  <2>6. DbTypes'
    BY <2>2, <2>5 DEF Types, DbTypes
  <2> QED
    BY <2>2, <2>3, <2>6, AskTypes DEF Types
<1>4. ASSUME NEW c \in Codes, CodeByHash(c) PROVE Types'
  <2> DEFINE code == CodeOf(StateOf(Canonical)[codeHashes[c]])
  <2>1. c \in DOMAIN codeHashes /\ codeHashes[c] \in Addresses
    BY <1>4 DEF CodeByHash, Types, DbTypes
  <2>2. code \in Answer
    BY <1>1, <2>1, AccountTyped DEF Answer
  <2>3. /\ Ask(<<"code", c>>, code) /\ UNCHANGED <<accounts, codeHashes, numbers>>
        /\ contracts' = Put(contracts, c, code)
    BY <1>4 DEF CodeByHash
  <2>4. <<"code", c>> \in Query
    BY DEF Query
  <2> HIDE DEF code
  <2>5. DbTypes'
    BY <2>3 DEF Put, Types, DbTypes
  <2> QED
    BY <2>2, <2>3, <2>4, <2>5, AskTypes DEF Types
<1>5. ASSUME NEW n \in 1..(BlockNumber - 1), BlockHash(n) PROVE Types'
  <2>1. Ask(<<"blockhash", n>>, Block(fork, n))
    BY <1>5 DEF BlockHash
  <2>2. <<"blockhash", n>> \in Query /\ n \in 1..BlockNumber
    BY ChainAssumption DEF Query
  <2>3. Block(fork, n) \in Answer
    BY <1>1, <2>2, PartOfFork DEF Answer
  <2>4. DbTypes'
    BY <1>5 DEF BlockHash, Types, DbTypes
  <2> QED
    BY <2>1, <2>2, <2>3, <2>4, AskTypes DEF Types
<1> QED
  BY <1>2, <1>3, <1>4, <1>5

\* The steps of the host that ask no query.
LEMMA HostTypesKept ==
  ASSUME Inv, Types,
         Reorg \/ FromProvider \/ HostCalls \/ EndPreflight \/ RpcFails
  PROVE  Types'
<1>1. fork \in Forks
  BY DEF Inv, HostOrder
<1>2. /\ UNCHANGED <<accounts, codeHashes, contracts, numbers, log, proofs, input>>
      /\ UNCHANGED <<guestPc, guestCall, linked, answers, blockHashes>>
  BY DEF Reorg, FromProvider, HostCalls, EndPreflight, RpcFails, hostVars, envVars, dbVars,
         guestVars, guestEnvVars, callVars
<1>3. /\ reorgs' \in 0..MaxReorgs
      /\ hostPc' \in {"start", "preflight", "proofs", "ancestors", "done", "refused", "aborted"}
      /\ hostCall' \in 0..MaxCalls
      /\ header' = header \/ header' = Block(fork, BlockNumber)
  <2> USE DEF Types, HostTypes
  <2>1. CASE Reorg
    BY <2>1, SteelAssumption DEF Reorg, hostVars, envVars
  <2>2. CASE FromProvider
    BY <2>2 DEF FromProvider, nodeVars, Canonical
  <2>3. CASE HostCalls
    BY <2>3, SteelAssumption DEF HostCalls, nodeVars, envVars
  <2>4. CASE EndPreflight \/ RpcFails
    BY <2>4 DEF EndPreflight, RpcFails, nodeVars, envVars
  <2> QED
    BY <2>1, <2>2, <2>3, <2>4
<1>4. HostTypes'
  BY <1>1, <1>2, <1>3 DEF Types, HostTypes
<1>5. DbTypes' /\ InputTypes' /\ GuestTypes'
  BY <1>2 DEF Types, DbTypes, InputTypes, GuestTypes
<1> QED
  BY <1>4, <1>5 DEF Types

\* The steps of into_input.
LEMMA IntoInputTypes ==
  ASSUME Inv, Types, (\E a \in Addresses : GetProof(a)) \/ BuildTries \/ GetAncestor
  PROVE  Types'
<1>1. fork \in Forks /\ Canonical = Block(fork, BlockNumber)
  BY DEF Inv, HostOrder, Canonical
<1>2. /\ UNCHANGED <<fork, reorgs, header, hostCall, log>>
      /\ UNCHANGED <<guestPc, guestCall, linked, answers, blockHashes>>
      /\ hostPc' \in {"proofs", "ancestors", "done", "refused"}
  BY DEF GetProof, BuildTries, GetAncestor, nodeVars, envVars, guestVars, guestEnvVars, callVars
<1>3. HostTypes' /\ GuestTypes'
  BY <1>2 DEF Types, HostTypes, GuestTypes
<1>4. ASSUME NEW a \in Addresses, GetProof(a) PROVE DbTypes' /\ InputTypes'
  <2>1. /\ UNCHANGED <<accounts, codeHashes, contracts, numbers, input>> /\ a \in DOMAIN accounts
        /\ proofs' = Append(proofs, [address |-> a, state |-> StateOf(Canonical),
                                     slots |-> accounts[a]])
    BY <1>4 DEF GetProof, dbVars
  <2>2. [address |-> a, state |-> StateOf(Canonical), slots |-> accounts[a]] \in Fetched
    BY <1>1, <2>1, AccountTyped DEF Fetched, Types, DbTypes
  <2>3. proofs' \in Seq(Fetched)
    BY <2>1, <2>2, AppendProperties DEF Types, InputTypes
  <2> QED
    BY <2>1, <2>3 DEF Types, DbTypes, InputTypes
<1>5. ASSUME BuildTries PROVE DbTypes' /\ InputTypes'
  <2>1. /\ UNCHANGED <<accounts, codeHashes, contracts, numbers, proofs>>
        /\ \/ input' = input
           \/ input' = [NoInput EXCEPT
                          !.stateRoot = StateRoot(proofs),
                          !.known = KnownAccounts(proofs),
                          !.storageTries = StorageTries(proofs),
                          !.contracts = {contracts[h] : h \in DOMAIN contracts}]
    BY <1>5 DEF BuildTries, dbVars
  <2>2. /\ DOMAIN input' = {"stateRoot", "known", "storageTries", "contracts", "ancestors"}
        /\ input'.ancestors \in {<<>>, input.ancestors}
    BY <2>1 DEF NoInput, Types, InputTypes
  <2>3. <<>> \in Seq(Blocks)
    BY EmptyAnswers
  <2> QED
    BY <2>1, <2>2, <2>3 DEF Types, DbTypes, InputTypes
<1>6. ASSUME GetAncestor PROVE DbTypes' /\ InputTypes'
  <2> DEFINE n == BlockNumber - 1 - Len(input.ancestors)
  <2>1. \/ /\ n >= OldestNeeded
           /\ input' = [input EXCEPT !.ancestors = Append(@, Block(fork, n))]
           /\ UNCHANGED <<accounts, codeHashes, contracts, numbers, proofs>>
        \/ /\ input' = input /\ accounts' = EmptyMap /\ codeHashes' = EmptyMap
           /\ contracts' = EmptyMap /\ numbers' = {} /\ proofs' = <<>>
    BY <1>6 DEF GetAncestor, dbVars
  <2>2. CASE n >= OldestNeeded /\ input' = [input EXCEPT !.ancestors = Append(@, Block(fork, n))]
             /\ UNCHANGED <<accounts, codeHashes, contracts, numbers, proofs>>
    <3>1. /\ DOMAIN input = {"stateRoot", "known", "storageTries", "contracts", "ancestors"}
          /\ input.ancestors \in Seq(Blocks) /\ Len(input.ancestors) \in Nat
      BY LenProperties DEF Types, InputTypes
    <3>2. OldestNeeded \in 1..BlockNumber
      <4>1. numbers \cup {BlockNumber} \in SUBSET (1..BlockNumber)
        BY ChainAssumption DEF Types, DbTypes
      <4>2. numbers \cup {BlockNumber} \in SUBSET Nat
        BY <4>1
      <4> QED
        BY <4>1, <4>2, MinExists DEF OldestNeeded
    <3>3. n \in 1..BlockNumber
      BY <2>2, <3>1, <3>2, ChainAssumption
    <3>4. Block(fork, n) \in Blocks
      BY <1>1, <3>3, PartOfFork
    <3>5. /\ DOMAIN input' = DOMAIN input
          /\ input'.ancestors = Append(input.ancestors, Block(fork, n))
      BY <2>2, <3>1
    <3>6. input'.ancestors \in Seq(Blocks)
      BY <3>1, <3>4, <3>5, AppendProperties
    <3> QED
      BY <2>2, <3>1, <3>5, <3>6 DEF Types, DbTypes, InputTypes
  <2>3. CASE /\ input' = input /\ accounts' = EmptyMap /\ codeHashes' = EmptyMap
             /\ contracts' = EmptyMap /\ numbers' = {} /\ proofs' = <<>>
    <3>1. <<>> \in Seq(Fetched)
      BY EmptyAnswers
    <3> QED
      BY <2>3, <3>1 DEF Types, DbTypes, InputTypes, EmptyMap
  <2> QED
    BY <2>1, <2>2, <2>3
<1> QED
  BY <1>3, <1>4, <1>5, <1>6 DEF Types

\* The steps of the guest.
LEMMA GuestTypesKept ==
  ASSUME Inv, Types, GuestNext
  PROVE  Types'
<1>1. UNCHANGED <<nodeVars, hostVars>>
  BY DEF GuestNext, IntoEnv, LinkAncestor, EnvReady, GuestCalls, GuestEnds, GuestReads,
         GuestBasic, GuestStorage, GuestCode, GuestBlockHash, GuestAsks
<1>2. /\ UNCHANGED <<fork, reorgs, hostPc, header, hostCall, log, proofs, input>>
      /\ UNCHANGED <<accounts, codeHashes, contracts, numbers>>
  BY <1>1 DEF nodeVars, hostVars, envVars, dbVars
<1>3. DbTypes' /\ InputTypes'
  BY <1>2 DEF Types, DbTypes, InputTypes
<1>4. ASSUME guestPc # "waiting" \/ (hostPc = "done" /\ header # <<>>)
      PROVE  HostTypes'
  BY <1>2, <1>4 DEF Types, HostTypes
<1>5. ASSUME IntoEnv PROVE GuestTypes' /\ header # <<>> /\ hostPc = "done"
  <2>1. header \in Blocks /\ hostPc = "done"
    BY <1>5 DEF IntoEnv, Inv, HostOrder, HeaderFixed
  <2>2. Len(header) \in 1..BlockNumber /\ header # <<>>
    BY <2>1, BlockIsSequence
  <2>3. /\ UNCHANGED <<guestCall, linked, answers>>
        /\ \/ guestPc' = "linking" /\ blockHashes' = Put(EmptyMap, Len(header), header)
           \/ guestPc' = "panicked" /\ blockHashes' = blockHashes
    BY <1>5 DEF IntoEnv, callVars
  <2>4. DOMAIN Put(EmptyMap, Len(header), header) = {Len(header)}
    BY DEF Put, EmptyMap
  <2>5. DOMAIN blockHashes' \subseteq 1..BlockNumber /\ (guestPc' = "linking" => DOMAIN blockHashes' # {})
    BY <2>2, <2>3, <2>4 DEF Types, GuestTypes
  <2> QED
    BY <2>1, <2>2, <2>3, <2>5 DEF Types, GuestTypes
<1>6. ASSUME LinkAncestor PROVE GuestTypes' /\ guestPc # "waiting"
  <2> DEFINE k == Cardinality(DOMAIN blockHashes)
             ancestor == input.ancestors[k]
  <2>1. /\ guestPc = "linking" /\ Unread > 0 /\ UNCHANGED <<guestCall, linked, answers>>
        /\ \/ guestPc' = "linking" /\ blockHashes' = Put(blockHashes, Len(ancestor), ancestor)
           \/ guestPc' = "panicked" /\ blockHashes' = blockHashes
    BY <1>6 DEF LinkAncestor, callVars
  <2>2. DOMAIN blockHashes \in SUBSET (1..BlockNumber) /\ DOMAIN blockHashes # {}
    BY <2>1 DEF Types, GuestTypes
  <2>3. k \in Nat \ {0}
    <3>1. IsFiniteSet(1..BlockNumber)
      BY FS_Interval, ChainAssumption
    <3>2. IsFiniteSet(DOMAIN blockHashes)
      BY <2>2, <3>1, FS_Subset
    <3> QED
      BY <2>2, <3>2, FS_CardinalityType, FS_EmptySet
  <2>4. input.ancestors \in Seq(Blocks) /\ Len(input.ancestors) \in Nat
    BY LenProperties DEF Types, InputTypes
  <2>5. k \in 1..Len(input.ancestors)
    BY <2>1, <2>3, <2>4 DEF Unread
  <2>6. ancestor \in Blocks
    BY <2>4, <2>5, ElementOfSeq
  <2>7. Len(ancestor) \in 1..BlockNumber
    BY <2>6, BlockIsSequence
  <2> HIDE DEF ancestor
  <2>8. DOMAIN Put(blockHashes, Len(ancestor), ancestor) = DOMAIN blockHashes \cup {Len(ancestor)}
    BY DEF Put
  <2>9. DOMAIN blockHashes' \subseteq 1..BlockNumber /\ DOMAIN blockHashes' # {}
    BY <2>1, <2>2, <2>7, <2>8
  <2> QED
    BY <2>1, <2>9 DEF Types, GuestTypes
<1>7. ASSUME EnvReady \/ GuestCalls \/ GuestEnds PROVE GuestTypes' /\ guestPc # "waiting"
  <2>1. /\ guestPc \in {"linking", "running"}
        /\ guestPc' \in {"running", "panicked", "committed"}
        /\ UNCHANGED <<answers, blockHashes>>
        /\ linked' = linked \/ linked' = EmptyMap
    BY <1>7 DEF EnvReady, GuestCalls, GuestEnds, guestEnvVars, callVars
  <2>2. guestCall' \in 0..MaxCalls
    <3>1. guestCall \in 0..MaxCalls /\ hostCall \in 0..MaxCalls /\ MaxCalls \in Nat
      BY SteelAssumption DEF Types, HostTypes, GuestTypes
    <3>2. guestCall' = guestCall \/ (guestCall' = guestCall + 1 /\ guestCall < MaxCalls)
      BY <1>7, <3>1 DEF EnvReady, GuestCalls, GuestEnds, callVars
    <3> QED
      BY <3>1, <3>2
  <2>3. DOMAIN linked' \subseteq Addresses
    BY <2>1 DEF Types, GuestTypes, EmptyMap
  <2> QED
    BY <2>1, <2>2, <2>3 DEF Types, GuestTypes
<1>8. ASSUME GuestReads PROVE GuestTypes' /\ guestPc # "waiting"
  <2>1. /\ guestPc = "running" /\ UNCHANGED <<guestEnvVars, guestCall>>
        /\ (\E q \in Query : Answered(q, Truth(header, q))) \/ Panic
    BY <1>8, ReadTrue DEF ReadOutcome
  <2>2. guestCall > 0 /\ Len(answers) < MaxQueries
    <3>1. PICK q : GuestAsks(q)
      BY <1>8 DEF GuestReads, GuestBasic, GuestStorage, GuestCode, GuestBlockHash
    <3>2. /\ Len(log) \in Nat /\ Len(answers) \in Nat /\ MaxQueries \in Nat
          /\ Len(log) <= MaxQueries
      BY LenProperties, SteelAssumption DEF Types, HostTypes, GuestTypes
    <3> QED
      BY <3>1, <3>2 DEF GuestAsks
  <2>3. DOMAIN linked' \subseteq Addresses
    <3>1. linked' = linked \/ \E a \in Addresses : \E x : linked' = Put(linked, a, x)
      BY <1>8 DEF GuestReads, GuestBasic, GuestStorage, GuestCode, GuestBlockHash
    <3>2. DOMAIN linked' = DOMAIN linked \/ \E a \in Addresses : DOMAIN linked' = DOMAIN linked \cup {a}
      BY <3>1 DEF Put
    <3> QED
      BY <3>2 DEF Types, GuestTypes
  <2>4. answers' \in Seq(Entry) /\ Len(answers') <= MaxQueries /\ guestPc' \in {"running", "panicked"}
    <3>1. CASE Panic
      BY <2>1, <3>1 DEF Panic, Types, GuestTypes
    <3>2. ASSUME NEW q \in Query, Answered(q, Truth(header, q))
          PROVE  answers' \in Seq(Entry) /\ Len(answers') <= MaxQueries
      <4>1. PICK f \in Forks : header = Block(f, BlockNumber)
        BY <2>1 DEF Types, HostTypes
      <4>2. Truth(header, q) \in Answer
        BY <4>1, TruthTyped
      <4>3. answers \in Seq(Entry) /\ guestCall \in 1..MaxCalls /\ MaxQueries \in Nat
        BY <2>2, SteelAssumption DEF Types, GuestTypes
      <4>4. answers' = Append(answers, Recorded(guestCall, q, Truth(header, q)))
        BY <3>2 DEF Answered
      <4> QED
        BY <2>2, <4>2, <4>3, <4>4, Logged
    <3>3. guestPc' \in {"running", "panicked"}
      BY <2>1 DEF Answered, Panic
    <3> QED
      BY <2>1, <3>1, <3>2, <3>3
  <2> QED
    BY <2>1, <2>3, <2>4 DEF Types, GuestTypes, guestEnvVars
<1>9. HostTypes' /\ GuestTypes'
  <2>1. CASE IntoEnv
    BY <1>4, <1>5, <2>1
  <2>2. CASE LinkAncestor
    BY <1>4, <1>6, <2>2
  <2>3. CASE EnvReady \/ GuestCalls \/ GuestEnds
    BY <1>4, <1>7, <2>3
  <2>4. CASE GuestReads
    BY <1>4, <1>8, <2>4
  <2> QED
    BY <2>1, <2>2, <2>3, <2>4 DEF GuestNext
<1> QED
  BY <1>3, <1>9 DEF Types

\* The strengthened types hold in every reachable state.
LEMMA TypesHold == Spec => []Types
<1>1. ASSUME Init PROVE Types
  <2>1. <<>> \in Seq(Entry) /\ <<>> \in Seq(Fetched) /\ <<>> \in Seq(Blocks) /\ Len(<<>>) = 0
    BY EmptyAnswers
  <2>2. DOMAIN EmptyMap = {}
    BY DEF EmptyMap
  <2>3. /\ DOMAIN NoInput = {"stateRoot", "known", "storageTries", "contracts", "ancestors"}
        /\ NoInput.ancestors = <<>>
    BY DEF NoInput
  <2>4. HostTypes
    BY <1>1, <2>1, SteelAssumption DEF Init, HostTypes
  <2>5. DbTypes
    BY <1>1, <2>2 DEF Init, DbTypes
  <2>6. InputTypes
    BY <1>1, <2>1, <2>3 DEF Init, InputTypes
  <2>7. GuestTypes
    BY <1>1, <2>1, <2>2, SteelAssumption DEF Init, GuestTypes
  <2> QED
    BY <2>4, <2>5, <2>6, <2>7 DEF Types
<1>2. ASSUME Inv, Types, [Next]_vars PROVE Types'
  <2>1. CASE HostNext
    BY <1>2, <2>1, HostTypesKept, PreflightTypes, IntoInputTypes DEF HostNext
  <2>2. CASE GuestNext
    BY <1>2, <2>2, GuestTypesKept
  <2>3. CASE UNCHANGED vars
    BY <1>2, <2>3 DEF vars, nodeVars, hostVars, envVars, dbVars, guestVars, guestEnvVars,
                      callVars, Types, HostTypes, DbTypes, InputTypes, GuestTypes
  <2> QED
    BY <1>2, <2>1, <2>2, <2>3, NextSplit
<1> QED
  BY <1>1, <1>2, Invariance, PTL DEF Spec

\* Every variable keeps its type, whatever the chains and the calls are.
THEOREM TypeCorrect == Spec => []TypeOK
<1>1. ASSUME Inv, Types PROVE TypeOK
  <2>1. header \in Blocks \cup {<<>>}
    <3>1. BlockNumber \in 1..BlockNumber
      BY ChainAssumption
    <3> QED
      BY <1>1, <3>1, PartOfFork DEF Types, HostTypes
  <2>2. \A k \in DOMAIN proofs : proofs[k].address \in Addresses
    <3>1. \A k \in DOMAIN proofs : proofs[k] \in Fetched
      BY <1>1, LenProperties, ElementOfSeq DEF Types, InputTypes
    <3> QED
      BY <3>1 DEF Fetched
  <2>3. fork \in Forks
    BY <1>1 DEF Inv, HostOrder
  <2> QED
    BY <1>1, <2>1, <2>2, <2>3 DEF Types, HostTypes, DbTypes, InputTypes, GuestTypes, TypeOK
<1> QED
  BY <1>1, Invariance, TypesHold, PTL

-----------------------------------------------------------------------------
(* Steel implements a proved call *)

\* The guest's chain specification knows the network: the fork it gives for a
\* block, if any, is the release the network ran the block under.
NetworkKnown ==
  \A b \in Blocks : WithChainSpec(GuestSpec, b) \in {RulesOf(b), Unsupported}

Told == {<<e.query, e.answer>> : e \in ToSet(answers)}
callAbstract == <<header, guestRules, Told, Outcome>>

\* An answer adds itself to what the guest's calls were told.
LEMMA ToldMore ==
  ASSUME Inv, NEW q, NEW answer, Answered(q, answer)
  PROVE  Told' = Told \cup {<<q, answer>>}
<1> DEFINE e == Recorded(guestCall, q, answer)
<1>1. answers \in Seq(ToSet(answers)) /\ answers' = Append(answers, e)
  <2>1. answers \in Seq(TrueEntry(header))
    BY DEF Inv, AnswersSound
  <2> QED
    BY <2>1 DEF Answered, ToSet
<1>2. ToSet(answers') = ToSet(answers) \cup {e}
  <2>1. /\ Len(answers) \in Nat /\ DOMAIN answers = 1..Len(answers)
        /\ DOMAIN answers' = 1..(Len(answers) + 1)
        /\ \A k \in 1..Len(answers) : answers'[k] = answers[k]
        /\ answers'[Len(answers) + 1] = e
    BY <1>1
  <2> QED
    BY <2>1 DEF ToSet
<1>3. e.query = q /\ e.answer = answer
  BY DEF Recorded
<1> QED
  BY <1>2, <1>3 DEF Told

\* For a guest whose chain specification knows the network, Steel is a proved
\* call: into_env fixes one block, every answer of StateDb is true of it and
\* journalled calls run under the rules the network ran that block under.
THEOREM Implementation ==
  ASSUME NetworkKnown
  PROVE  Spec => ImplementsProvedCall
<1>1. Init => Call!Init
  BY DEF Init, Call!Init, Outcome, ToSet
<1>2. Inv /\ [Next]_vars => [Call!Next]_callAbstract
  <2> SUFFICES ASSUME Inv, [Next]_vars
               PROVE  Call!Next \/ UNCHANGED callAbstract
    OBVIOUS
  <2> USE DEF callAbstract
  <2>1. CASE HostNext
    <3>1. /\ UNCHANGED guestVars /\ guestPc = "waiting"
          /\ header' # header => (header = <<>> /\ header' \in Blocks)
      BY <2>1, HostFrame DEF Inv, HostOrder, HeaderFixed
    <3>2. UNCHANGED <<guestRules, Told, Outcome>>
      BY <3>1 DEF guestVars, guestEnvVars, callVars, Told, Outcome
    <3> QED
      BY <3>1, <3>2 DEF Call!Next, Call!Fix, Call!Blocks, Blocks, Call!Block, Block, Told
  <2>2. CASE GuestNext
    <3>1. HostKept
      BY <2>2, GuestStep
    <3>2. CASE IntoEnv \/ LinkAncestor
      <4>1. /\ UNCHANGED <<guestRules, answers>> /\ guestPc \in {"waiting", "linking"}
            /\ guestPc' \in {"linking", "panicked"} /\ hostPc = "done"
        BY <3>2 DEF IntoEnv, LinkAncestor, callVars, Inv, HostOrder
      <4>2. header # <<>>
        BY <4>1, BlockIsSequence DEF Inv, HostOrder, HeaderFixed
      <4> QED
        BY <3>1, <4>1, <4>2 DEF HostKept, Told, Outcome, Call!Next, Call!Fail
    <3>3. CASE EnvReady
      <4>1. /\ guestPc = "linking" /\ UNCHANGED answers /\ header \in Blocks
            /\ guestRules = Unsupported
        BY <3>3 DEF EnvReady, callVars, Inv, HostOrder, HeaderFixed, GuestOrder
      <4>2. header # <<>>
        BY <4>1, BlockIsSequence
      <4>3. \/ guestPc' = "panicked" /\ guestRules' = Unsupported
            \/ guestPc' = "running" /\ guestRules' = RulesOf(header)
        BY <3>3, <4>1, NetworkKnown DEF EnvReady, NetworkKnown
      <4> QED
        BY <3>1, <4>1, <4>2, <4>3
           DEF HostKept, Told, Outcome, Call!Next, Call!Fail, Call!Begin,
               Call!RulesOf, RulesOf
    <3>4. CASE GuestCalls
      BY <3>1, <3>4 DEF GuestCalls, guestEnvVars, HostKept, Told, Outcome
    <3>5. CASE GuestReads
      <4>1. /\ guestPc = "running" /\ UNCHANGED guestRules
            /\ (\E q \in Query : Answered(q, Truth(header, q))) \/ Panic
        BY <3>5, ReadTrue DEF ReadOutcome, guestEnvVars
      <4>2. header # <<>> /\ guestRules # Unsupported
        BY <4>1, Running, BlockIsSequence
      <4>3. ASSUME NEW q \in Query, Answered(q, Truth(header, q))
            PROVE  Call!Read
        <5>1. Told' = Told \cup {<<q, Truth(header, q)>>}
          BY <4>3, ToldMore
        <5>2. q \in Call!Query /\ Truth(header, q) = Call!Truth(header, q)
          BY DEF Query, Call!Query, Truth, Call!Truth, CodeOf, Call!CodeOf,
                 SlotOf, Call!SlotOf, StateOf, Call!StateOf
        <5>3. Outcome = "none" /\ Outcome' = "none"
          BY <4>1, <4>3 DEF Outcome, Answered
        <5> QED
          BY <3>1, <4>1, <4>2, <5>1, <5>2, <5>3 DEF Call!Read, HostKept, Told
      <4>4. CASE Panic
        BY <3>1, <4>1, <4>2, <4>4
           DEF Panic, HostKept, Told, Outcome, Call!Next, Call!Fail
      <4> QED
        BY <4>1, <4>3, <4>4 DEF Call!Next
    <3>6. CASE GuestEnds
      <4>1. /\ guestPc = "running" /\ guestPc' \in {"committed", "panicked"}
            /\ UNCHANGED <<guestRules, answers>>
        BY <3>6 DEF GuestEnds, guestEnvVars, callVars
      <4>2. header # <<>> /\ guestRules # Unsupported
        BY <4>1, Running, BlockIsSequence
      <4> QED
        BY <3>1, <4>1, <4>2
           DEF HostKept, Told, Outcome, Call!Next, Call!Fail, Call!Commit
    <3> QED
      BY <2>2, <3>2, <3>3, <3>4, <3>5, <3>6 DEF GuestNext
  <2>3. CASE UNCHANGED vars
    BY <2>3 DEF vars, hostVars, envVars, guestVars, guestEnvVars, callVars, Told, Outcome
  <2> QED
    BY <2>1, <2>2, <2>3, NextSplit
<1> QED
  BY <1>1, <1>2, Invariance, PTL
     DEF Spec, ImplementsProvedCall, Call!Spec, callAbstract, Told


-----------------------------------------------------------------------------
(* The invariant of a host that stays on one fork *)

\* The queries of all calls of the preflight.
LoggedQueries == {log[k].query : k \in 1..Len(log)}

\* The header is the block of the node's one fork.
HeaderKnown ==
  /\ hostPc = "start" => hostCall = 0 /\ log = <<>> /\ codeHashes = EmptyMap
  /\ hostPc \notin {"start", "aborted"} =>
       /\ header = Canonical
       /\ hostRules = WithChainSpec(HostSpec, header) /\ hostRules # Unsupported

\* The preflight was answered the truth, and read storage only of accounts that
\* the same call had found to have code.
LogInv ==
  /\ log \in Seq(TrueEntry(header)) /\ hostCall \in Nat
  /\ \A k \in 1..Len(log) : log[k].call \in 1..hostCall
  /\ \A k \in 1..Len(log), a \in Addresses, s \in Slots :
       log[k].query = <<"storage", a, s>> =>
         \E j \in 1..(k - 1) : /\ log[j].call = log[k].call
                               /\ log[j].query = <<"basic", a>>
                               /\ log[j].answer # NoCode
  /\ hostPc \in {"proofs", "ancestors", "done", "refused"} /\ hostCall > 0 => log # <<>>

\* ProofDb has recorded all that was asked, and nothing else.
HostDbInv ==
  hostPc \in {"start", "preflight", "proofs", "ancestors"} =>
    /\ IsFiniteSet(DOMAIN accounts)
    /\ log # <<>> => DOMAIN accounts # {}
    /\ numbers \subseteq 1..(BlockNumber - 1)
    /\ \A c \in DOMAIN codeHashes : CodeOf(StateOf(header)[codeHashes[c]]) = c
    /\ \A c \in DOMAIN contracts : contracts[c] = c
    /\ \A a \in Addresses : <<"basic", a>> \in LoggedQueries => a \in DOMAIN accounts
    /\ \A a \in Addresses, s \in Slots :
         <<"storage", a, s>> \in LoggedQueries => a \in DOMAIN accounts /\ s \in accounts[a]
    /\ \A a \in DOMAIN accounts :
         /\ a \in Addresses
         /\ \A s \in accounts[a] : s \in Slots /\ <<"storage", a, s>> \in LoggedQueries
    /\ \A c \in Codes : <<"code", c>> \in LoggedQueries => c \in DOMAIN contracts
    /\ \A n \in 1..(BlockNumber - 1) : <<"blockhash", n>> \in LoggedQueries => n \in numbers

\* Each proof is of the header's state and of all slots read of its account.
ProofOf(a) == [address |-> a, state |-> StateOf(header), slots |-> accounts[a]]
Proved == {proofs[k].address : k \in 1..Len(proofs)}

ProofsInv ==
  /\ hostPc \in {"start", "preflight"} => proofs = <<>>
  /\ hostPc = "proofs" => /\ proofs \in Seq({ProofOf(a) : a \in DOMAIN accounts})
                          /\ IsFiniteSet(Proved) /\ Cardinality(Proved) = Len(proofs)

\* The input holds what was asked, except for the slots of one of two accounts
\* with one storage root.
InputInv ==
  /\ hostPc = "refused" => hostCall = 0
  /\ hostPc \in {"ancestors", "done"} =>
       /\ DOMAIN input = {"stateRoot", "known", "storageTries", "contracts", "ancestors"}
       /\ input.stateRoot = StateOf(header)
       /\ \A a \in Addresses : <<"basic", a>> \in LoggedQueries => a \in input.known
       /\ \A c \in Codes : <<"code", c>> \in LoggedQueries => c \in input.contracts
       /\ \A a \in Addresses, s \in Slots :
            /\ <<"storage", a, s>> \in LoggedQueries
            /\ StateOf(header)[a] # NoAccount
            => /\ StateOf(header)[a].storage \in DOMAIN input.storageTries
               /\ s \in input.storageTries[StateOf(header)[a].storage] \/ SharedRoot

\* The ancestors go down from the parent of the header to the oldest asked for.
AncestorsInv ==
  hostPc \in {"ancestors", "done"} =>
    /\ Len(input.ancestors) \in 0..(BlockNumber - 1)
    /\ input.ancestors = [k \in 1..Len(input.ancestors) |-> Block(fork, BlockNumber - k)]
    /\ hostPc = "done" =>
         \A n \in 1..(BlockNumber - 1) :
           <<"blockhash", n>> \in LoggedQueries => n >= BlockNumber - Len(input.ancestors)

\* The guest's loop goes down the same ancestors, and then its rules are the host's.
LinkInv ==
  /\ guestPc = "linking" =>
       \E k \in 1..(Len(input.ancestors) + 1) :
         /\ DOMAIN blockHashes = (BlockNumber - k + 1)..BlockNumber
         /\ previous = Block(fork, BlockNumber - k + 1)
  /\ guestPc = "running" =>
       /\ DOMAIN blockHashes = (BlockNumber - Len(input.ancestors))..BlockNumber
       /\ guestRules = hostRules

\* The guest repeats the preflight; a call's database has linked the accounts with
\* storage that the call has loaded.
ReplayInv ==
  /\ Len(answers) <= Len(log) /\ \A k \in 1..Len(answers) : answers[k] = log[k]
  /\ \A k \in 1..Len(answers) : answers[k].call \in 1..guestCall
  /\ guestPc = "running" =>
       \A k \in 1..Len(answers), a \in Addresses :
         /\ answers[k].call = guestCall
         /\ answers[k].query = <<"basic", a>>
         /\ StateOf(header)[a] # NoAccount
         /\ StateOf(header)[a].storage \in DOMAIN input.storageTries
         => a \in DOMAIN linked
  /\ guestPc = "panicked" => SharedRoot

OneFork == /\ HeaderKnown /\ LogInv /\ HostDbInv /\ ProofsInv
           /\ InputInv /\ AncestorsInv /\ LinkInv /\ ReplayInv

-----------------------------------------------------------------------------
(* Blocks, queries and entries *)

\* A block of the node's fork is a part of the block the header was taken from.
LEMMA BlockOfFork ==
  ASSUME fork \in Forks, NEW n \in 1..BlockNumber
  PROVE  /\ Block(fork, n) \in Blocks /\ Len(Block(fork, n)) = n
         /\ SubSeq(Canonical, 1, n) = Block(fork, n)
         /\ n > 1 => ParentOf(Block(fork, n)) = Block(fork, n - 1)
BY PartOfFork DEF Canonical

\* LoggedQueries of different kinds differ.
LEMMA KindsDiffer ==
  ASSUME NEW a, NEW b, NEW s
  PROVE  /\ <<"basic", a>> # <<"storage", b, s>> /\ <<"basic", a>> # <<"code", b>>
         /\ <<"basic", a>> # <<"blockhash", b>> /\ <<"code", a>> # <<"storage", b, s>>
         /\ <<"code", a>> # <<"blockhash", b>> /\ <<"blockhash", a>> # <<"storage", b, s>>
OBVIOUS

\* An entry that is true of a block is determined by its call and its query.
LEMMA EntryParts ==
  ASSUME NEW block, NEW e \in TrueEntry(block)
  PROVE  /\ e.call \in Nat /\ e.query \in Query /\ e.answer = Truth(block, e.query)
         /\ e = Recorded(e.call, e.query, e.answer)
BY DEF TrueEntry, Recorded

\* A sequence that is another one as far as it goes is a prefix of it.
LEMMA SamePrefix ==
  ASSUME NEW S, NEW s \in Seq(S), NEW t \in Seq(S),
         Len(s) <= Len(t), \A k \in 1..Len(s) : s[k] = t[k]
  PROVE  IsPrefix(s, t)
<1>1. Len(s) \in Nat /\ Len(t) \in Nat /\ \A k \in 1..Len(s) : t[k] \in S /\ s[k] \in S
  BY LenProperties, ElementOfSeq
<1>2. SubSeq(s, 1, Len(s)) = s
  BY SubSeqFull
<1>3. /\ SubSeq(t, 1, Len(s)) \in Seq(S) /\ Len(SubSeq(t, 1, Len(s))) = Len(s)
      /\ \A k \in 1..Len(s) : SubSeq(t, 1, Len(s))[k] = t[k]
  BY <1>1, SubSeqProperties
<1>4. SubSeq(t, 1, Len(s)) = s
  BY <1>1, <1>3, SeqEqual
<1> QED
  BY <1>2, <1>4 DEF IsPrefix

\* A preflight in progress asks one more query and is told the truth.
LEMMA AskStep ==
  ASSUME OneFork, NEW q \in Query, Ask(q, Truth(header, q))
  PROVE  /\ LogInv' /\ log' # <<>> /\ LoggedQueries' = LoggedQueries \cup {q}
         /\ hostPc = "preflight" /\ UNCHANGED <<hostPc, header, hostRules, proofs, guestVars>>
         /\ LoggedQueries = {} => q[1] = "basic"
<1> DEFINE e == Recorded(hostCall, q, Truth(header, q))
           n == Len(log)
<1>1. /\ log \in Seq(TrueEntry(header)) /\ hostCall \in Nat /\ hostCall > 0
      /\ log' = Append(log, e) /\ MayAsk(OfCall(log, hostCall), q)
      /\ UNCHANGED <<hostPc, header, hostRules, hostCall, proofs, guestVars>>
      /\ hostPc = "preflight"
  BY DEF OneFork, LogInv, Ask, envVars
<1>2. e \in TrueEntry(header) /\ e.call = hostCall /\ e.query = q
  BY <1>1 DEF TrueEntry, Recorded
<1>3. /\ log' \in Seq(TrueEntry(header)) /\ n \in Nat /\ Len(log') = n + 1
      /\ \A k \in 1..n : log'[k] = log[k]
      /\ log'[n + 1] = e /\ log' # <<>>
  BY <1>1, <1>2, AppendProperties, LenProperties
<1> HIDE DEF e, n
<1>4. LoggedQueries' = LoggedQueries \cup {q}
  <2>1. LoggedQueries' = {log'[k].query : k \in 1..(n + 1)}
    BY <1>3 DEF LoggedQueries
  <2>2. 1..(n + 1) = 1..n \cup {n + 1}
    BY <1>3
  <2> QED
    BY <1>2, <1>3, <2>1, <2>2 DEF LoggedQueries, n
<1>5. ASSUME NEW a \in Addresses, NEW s \in Slots, q = <<"storage", a, s>>
      PROVE  \E j \in 1..n : /\ log[j].call = hostCall
                             /\ log[j].query = <<"basic", a>>
                             /\ log[j].answer # NoCode
  <2>1. q[1] = "storage" /\ q[2] = a
    BY <1>5
  <2>2. PICK d \in OfCall(log, hostCall) : d.query = <<"basic", a>> /\ d.answer # NoCode
    BY <1>1, <2>1 DEF MayAsk
  <2>3. PICK j \in DOMAIN log : d = log[j]
    BY <2>2 DEF OfCall, ToSet
  <2>4. DOMAIN log = 1..n
    BY <1>1, LenProperties DEF n
  <2> QED
    BY <2>2, <2>3, <2>4 DEF OfCall
<1>6. LogInv'
  <2>1. \A k \in 1..Len(log') : log'[k].call \in 1..hostCall'
    BY <1>1, <1>2, <1>3 DEF OneFork, LogInv, n
  <2>2. ASSUME NEW k \in 1..Len(log'), NEW a \in Addresses, NEW s \in Slots,
               log'[k].query = <<"storage", a, s>>
        PROVE  \E j \in 1..(k - 1) : /\ log'[j].call = log'[k].call
                                     /\ log'[j].query = <<"basic", a>>
                                     /\ log'[j].answer # NoCode
    <3>1. CASE k \in 1..n
      <4>1. PICK j \in 1..(k - 1) : /\ log[j].call = log[k].call
                                    /\ log[j].query = <<"basic", a>>
                                    /\ log[j].answer # NoCode
        BY <1>3, <2>2, <3>1 DEF OneFork, LogInv, n
      <4>2. j \in 1..n
        BY <1>3, <3>1
      <4> QED
        BY <1>3, <3>1, <4>1, <4>2
    <3>2. CASE k = n + 1
      <4>1. PICK j \in 1..n : /\ log[j].call = hostCall
                              /\ log[j].query = <<"basic", a>>
                              /\ log[j].answer # NoCode
        BY <1>2, <1>3, <1>5, <2>2, <3>2
      <4>2. j \in 1..(k - 1)
        BY <1>3, <3>2
      <4> QED
        BY <1>2, <1>3, <3>2, <4>1, <4>2
    <3> QED
      BY <1>3, <3>1, <3>2
  <2> QED
    BY <1>1, <1>3, <2>1, <2>2 DEF LogInv
<1>7. ASSUME LoggedQueries = {} PROVE q[1] = "basic"
  <2>1. OfCall(log, hostCall) = {}
    <3>1. DOMAIN log = 1..Len(log)
      BY <1>1, LenProperties
    <3>2. \A j \in DOMAIN log : log[j].query \in LoggedQueries
      BY <3>1 DEF LoggedQueries
    <3> QED
      BY <1>7, <3>2 DEF OfCall, ToSet
  <2> QED
    BY <1>1, <2>1 DEF MayAsk
<1> QED
  BY <1>1, <1>3, <1>4, <1>6, <1>7

-----------------------------------------------------------------------------
(* Steps of the host *)

\* While the host works the guest has nothing to link or to repeat.
LEMMA GuestWaits ==
  ASSUME Inv, OneFork, hostPc # "done", UNCHANGED guestVars, Len(log') \in Nat
  PROVE  LinkInv' /\ ReplayInv'
<1>1. guestPc = "waiting" /\ guestPc' = "waiting" /\ answers' = <<>>
  BY DEF Inv, HostOrder, GuestOrder, guestVars, callVars
<1> QED
  BY <1>1 DEF LinkInv, ReplayInv

\* The invariant after a query, given what it did to ProofDb.
LEMMA Asked ==
  ASSUME Inv, OneFork, UNCHANGED fork,
         NEW q \in Query, Ask(q, Truth(header, q)), HostDbInv'
  PROVE  OneFork'
<1>1. /\ LogInv' /\ log' # <<>> /\ LoggedQueries' = LoggedQueries \cup {q} /\ hostPc = "preflight"
      /\ UNCHANGED <<hostPc, header, hostRules, proofs, guestVars>>
  BY AskStep
<1>2. HeaderKnown'
  BY <1>1 DEF OneFork, HeaderKnown, Canonical, Block
<1>3. ProofsInv' /\ InputInv' /\ AncestorsInv'
  BY <1>1 DEF OneFork, ProofsInv, InputInv, AncestorsInv
<1>4. Len(log') \in Nat
  BY <1>1, LenProperties DEF LogInv
<1>5. LinkInv' /\ ReplayInv'
  BY <1>1, <1>4, GuestWaits
<1> QED
  BY <1>1, <1>2, <1>3, <1>5 DEF OneFork

\* An account is loaded: ProofDb::basic (host/db.rs).
LEMMA BasicStep ==
  ASSUME Inv, OneFork, UNCHANGED fork, NEW a \in Addresses, Basic(a)
  PROVE  OneFork'
<1> DEFINE q == <<"basic", a>>
           code == CodeOf(StateOf(Canonical)[a])
<1>1. Ask(q, code) /\ hostPc = "preflight"
  BY DEF Basic, Ask
<1>2. header = Canonical
  BY <1>1 DEF OneFork, HeaderKnown
<1>3. q \in Query /\ code = Truth(header, q)
  BY <1>2 DEF Query, Truth
<1>4. Ask(q, Truth(header, q))
  BY <1>1, <1>3
<1>5. /\ log' # <<>> /\ LoggedQueries' = LoggedQueries \cup {q} /\ UNCHANGED <<hostPc, header>>
  BY <1>3, <1>4, AskStep
<1>6. /\ codeHashes' = codeHashes \/ codeHashes' = Put(codeHashes, code, a)
      /\ accounts' = IF a \in DOMAIN accounts THEN accounts ELSE Put(accounts, a, {})
      /\ UNCHANGED <<contracts, numbers>>
  BY DEF Basic
<1>7. /\ DOMAIN accounts' = DOMAIN accounts \cup {a}
      /\ \A b \in DOMAIN accounts : accounts'[b] = accounts[b]
      /\ a \notin DOMAIN accounts => accounts'[a] = {}
  <2>1. CASE a \in DOMAIN accounts
    BY <1>6, <2>1
  <2>2. CASE a \notin DOMAIN accounts
    <3>1. accounts' = [b \in DOMAIN accounts \cup {a} |-> IF b = a THEN {} ELSE accounts[b]]
      BY <1>6, <2>2 DEF Put
    <3> QED
      BY <2>2, <3>1
  <2> QED
    BY <2>1, <2>2
<1>8. IsFiniteSet(DOMAIN accounts')
  BY <1>1, <1>7, FS_AddElement DEF OneFork, HostDbInv
<1>9. \A c \in DOMAIN codeHashes' : CodeOf(StateOf(header)[codeHashes'[c]]) = c
  <2>1. \A c \in DOMAIN codeHashes : CodeOf(StateOf(header)[codeHashes[c]]) = c
    BY <1>1 DEF OneFork, HostDbInv
  <2>2. CASE codeHashes' = codeHashes
    BY <2>1, <2>2
  <2>3. CASE codeHashes' = Put(codeHashes, code, a)
    <3> TAKE c \in DOMAIN codeHashes'
    <3>1. codeHashes' = [x \in DOMAIN codeHashes \cup {code} |->
                           IF x = code THEN a ELSE codeHashes[x]]
      BY <2>3 DEF Put
    <3>2. CASE c = code
      BY <1>2, <3>1, <3>2
    <3>3. CASE c # code
      BY <2>1, <3>1, <3>3
    <3> QED
      BY <3>2, <3>3
  <2> QED
    BY <1>6, <2>2, <2>3
<1>10. /\ \A b \in Addresses : <<"basic", b>> \in LoggedQueries' => b \in DOMAIN accounts'
       /\ \A b \in Addresses, s \in Slots :
            <<"storage", b, s>> \in LoggedQueries' => b \in DOMAIN accounts' /\ s \in accounts'[b]
       /\ \A b \in DOMAIN accounts' :
            /\ b \in Addresses
            /\ \A s \in accounts'[b] : s \in Slots /\ <<"storage", b, s>> \in LoggedQueries'
       /\ \A c \in Codes : <<"code", c>> \in LoggedQueries' => c \in DOMAIN contracts'
       /\ \A n \in 1..(BlockNumber - 1) : <<"blockhash", n>> \in LoggedQueries' => n \in numbers'
  BY <1>1, <1>5, <1>6, <1>7, KindsDiffer DEF OneFork, HostDbInv
<1>11. HostDbInv'
  BY <1>1, <1>5, <1>6, <1>7, <1>8, <1>9, <1>10 DEF OneFork, HostDbInv
<1> QED
  BY <1>3, <1>4, <1>11, Asked

\* Code is fetched from the account last seen with its hash, which still has it.
LEMMA CodeStep ==
  ASSUME Inv, OneFork, UNCHANGED fork, NEW c \in Codes, CodeByHash(c)
  PROVE  OneFork'
<1> DEFINE q == <<"code", c>>
           code == CodeOf(StateOf(Canonical)[codeHashes[c]])
<1>1. Ask(q, code) /\ hostPc = "preflight" /\ c \in DOMAIN codeHashes
  BY DEF CodeByHash, Ask
<1>2. header = Canonical
  BY <1>1 DEF OneFork, HeaderKnown
<1>3. q \in Query /\ code = Truth(header, q) /\ code = c
  BY <1>1, <1>2 DEF Query, Truth, OneFork, HostDbInv
<1>4. Ask(q, Truth(header, q))
  BY <1>1, <1>3
<1>5. /\ log' # <<>> /\ LoggedQueries' = LoggedQueries \cup {q} /\ UNCHANGED <<hostPc, header>>
      /\ LoggedQueries = {} => q[1] = "basic"
  BY <1>3, <1>4, AskStep
<1>6. contracts' = Put(contracts, c, c) /\ UNCHANGED <<accounts, codeHashes, numbers>>
  BY <1>3 DEF CodeByHash
<1>7. /\ \A d \in DOMAIN contracts' : contracts'[d] = d
      /\ DOMAIN contracts' = DOMAIN contracts \cup {c}
  <2>1. \A d \in DOMAIN contracts : contracts[d] = d
    BY <1>1 DEF OneFork, HostDbInv
  <2>2. contracts' = [d \in DOMAIN contracts \cup {c} |-> IF d = c THEN c ELSE contracts[d]]
    BY <1>6 DEF Put
  <2> QED
    BY <2>1, <2>2
<1>8. log # <<>>
  <2>1. q[1] # "basic"
    OBVIOUS
  <2> QED
    BY <1>5, <2>1 DEF LoggedQueries
<1>9. /\ \A d \in Codes : <<"code", d>> \in LoggedQueries' => d \in DOMAIN contracts'
      /\ \A b \in Addresses : <<"basic", b>> \in LoggedQueries' => b \in DOMAIN accounts'
      /\ \A b \in Addresses, s \in Slots :
           <<"storage", b, s>> \in LoggedQueries' => b \in DOMAIN accounts' /\ s \in accounts'[b]
      /\ \A b \in DOMAIN accounts' :
           /\ b \in Addresses
           /\ \A s \in accounts'[b] : s \in Slots /\ <<"storage", b, s>> \in LoggedQueries'
      /\ \A n \in 1..(BlockNumber - 1) : <<"blockhash", n>> \in LoggedQueries' => n \in numbers'
  BY <1>1, <1>5, <1>6, <1>7, KindsDiffer DEF OneFork, HostDbInv
<1>10. HostDbInv'
  BY <1>1, <1>5, <1>6, <1>7, <1>8, <1>9 DEF OneFork, HostDbInv
<1> QED
  BY <1>3, <1>4, <1>10, Asked

\* A slot is read: ProofDb::storage.
LEMMA StorageStep ==
  ASSUME Inv, OneFork, UNCHANGED fork, NEW a \in Addresses, NEW s \in Slots, Storage(a, s)
  PROVE  OneFork'
<1> DEFINE q == <<"storage", a, s>>
           old == IF a \in DOMAIN accounts THEN accounts[a] ELSE {}
<1>1. Ask(q, SlotOf(StateOf(Canonical)[a], s)) /\ hostPc = "preflight"
  BY DEF Storage, Ask
<1>2. header = Canonical
  BY <1>1 DEF OneFork, HeaderKnown
<1>3. q \in Query /\ SlotOf(StateOf(Canonical)[a], s) = Truth(header, q)
  BY <1>2 DEF Query, Truth
<1>4. Ask(q, Truth(header, q))
  BY <1>1, <1>3
<1>5. /\ log' # <<>> /\ LoggedQueries' = LoggedQueries \cup {q} /\ UNCHANGED <<hostPc, header>>
  BY <1>3, <1>4, AskStep
<1>6. accounts' = Put(accounts, a, old \cup {s}) /\ UNCHANGED <<codeHashes, contracts, numbers>>
  BY DEF Storage
<1>7. /\ DOMAIN accounts' = DOMAIN accounts \cup {a} /\ accounts'[a] = old \cup {s}
      /\ \A b \in DOMAIN accounts : b # a => accounts'[b] = accounts[b]
  <2>1. accounts' = [b \in DOMAIN accounts \cup {a} |->
                       IF b = a THEN old \cup {s} ELSE accounts[b]]
    BY <1>6 DEF Put
  <2> QED
    BY <2>1
<1>8. IsFiniteSet(DOMAIN accounts')
  BY <1>1, <1>7, FS_AddElement DEF OneFork, HostDbInv
<1>9. \A b \in Addresses, t \in Slots :
        <<"storage", b, t>> \in LoggedQueries' => b \in DOMAIN accounts' /\ t \in accounts'[b]
  <2> TAKE b \in Addresses, t \in Slots
  <2>1. CASE <<"storage", b, t>> \in LoggedQueries
    BY <1>1, <1>7, <2>1 DEF OneFork, HostDbInv
  <2>2. CASE <<"storage", b, t>> = q
    BY <1>7, <2>2
  <2> QED
    BY <1>5, <2>1, <2>2
<1>10. \A b \in DOMAIN accounts' :
         /\ b \in Addresses
         /\ \A t \in accounts'[b] : t \in Slots /\ <<"storage", b, t>> \in LoggedQueries'
  BY <1>1, <1>5, <1>7 DEF OneFork, HostDbInv
<1>11. /\ \A c \in Codes : <<"code", c>> \in LoggedQueries' => c \in DOMAIN contracts'
       /\ \A b \in Addresses : <<"basic", b>> \in LoggedQueries' => b \in DOMAIN accounts'
       /\ \A n \in 1..(BlockNumber - 1) : <<"blockhash", n>> \in LoggedQueries' => n \in numbers'
  BY <1>1, <1>5, <1>6, <1>7, KindsDiffer DEF OneFork, HostDbInv
<1>12. HostDbInv'
  BY <1>1, <1>5, <1>6, <1>7, <1>8, <1>9, <1>10, <1>11 DEF OneFork, HostDbInv
<1> QED
  BY <1>3, <1>4, <1>12, Asked

\* The hash of a past block is asked for: ProofDb::block_hash.
LEMMA BlockHashStep ==
  ASSUME Inv, OneFork, UNCHANGED fork, NEW n \in 1..(BlockNumber - 1), BlockHash(n)
  PROVE  OneFork'
<1> DEFINE q == <<"blockhash", n>>
<1>1. Ask(q, Block(fork, n)) /\ hostPc = "preflight"
  BY DEF BlockHash, Ask
<1>2. header = Canonical /\ fork \in Forks /\ n \in 1..BlockNumber
  BY <1>1, ChainAssumption DEF OneFork, HeaderKnown, Inv, HostOrder
<1>3. q \in Query /\ Block(fork, n) = Truth(header, q)
  BY <1>2, BlockOfFork DEF Query, Truth
<1>4. Ask(q, Truth(header, q))
  BY <1>1, <1>3
<1>5. /\ log' # <<>> /\ LoggedQueries' = LoggedQueries \cup {q} /\ UNCHANGED <<hostPc, header>>
      /\ LoggedQueries = {} => q[1] = "basic"
  BY <1>3, <1>4, AskStep
<1>6. numbers' = numbers \cup {n} /\ UNCHANGED <<accounts, codeHashes, contracts>>
  BY DEF BlockHash
<1>7. log # <<>>
  <2>1. q[1] # "basic"
    OBVIOUS
  <2> QED
    BY <1>5, <2>1 DEF LoggedQueries
<1>8. /\ \A d \in Codes : <<"code", d>> \in LoggedQueries' => d \in DOMAIN contracts'
      /\ \A b \in Addresses : <<"basic", b>> \in LoggedQueries' => b \in DOMAIN accounts'
      /\ \A b \in Addresses, s \in Slots :
           <<"storage", b, s>> \in LoggedQueries' => b \in DOMAIN accounts' /\ s \in accounts'[b]
      /\ \A b \in DOMAIN accounts' :
           /\ b \in Addresses
           /\ \A s \in accounts'[b] : s \in Slots /\ <<"storage", b, s>> \in LoggedQueries'
      /\ \A m \in 1..(BlockNumber - 1) : <<"blockhash", m>> \in LoggedQueries' => m \in numbers'
  BY <1>1, <1>5, <1>6, KindsDiffer DEF OneFork, HostDbInv
<1>9. HostDbInv'
  BY <1>1, <1>5, <1>6, <1>7, <1>8 DEF OneFork, HostDbInv
<1> QED
  BY <1>3, <1>4, <1>9, Asked

\* from_provider takes the header of the node's fork; with_chain_spec accepts it
\* or ends the run.
LEMMA FromProviderStep ==
  ASSUME Inv, OneFork, FromProvider
  PROVE  OneFork'
<1>1. /\ hostPc = "start" /\ hostPc' \in {"preflight", "aborted"}
      /\ header' = Canonical /\ hostRules' = WithChainSpec(HostSpec, header')
      /\ hostPc' = "preflight" => hostRules' # Unsupported
      /\ UNCHANGED <<fork, hostCall, accounts, codeHashes, contracts, numbers, log, proofs>>
      /\ UNCHANGED <<input, guestVars>>
  BY DEF FromProvider, nodeVars, dbVars
<1>2. hostCall = 0 /\ log = <<>> /\ codeHashes = EmptyMap
  BY <1>1 DEF OneFork, HeaderKnown
<1>3. HeaderKnown'
  BY <1>1 DEF HeaderKnown, Canonical, Block
<1>4. LogInv' /\ Len(log') = 0
  BY <1>1, <1>2, EmptyAnswers DEF LogInv
<1>5. HostDbInv'
  <2>1. LoggedQueries' = LoggedQueries /\ DOMAIN codeHashes' = {}
    BY <1>1, <1>2 DEF LoggedQueries, EmptyMap
  <2> QED
    BY <1>1, <2>1 DEF OneFork, HostDbInv
<1>6. ProofsInv' /\ InputInv' /\ AncestorsInv'
  BY <1>1 DEF OneFork, ProofsInv, InputInv, AncestorsInv
<1>7. LinkInv' /\ ReplayInv'
  BY <1>1, <1>4, GuestWaits
<1> QED
  BY <1>3, <1>4, <1>5, <1>6, <1>7 DEF OneFork

\* The next call begins, the preflight ends, or a request fails: nothing is asked.
LEMMA PreflightEndStep ==
  ASSUME Inv, OneFork, UNCHANGED fork, HostCalls \/ EndPreflight \/ RpcFails
  PROVE  OneFork'
<1>1. /\ hostPc \in {"start", "preflight", "proofs", "ancestors"}
      /\ \/ hostPc = "preflight" /\ hostPc' = "preflight" /\ hostCall' = hostCall + 1
         \/ hostPc = "preflight" /\ hostPc' = "proofs" /\ hostCall' = hostCall /\ CallReturned
         \/ hostPc' = "aborted" /\ hostCall' = hostCall
      /\ UNCHANGED <<header, hostRules, accounts, codeHashes, contracts, numbers, log, proofs>>
      /\ UNCHANGED <<input, guestVars>>
  BY DEF HostCalls, EndPreflight, RpcFails, envVars, dbVars
<1>2. hostCall \in Nat /\ log \in Seq(TrueEntry(header)) /\ Len(log) \in Nat
  BY LenProperties DEF OneFork, LogInv
<1>3. HeaderKnown'
  BY <1>1 DEF OneFork, HeaderKnown, Canonical, Block
<1>4. LogInv'
  <2>1. hostPc' = "proofs" /\ hostCall' > 0 => log # <<>>
    BY <1>1, <1>2 DEF CallReturned, OfCall, ToSet
  <2>2. \A k \in 1..Len(log) : log[k].call \in 1..hostCall'
    BY <1>1, <1>2 DEF OneFork, LogInv
  <2>3. hostCall' \in Nat
    BY <1>1, <1>2
  <2> QED
    BY <1>1, <2>1, <2>2, <2>3 DEF OneFork, LogInv
<1>5. HostDbInv'
  <2>1. LoggedQueries' = LoggedQueries
    BY <1>1 DEF LoggedQueries
  <2> QED
    BY <1>1, <2>1 DEF OneFork, HostDbInv
<1>6. ProofsInv'
  <2>1. ASSUME hostPc' = "proofs" PROVE proofs' = <<>> /\ Proved' = {}
    BY <1>1, <2>1 DEF OneFork, ProofsInv, Proved
  <2>2. <<>> \in Seq({ProofOf(b) : b \in DOMAIN accounts}')
    BY EmptyAnswers
  <2> QED
    BY <1>1, <2>1, <2>2, FS_EmptySet DEF OneFork, ProofsInv
<1>7. InputInv' /\ AncestorsInv'
  BY <1>1 DEF OneFork, InputInv, AncestorsInv
<1>8. LinkInv' /\ ReplayInv'
  BY <1>1, <1>2, GuestWaits
<1> QED
  BY <1>3, <1>4, <1>5, <1>6, <1>7, <1>8 DEF OneFork

\* What a step of into_input leaves as it is.
LEMMA IntoInputFrame ==
  ASSUME Inv, OneFork, hostPc \in {"proofs", "ancestors"},
         hostPc' \in {"proofs", "ancestors", "done", "refused"},
         UNCHANGED <<fork, header, hostRules, hostCall, log>>, UNCHANGED guestVars
  PROVE  HeaderKnown' /\ LogInv' /\ LinkInv' /\ ReplayInv' /\ LoggedQueries' = LoggedQueries
<1>1. HeaderKnown'
  BY DEF OneFork, HeaderKnown, Canonical, Block
<1>2. LogInv'
  BY DEF OneFork, LogInv
<1>3. Len(log') \in Nat
  BY LenProperties DEF OneFork, LogInv
<1> QED
  BY <1>1, <1>2, <1>3, GuestWaits DEF LoggedQueries

\* The proof of one more account is fetched.
LEMMA GetProofStep ==
  ASSUME Inv, OneFork, UNCHANGED fork, NEW a \in Addresses, GetProof(a)
  PROVE  OneFork'
<1>1. /\ hostPc = "proofs" /\ hostPc' = "proofs"
      /\ a \in DOMAIN accounts \ {proofs[k].address : k \in DOMAIN proofs}
      /\ proofs' = Append(proofs, [address |-> a, state |-> StateOf(Canonical),
                                   slots |-> accounts[a]])
      /\ UNCHANGED <<header, hostRules, hostCall, accounts, codeHashes, contracts, numbers, log>>
      /\ UNCHANGED guestVars
  BY DEF GetProof, envVars, dbVars
<1> DEFINE S == {ProofOf(b) : b \in DOMAIN accounts}
           n == Len(proofs)
<1>2. proofs \in Seq(S) /\ IsFiniteSet(Proved) /\ Cardinality(Proved) = n /\ header = Canonical
  BY <1>1 DEF OneFork, ProofsInv, HeaderKnown
<1>3. proofs' = Append(proofs, ProofOf(a)) /\ ProofOf(a) \in S /\ ProofOf(a).address = a
  BY <1>1, <1>2 DEF ProofOf
<1> HIDE DEF S
<1>4. /\ proofs' \in Seq(S) /\ n \in Nat /\ Len(proofs') = n + 1
      /\ \A k \in 1..n : proofs'[k] = proofs[k]
      /\ proofs'[n + 1] = ProofOf(a) /\ DOMAIN proofs = 1..n
  BY <1>2, <1>3, AppendProperties, LenProperties
<1>5. Proved' = Proved \cup {a} /\ a \notin Proved
  <2>1. Proved' = {proofs'[k].address : k \in 1..(n + 1)}
    BY <1>4 DEF Proved
  <2>2. 1..(n + 1) = 1..n \cup {n + 1}
    BY <1>4
  <2>3. Proved' = {proofs'[k].address : k \in 1..n} \cup {proofs'[n + 1].address}
    BY <2>1, <2>2
  <2>4. {proofs'[k].address : k \in 1..n} = Proved
    BY <1>4 DEF Proved
  <2> QED
    BY <1>1, <1>3, <1>4, <2>3, <2>4 DEF Proved
<1>6. ProofsInv'
  <2>1. S' = S
    BY <1>1 DEF S, ProofOf
  <2>2. IsFiniteSet(Proved') /\ Cardinality(Proved') = n + 1
    BY <1>2, <1>5, FS_AddElement
  <2> QED
    BY <1>1, <1>4, <2>1, <2>2 DEF ProofsInv, S
<1>7. HeaderKnown' /\ LogInv' /\ LinkInv' /\ ReplayInv' /\ LoggedQueries' = LoggedQueries
  BY <1>1, IntoInputFrame
<1>8. HostDbInv'
  BY <1>1, <1>7 DEF OneFork, HostDbInv
<1>9. InputInv' /\ AncestorsInv'
  BY <1>1 DEF OneFork, InputInv, AncestorsInv
<1> QED
  BY <1>6, <1>7, <1>8, <1>9 DEF OneFork

-----------------------------------------------------------------------------
(* The input *)

\* A bounded set of numbers that is not empty has a greatest one.
LEMMA MaxExists ==
  ASSUME NEW n \in Nat, NEW S \in SUBSET (1..n), S # {}
  PROVE  Max(S) \in S
<1> DEFINE T == {k \in Nat : n - k \in S}
<1>1. PICK j \in S : TRUE
  OBVIOUS
<1>2. n - j \in T /\ T \in SUBSET Nat
  OBVIOUS
<1>3. Min(T) \in T /\ \A k \in T : Min(T) <= k
  BY <1>2, MinExists
<1>4. n - Min(T) \in S
  BY <1>3
<1>5. \A k \in S : n - Min(T) >= k
  <2> TAKE k \in S
  <2>1. n - k \in T
    OBVIOUS
  <2> QED
    BY <1>3, <2>1
<1> QED
  BY <1>4, <1>5 DEF Max

\* When there are as many proofs as accounts, each account has its proof.
LEMMA AllProved ==
  ASSUME Inv, OneFork, hostPc = "proofs", Len(proofs) = Cardinality(DOMAIN accounts)
  PROVE  /\ DOMAIN proofs = 1..Len(proofs) /\ Len(proofs) \in Nat
         /\ \A k \in DOMAIN proofs : \E a \in DOMAIN accounts : proofs[k] = ProofOf(a)
         /\ \A a \in DOMAIN accounts : \E k \in DOMAIN proofs : proofs[k] = ProofOf(a)
<1> DEFINE S == {ProofOf(b) : b \in DOMAIN accounts}
<1>1. /\ proofs \in Seq(S) /\ IsFiniteSet(DOMAIN accounts)
      /\ Cardinality(Proved) = Len(proofs)
  BY DEF OneFork, ProofsInv, HostDbInv
<1> HIDE DEF S
<1>2. /\ DOMAIN proofs = 1..Len(proofs) /\ Len(proofs) \in Nat
      /\ \A k \in DOMAIN proofs : proofs[k] \in S
  BY <1>1, LenProperties, ElementOfSeq
<1>3. \A k \in DOMAIN proofs : \E a \in DOMAIN accounts : proofs[k] = ProofOf(a)
  BY <1>2 DEF S
<1>4. \A a \in DOMAIN accounts : ProofOf(a).address = a
  BY DEF ProofOf
<1>5. Proved = DOMAIN accounts
  <2>1. Proved \subseteq DOMAIN accounts
    BY <1>2, <1>3, <1>4 DEF Proved
  <2> QED
    BY <1>1, <2>1, FS_Subset
<1>6. ASSUME NEW a \in DOMAIN accounts
      PROVE  \E k \in DOMAIN proofs : proofs[k] = ProofOf(a)
  <2>1. PICK k \in DOMAIN proofs : proofs[k].address = a
    BY <1>2, <1>5, <1>6 DEF Proved
  <2>2. PICK b \in DOMAIN accounts : proofs[k] = ProofOf(b)
    BY <1>3, <2>1
  <2> QED
    BY <1>4, <2>1, <2>2
<1> QED
  BY <1>2, <1>3, <1>6

\* The trie kept for an account's storage root has the slots read of the account,
\* unless it is that of another account with the same root.
LEMMA TrieKept ==
  ASSUME Inv, OneFork, hostPc = "proofs", Len(proofs) = Cardinality(DOMAIN accounts),
         NEW a \in Addresses, NEW s \in Slots, <<"storage", a, s>> \in LoggedQueries,
         StateOf(header)[a] # NoAccount
  PROVE  /\ StateOf(header)[a].storage \in DOMAIN StorageTries(proofs)
         /\ s \in StorageTries(proofs)[StateOf(header)[a].storage] \/ SharedRoot
<1> DEFINE root == StateOf(header)[a].storage
           I == {k \in WithStorage(proofs) : StorageRoot(proofs[k]) = root}
           n == Len(proofs)
<1>1. /\ DOMAIN proofs = 1..n /\ n \in Nat
      /\ \A k \in DOMAIN proofs : \E b \in DOMAIN accounts : proofs[k] = ProofOf(b)
      /\ \A b \in DOMAIN accounts : \E k \in DOMAIN proofs : proofs[k] = ProofOf(b)
  BY AllProved
<1>2. a \in DOMAIN accounts /\ s \in accounts[a]
  BY DEF OneFork, HostDbInv
<1>3. \A b : /\ ProofOf(b).address = b /\ ProofOf(b).state = StateOf(header)
             /\ ProofOf(b).slots = accounts[b]
  BY DEF ProofOf
<1>4. PICK k \in DOMAIN proofs : proofs[k] = ProofOf(a)
  BY <1>1, <1>2
<1>5. k \in I
  BY <1>2, <1>3, <1>4 DEF WithStorage, StorageRoot
<1>6. I \subseteq 1..n
  BY <1>1 DEF WithStorage
<1>7. Max(I) \in I
  BY <1>1, <1>5, <1>6, MaxExists
<1>8. PICK b \in DOMAIN accounts : proofs[Max(I)] = ProofOf(b)
  BY <1>1, <1>6, <1>7
<1>9. accounts[b] # {} /\ StateOf(header)[b].storage = root
  <2>1. /\ proofs[Max(I)].slots # {}
        /\ proofs[Max(I)].state[proofs[Max(I)].address].storage = root
    BY <1>7 DEF WithStorage, StorageRoot
  <2> QED
    BY <1>8, <2>1 DEF ProofOf
<1>10. root \in DOMAIN StorageTries(proofs) /\ StorageTries(proofs)[root] = accounts[b]
  <2>1. root \in {StorageRoot(proofs[j]) : j \in WithStorage(proofs)}
    BY <1>5
  <2> QED
    BY <1>3, <1>8, <2>1 DEF StorageTries
<1>11. CASE b = a
  BY <1>2, <1>10, <1>11
<1>12. CASE b # a
  <2>1. PICK t \in Slots : <<"storage", b, t>> \in LoggedQueries
    BY <1>8, <1>9 DEF OneFork, HostDbInv
  <2>2. log \in Seq(TrueEntry(header)) /\ DOMAIN log = 1..Len(log)
    BY LenProperties DEF OneFork, LogInv
  <2>3. PICK i \in DOMAIN log, j \in DOMAIN log :
          log[i].query = <<"storage", a, s>> /\ log[j].query = <<"storage", b, t>>
    BY <2>1, <2>2 DEF LoggedQueries
  <2>4. log[i] \in ToSet(log) /\ log[j] \in ToSet(log)
    BY <2>3 DEF ToSet
  <2>5. /\ log[i].query[1] = "storage" /\ log[j].query[1] = "storage"
        /\ log[i].query[2] = a /\ log[j].query[2] = b
    BY <2>3
  <2>6. SharedRoot
    BY <1>9, <1>12, <2>4, <2>5 DEF SharedRoot
  <2> QED
    BY <1>10, <2>6
<1> QED
  BY <1>10, <1>11, <1>12

\* into_input builds the tries and checks the state root, which is the header's.
LEMMA BuildTriesStep ==
  ASSUME Inv, OneFork, UNCHANGED fork, BuildTries
  PROVE  OneFork'
<1>1. /\ hostPc = "proofs" /\ Len(proofs) = Cardinality(DOMAIN accounts)
      /\ UNCHANGED <<header, hostRules, hostCall, accounts, codeHashes, contracts, numbers, log>>
      /\ UNCHANGED <<proofs, guestVars>>
      /\ hostPc' \in {"ancestors", "refused"}
  BY DEF BuildTries, envVars, dbVars
<1>2. /\ DOMAIN proofs = 1..Len(proofs) /\ Len(proofs) \in Nat
      /\ \A k \in DOMAIN proofs : \E a \in DOMAIN accounts : proofs[k] = ProofOf(a)
      /\ \A a \in DOMAIN accounts : \E k \in DOMAIN proofs : proofs[k] = ProofOf(a)
  BY <1>1, AllProved
<1>3. HeaderKnown' /\ LogInv' /\ LinkInv' /\ ReplayInv' /\ LoggedQueries' = LoggedQueries
  BY <1>1, IntoInputFrame
<1>4. HostDbInv'
  BY <1>1, <1>3 DEF OneFork, HostDbInv
<1>5. ProofsInv'
  BY <1>1 DEF ProofsInv
<1>6. \A a : /\ ProofOf(a).address = a /\ ProofOf(a).state = StateOf(header)
  BY DEF ProofOf
<1>7. proofs # <<>> => StateRoot(proofs) = StateOf(header)
  <2>1. proofs # <<>> => 1 \in DOMAIN proofs
    <3>1. proofs \in Seq({ProofOf(a) : a \in DOMAIN accounts})
      BY <1>1 DEF OneFork, ProofsInv
    <3> QED
      BY <1>2, <3>1
  <2> QED
    BY <1>2, <1>6, <2>1 DEF StateRoot
<1>8. CASE proofs # <<>>
  <2>1. /\ hostPc' = "ancestors"
        /\ input' = [NoInput EXCEPT
                       !.stateRoot = StateRoot(proofs),
                       !.known = KnownAccounts(proofs),
                       !.storageTries = StorageTries(proofs),
                       !.contracts = {contracts[h] : h \in DOMAIN contracts}]
    BY <1>7, <1>8 DEF BuildTries, StateRootMatches
  <2>2. /\ DOMAIN input' = {"stateRoot", "known", "storageTries", "contracts", "ancestors"}
        /\ input'.stateRoot = StateOf(header)
        /\ input'.known = KnownAccounts(proofs)
        /\ input'.storageTries = StorageTries(proofs)
        /\ input'.contracts = {contracts[h] : h \in DOMAIN contracts}
        /\ input'.ancestors = <<>>
    BY <1>7, <1>8, <2>1 DEF NoInput
  <2>3. ASSUME NEW a \in Addresses, <<"basic", a>> \in LoggedQueries
        PROVE  a \in KnownAccounts(proofs)
    <3>1. a \in DOMAIN accounts
      BY <1>1, <2>3 DEF OneFork, HostDbInv
    <3>2. PICK k \in DOMAIN proofs : proofs[k] = ProofOf(a)
      BY <1>2, <3>1
    <3>3. proofs[k] \in ToSet(proofs) /\ proofs[k].state = StateRoot(proofs)
      BY <1>6, <1>7, <1>8, <3>2 DEF ToSet
    <3> QED
      BY <1>6, <3>2, <3>3 DEF KnownAccounts
  <2>4. ASSUME NEW c \in Codes, <<"code", c>> \in LoggedQueries
        PROVE  c \in {contracts[h] : h \in DOMAIN contracts}
    BY <1>1, <2>4 DEF OneFork, HostDbInv
  <2>5. SharedRoot' <=> SharedRoot
    BY <1>1 DEF SharedRoot
  <2>6. InputInv'
    BY <1>1, <1>3, <2>1, <2>2, <2>3, <2>4, <2>5, TrieKept DEF InputInv
  <2>7. AncestorsInv'
    <3>1. Len(input'.ancestors) = 0 /\ Len(input'.ancestors) \in 0..(BlockNumber - 1)
      BY <2>2, ChainAssumption
    <3>2. input'.ancestors = [k \in 1..Len(input'.ancestors) |-> Block(fork', BlockNumber - k)]
      BY <2>2, <3>1
    <3>3. hostPc' # "done"
      BY <2>1
    <3> QED
      BY <3>1, <3>2, <3>3 DEF AncestorsInv
  <2> QED
    BY <1>3, <1>4, <1>5, <2>6, <2>7 DEF OneFork
<1>9. CASE proofs = <<>>
  <2>1. hostPc' = "refused"
    BY <1>9 DEF BuildTries
  <2>2. DOMAIN accounts = {}
    <3>1. IsFiniteSet(DOMAIN accounts) /\ Cardinality(DOMAIN accounts) = 0
      BY <1>1, <1>9 DEF OneFork, HostDbInv
    <3> QED
      BY <3>1, FS_EmptySet
  <2>3. hostCall = 0
    BY <1>1, <2>2 DEF OneFork, LogInv, HostDbInv
  <2> QED
    BY <1>1, <1>3, <1>4, <1>5, <2>1, <2>3 DEF OneFork, InputInv, AncestorsInv
<1> QED
  BY <1>8, <1>9

\* The ancestors are fetched down to the oldest one asked for.
LEMMA GetAncestorStep ==
  ASSUME Inv, OneFork, UNCHANGED fork, GetAncestor
  PROVE  OneFork'
<1> DEFINE L == Len(input.ancestors)
           n == BlockNumber - 1 - L
<1>1. /\ hostPc = "ancestors" /\ hostPc' \in {"ancestors", "done"}
      /\ UNCHANGED <<header, hostRules, hostCall, log>> /\ UNCHANGED guestVars
      /\ \/ /\ n >= OldestNeeded /\ hostPc' = "ancestors"
            /\ UNCHANGED <<accounts, codeHashes, contracts, numbers, proofs>>
            /\ input' = [input EXCEPT !.ancestors = Append(@, Block(fork, n))]
         \/ ~(n >= OldestNeeded) /\ hostPc' = "done" /\ input' = input
  BY DEF GetAncestor, envVars, dbVars
<1>2. /\ L \in 0..(BlockNumber - 1) /\ BlockNumber \in Nat \ {0}
      /\ input.ancestors = [k \in 1..L |-> Block(fork, BlockNumber - k)]
      /\ DOMAIN input = {"stateRoot", "known", "storageTries", "contracts", "ancestors"}
      /\ numbers \subseteq 1..(BlockNumber - 1)
      /\ fork \in Forks
  BY <1>1, ChainAssumption DEF OneFork, AncestorsInv, InputInv, HostDbInv, Inv, HostOrder
<1>3. HeaderKnown' /\ LogInv' /\ LinkInv' /\ ReplayInv' /\ LoggedQueries' = LoggedQueries
  BY <1>1, IntoInputFrame
<1>4. SharedRoot' <=> SharedRoot
  BY <1>1 DEF SharedRoot
<1>5. ProofsInv'
  BY <1>1 DEF ProofsInv
<1>6. /\ OldestNeeded \in numbers \cup {BlockNumber}
      /\ \A m \in numbers \cup {BlockNumber} : OldestNeeded <= m
  BY <1>2, MinExists DEF OldestNeeded
<1>7. CASE n >= OldestNeeded
  <2>1. /\ hostPc' = "ancestors"
        /\ UNCHANGED <<accounts, codeHashes, contracts, numbers>>
        /\ input' = [input EXCEPT !.ancestors = Append(@, Block(fork, n))]
    BY <1>1, <1>7
  <2>2. /\ DOMAIN input' = DOMAIN input
        /\ input'.stateRoot = input.stateRoot /\ input'.known = input.known
        /\ input'.storageTries = input.storageTries /\ input'.contracts = input.contracts
        /\ input'.ancestors = Append(input.ancestors, Block(fork, n))
    BY <1>2, <2>1
  <2>3. n \in 1..BlockNumber
    <3>1. OldestNeeded \in Nat /\ OldestNeeded >= 1
      BY <1>2, <1>6
    <3>2. n \in Int /\ n <= BlockNumber
      BY <1>2
    <3> QED
      BY <1>7, <3>1, <3>2
  <2>4. /\ Len(input'.ancestors) = L + 1
        /\ input'.ancestors = [k \in 1..(L + 1) |-> Block(fork, BlockNumber - k)]
    <3> DEFINE B(k) == Block(fork, BlockNumber - k)
    <3>1. \A k \in 1..(L + 1) : B(k) \in Blocks
      <4> TAKE k \in 1..(L + 1)
      <4>1. BlockNumber - k \in 1..BlockNumber
        BY <1>2, <2>3
      <4> QED
        BY <1>2, <4>1, BlockOfFork
    <3>2. B(L + 1) = Block(fork, n)
      BY <1>2
    <3> HIDE DEF B
    <3>3. input.ancestors = [k \in 1..L |-> B(k)]
      BY <1>2 DEF B
    <3>4. input.ancestors \in Seq(Blocks) /\ L \in Nat
      BY <1>2, <3>1, <3>3
    <3>5. input'.ancestors = Append(input.ancestors, B(L + 1))
      BY <2>2, <3>2
    <3>6. /\ input'.ancestors \in Seq(Blocks) /\ Len(input'.ancestors) = L + 1
          /\ \A k \in 1..L : input'.ancestors[k] = B(k)
          /\ input'.ancestors[L + 1] = B(L + 1)
          /\ DOMAIN input'.ancestors = 1..(L + 1)
      BY <1>2, <3>1, <3>3, <3>4, <3>5, AppendProperties, LenProperties
    <3>7. \A k \in 1..(L + 1) : input'.ancestors[k] = B(k)
      BY <1>2, <3>6
    <3>8. input'.ancestors = [k \in 1..(L + 1) |-> B(k)]
      BY <3>4, <3>6, <3>7
    <3> QED
      BY <3>6, <3>8 DEF B
  <2>5. InputInv'
    BY <1>1, <1>3, <1>4, <2>1, <2>2 DEF OneFork, InputInv
  <2>6. AncestorsInv'
    <3>1. L + 1 \in 0..(BlockNumber - 1)
      BY <1>2, <2>3
    <3> QED
      BY <2>1, <2>4, <3>1 DEF AncestorsInv
  <2>7. HostDbInv'
    BY <1>1, <1>3, <2>1 DEF OneFork, HostDbInv
  <2> QED
    BY <1>3, <1>5, <2>5, <2>6, <2>7 DEF OneFork
<1>8. CASE ~(n >= OldestNeeded)
  <2>1. hostPc' = "done" /\ input' = input
    BY <1>1, <1>8
  <2>2. InputInv'
    BY <1>1, <1>3, <1>4, <2>1 DEF OneFork, InputInv
  <2>3. ASSUME NEW m \in 1..(BlockNumber - 1), <<"blockhash", m>> \in LoggedQueries
        PROVE  m >= BlockNumber - L
    <3>1. m \in numbers
      BY <1>1, <2>3 DEF OneFork, HostDbInv
    <3>2. OldestNeeded <= m /\ OldestNeeded \in Nat
      BY <1>2, <1>6, <3>1
    <3> QED
      BY <1>2, <1>8, <3>2
  <2>4. AncestorsInv'
    BY <1>1, <1>2, <1>3, <2>1, <2>3 DEF OneFork, AncestorsInv
  <2>5. HostDbInv'
    BY <2>1 DEF HostDbInv
  <2> QED
    BY <1>3, <1>5, <2>2, <2>4, <2>5 DEF OneFork
<1> QED
  BY <1>7, <1>8

-----------------------------------------------------------------------------
(* Steps of the guest *)

\* The guest leaves what the host has found and fetched as it is.
LEMMA GuestFrame ==
  ASSUME OneFork, UNCHANGED <<nodeVars, hostVars>>
  PROVE  /\ HeaderKnown' /\ LogInv' /\ HostDbInv' /\ ProofsInv' /\ InputInv' /\ AncestorsInv'
         /\ LoggedQueries' = LoggedQueries /\ SharedRoot' = SharedRoot
<1>1. /\ UNCHANGED <<fork, hostPc, header, hostRules, hostCall, log, proofs, input>>
      /\ UNCHANGED <<accounts, codeHashes, contracts, numbers>>
  BY DEF nodeVars, hostVars, envVars, dbVars
<1>2. LoggedQueries' = LoggedQueries /\ SharedRoot' = SharedRoot
  BY <1>1 DEF LoggedQueries, SharedRoot
<1>3. HeaderKnown' /\ LogInv'
  BY <1>1 DEF OneFork, HeaderKnown, LogInv, Canonical, Block
<1>4. HostDbInv'
  BY <1>1, <1>2 DEF OneFork, HostDbInv
<1>5. ProofsInv'
  <2>1. {ProofOf(b) : b \in DOMAIN accounts}' = {ProofOf(b) : b \in DOMAIN accounts}
    BY <1>1 DEF ProofOf
  <2>2. Proved' = Proved
    BY <1>1 DEF Proved
  <2> QED
    BY <1>1, <2>1, <2>2 DEF OneFork, ProofsInv
<1>6. InputInv'
  BY <1>1, <1>2 DEF OneFork, InputInv
<1>7. AncestorsInv'
  BY <1>1, <1>2 DEF OneFork, AncestorsInv
<1> QED
  BY <1>2, <1>3, <1>4, <1>5, <1>6, <1>7

\* What is known of the header and of the input once the host is done.
LEMMA HostDone ==
  ASSUME Inv, OneFork, guestPc # "waiting" \/ hostPc = "done"
  PROVE  /\ hostPc = "done" /\ header = Canonical /\ header \in Blocks /\ fork \in Forks
         /\ Len(header) = BlockNumber /\ BlockNumber \in Nat \ {0}
         /\ hostRules = WithChainSpec(HostSpec, header) /\ hostRules # Unsupported
         /\ input.stateRoot = StateOf(header)
         /\ Len(input.ancestors) \in 0..(BlockNumber - 1)
         /\ input.ancestors = [k \in 1..Len(input.ancestors) |-> Block(fork, BlockNumber - k)]
<1>1. hostPc = "done" /\ fork \in Forks
  BY DEF Inv, HostOrder
<1>2. BlockNumber \in Nat \ {0} /\ BlockNumber \in 1..BlockNumber
  BY ChainAssumption
<1>3. Canonical \in Blocks /\ Len(Canonical) = BlockNumber
  BY <1>1, <1>2, BlockOfFork DEF Canonical
<1> QED
  BY <1>1, <1>2, <1>3 DEF OneFork, HeaderKnown, InputInv, AncestorsInv

\* into_env starts from the header.
LEMMA IntoEnvStep ==
  ASSUME Inv, OneFork, IntoEnv
  PROVE  OneFork'
<1>1. guestPc = "waiting" /\ hostPc = "done" /\ UNCHANGED <<nodeVars, hostVars, callVars>>
  BY DEF IntoEnv
<1>2. /\ header = Canonical /\ Len(header) = BlockNumber /\ BlockNumber \in Nat \ {0}
      /\ input.stateRoot = StateOf(header) /\ Len(input.ancestors) \in 0..(BlockNumber - 1)
  BY <1>1, HostDone
<1>3. /\ guestPc' = "linking" /\ previous' = header
      /\ blockHashes' = Put(EmptyMap, Len(header), header)
  BY <1>2 DEF IntoEnv, StateRootMatches
<1>4. UNCHANGED <<fork, input, answers, guestCall, log>> /\ answers = <<>>
  BY <1>1 DEF nodeVars, hostVars, callVars, Inv, GuestOrder
<1>5. LinkInv'
  <2>1. DOMAIN blockHashes' = BlockNumber..BlockNumber
    BY <1>2, <1>3 DEF Put, EmptyMap
  <2>2. 1 \in 1..(Len(input.ancestors) + 1) /\ BlockNumber - 1 + 1 = BlockNumber
    BY <1>2
  <2>3. previous' = Block(fork', BlockNumber)
    BY <1>2, <1>3, <1>4 DEF Canonical
  <2> QED
    BY <1>3, <1>4, <2>1, <2>2, <2>3 DEF LinkInv
<1>6. ReplayInv'
  <2>1. Len(log) \in Nat /\ Len(answers) = 0
    BY <1>4, LenProperties DEF OneFork, LogInv
  <2> QED
    BY <1>3, <1>4, <2>1 DEF ReplayInv
<1> QED
  BY <1>1, <1>5, <1>6, GuestFrame DEF OneFork

\* The loop of into_env finds the parent of each header it has reached.
LEMMA LinkAncestorStep ==
  ASSUME Inv, OneFork, LinkAncestor
  PROVE  OneFork'
<1> DEFINE L == Len(input.ancestors)
           ancestor == input.ancestors[Cardinality(DOMAIN blockHashes)]
<1>1. /\ guestPc = "linking" /\ Unread > 0
      /\ UNCHANGED <<nodeVars, hostVars, callVars>>
  BY DEF LinkAncestor
<1>2. /\ BlockNumber \in Nat \ {0} /\ L \in 0..(BlockNumber - 1) /\ fork \in Forks
      /\ input.ancestors = [k \in 1..L |-> Block(fork, BlockNumber - k)]
  BY <1>1, HostDone
<1>3. PICK k \in 1..(L + 1) : /\ DOMAIN blockHashes = (BlockNumber - k + 1)..BlockNumber
                              /\ previous = Block(fork, BlockNumber - k + 1)
  BY <1>1 DEF OneFork, LinkInv
<1>4. Cardinality(DOMAIN blockHashes) = k
  <2>1. BlockNumber - k + 1 \in Int /\ BlockNumber \in Int /\ ~(BlockNumber - k + 1 > BlockNumber)
    BY <1>2, <1>3
  <2>2. Cardinality((BlockNumber - k + 1)..BlockNumber) = BlockNumber - (BlockNumber - k + 1) + 1
    BY <2>1, FS_Interval
  <2> QED
    BY <1>2, <1>3, <2>2
<1>5. k \in 1..L /\ k + 1 \in 1..(L + 1)
  BY <1>1, <1>2, <1>3, <1>4 DEF Unread
<1>6. ancestor = Block(fork, BlockNumber - k) /\ Len(ancestor) = BlockNumber - k
  <2>1. BlockNumber - k \in 1..BlockNumber
    BY <1>2, <1>5
  <2> QED
    BY <1>2, <1>4, <1>5, <2>1, BlockOfFork
<1>7. IsParent(previous, ancestor)
  <2>1. BlockNumber - k + 1 \in 1..BlockNumber /\ BlockNumber - k + 1 > 1
        /\ (BlockNumber - k + 1) - 1 = BlockNumber - k
    BY <1>2, <1>5
  <2> QED
    BY <1>2, <1>3, <1>6, <2>1, BlockOfFork DEF IsParent
<1>8. /\ blockHashes' = Put(blockHashes, Len(ancestor), ancestor)
      /\ previous' = ancestor /\ guestPc' = "linking"
  BY <1>1, <1>7 DEF LinkAncestor
<1>9. UNCHANGED <<fork, input, answers, guestCall, log>> /\ answers = <<>>
  BY <1>1 DEF nodeVars, hostVars, callVars, Inv, GuestOrder
<1>10. LinkInv'
  <2>1. DOMAIN blockHashes' = DOMAIN blockHashes \cup {BlockNumber - k}
    BY <1>6, <1>8 DEF Put
  <2>2. DOMAIN blockHashes' = (BlockNumber - (k + 1) + 1)..BlockNumber
    BY <1>2, <1>3, <1>5, <2>1
  <2>3. previous' = Block(fork', BlockNumber - (k + 1) + 1)
    <3>1. BlockNumber - (k + 1) + 1 = BlockNumber - k
      BY <1>2, <1>5
    <3> QED
      BY <1>6, <1>8, <1>9, <3>1
  <2> QED
    BY <1>5, <1>8, <1>9, <2>2, <2>3 DEF LinkInv
<1>11. ReplayInv'
  <2>1. Len(log) \in Nat /\ Len(answers) = 0
    BY <1>9, LenProperties DEF OneFork, LogInv
  <2> QED
    BY <1>8, <1>9, <2>1 DEF ReplayInv
<1> QED
  BY <1>1, <1>10, <1>11, GuestFrame DEF OneFork

\* The loop is done: the guest's rules are those of the host, if both chain
\* specifications give the header's block the same.
LEMMA EnvReadyStep ==
  ASSUME SameRules, Inv, OneFork, EnvReady
  PROVE  OneFork'
<1> DEFINE L == Len(input.ancestors)
<1>1. /\ guestPc = "linking" /\ Unread = 0
      /\ guestRules' = WithChainSpec(GuestSpec, header)
      /\ guestPc' = IF guestRules' = Unsupported THEN "panicked" ELSE "running"
      /\ UNCHANGED <<nodeVars, hostVars, previous, blockHashes, callVars>>
  BY DEF EnvReady
<1>2. /\ BlockNumber \in Nat \ {0} /\ L \in 0..(BlockNumber - 1)
      /\ header \in Blocks /\ hostRules = WithChainSpec(HostSpec, header)
      /\ hostRules # Unsupported
  BY <1>1, HostDone
<1>3. guestRules' = hostRules /\ guestPc' = "running"
  BY <1>1, <1>2 DEF SameRules
<1>4. PICK k \in 1..(L + 1) : DOMAIN blockHashes = (BlockNumber - k + 1)..BlockNumber
  BY <1>1 DEF OneFork, LinkInv
<1>5. Cardinality(DOMAIN blockHashes) = k
  <2>1. BlockNumber - k + 1 \in Int /\ BlockNumber \in Int /\ ~(BlockNumber - k + 1 > BlockNumber)
    BY <1>2, <1>4
  <2>2. Cardinality((BlockNumber - k + 1)..BlockNumber) = BlockNumber - (BlockNumber - k + 1) + 1
    BY <2>1, FS_Interval
  <2> QED
    BY <1>2, <1>4, <2>2
<1>6. DOMAIN blockHashes = (BlockNumber - L)..BlockNumber
  <2>1. L + 1 - k = 0
    <3>1. Unread = 0
      BY <1>1
    <3> QED
      BY <1>5, <3>1 DEF Unread
  <2>2. BlockNumber - k + 1 = BlockNumber - L
    <3>1. k \in Int /\ L \in Int /\ BlockNumber \in Int
      BY <1>2, <1>4
    <3> HIDE DEF L
    <3> QED
      BY <2>1, <3>1
  <2> QED
    BY <1>4, <2>2
<1>7. /\ UNCHANGED <<hostRules, input, answers, guestCall, log, blockHashes>>
      /\ answers = <<>>
  BY <1>1 DEF nodeVars, hostVars, envVars, callVars, Inv, GuestOrder
<1>8. LinkInv'
  BY <1>3, <1>6, <1>7 DEF LinkInv
<1>9. ReplayInv'
  <2>1. Len(log) \in Nat /\ Len(answers) = 0
    BY <1>7, LenProperties DEF OneFork, LogInv
  <2> QED
    BY <1>3, <1>7, <2>1 DEF ReplayInv
<1> QED
  BY <1>1, <1>8, <1>9, GuestFrame DEF OneFork

\* A guest that runs repeats the preflight.
LEMMA Replays ==
  ASSUME Inv, OneFork, guestPc = "running"
  PROVE  /\ Replaying /\ Len(answers) \in Nat /\ Len(log) \in Nat /\ Len(answers) <= Len(log)
         /\ \A k \in 1..Len(answers) : answers[k] = log[k]
         /\ answers \in Seq(TrueEntry(header)) /\ log \in Seq(TrueEntry(header))
<1>1. /\ answers \in Seq(TrueEntry(header)) /\ log \in Seq(TrueEntry(header))
      /\ Len(answers) <= Len(log) /\ \A k \in 1..Len(answers) : answers[k] = log[k]
  BY DEF Inv, AnswersSound, OneFork, LogInv, ReplayInv
<1>2. Len(answers) \in Nat /\ Len(log) \in Nat
  BY <1>1, LenProperties
<1>3. IsPrefix(answers, log)
  BY <1>1, <1>2, SamePrefix
<1> QED
  BY <1>1, <1>2, <1>3 DEF Replaying, OneFork, LinkInv

\* The guest's next call begins, or the guest commits.
LEMMA GuestCallStep ==
  ASSUME Inv, OneFork, GuestCalls \/ GuestEnds
  PROVE  OneFork'
<1>1. /\ guestPc = "running" /\ UNCHANGED <<nodeVars, hostVars, guestEnvVars, answers>>
      /\ \/ guestPc' = "running" /\ guestCall' = guestCall + 1
         \/ guestPc' \in {"committed", "panicked"} /\ guestCall' = guestCall
  BY DEF GuestCalls, GuestEnds, callVars
<1>2. Replaying /\ Len(answers) \in Nat
  BY <1>1, Replays
<1>3. GuestEnds => guestPc' = "committed"
  BY <1>2 DEF GuestEnds
<1>4. guestPc' # "panicked"
  BY <1>1, <1>3 DEF GuestCalls
<1>5. UNCHANGED <<hostRules, input, log, blockHashes, guestRules, answers>> /\ guestCall \in Nat
  BY <1>1 DEF nodeVars, hostVars, envVars, guestEnvVars, Inv, GuestOrder
<1>6. LinkInv'
  BY <1>1, <1>4, <1>5 DEF OneFork, LinkInv
<1>7. ReplayInv'
  <2>1. \A k \in 1..Len(answers) : answers[k].call \in 1..guestCall
    BY DEF OneFork, ReplayInv
  <2>2. \A k \in 1..Len(answers) : answers[k].call \in 1..guestCall'
    BY <1>1, <1>5, <2>1
  <2>3. guestPc' = "running" => \A k \in 1..Len(answers) : answers[k].call # guestCall'
    BY <1>1, <1>4, <1>5, <2>1
  <2> QED
    BY <1>4, <1>5, <2>2, <2>3 DEF OneFork, ReplayInv
<1> QED
  BY <1>1, <1>6, <1>7, GuestFrame DEF OneFork

\* A query of the guest is the next of the preflight.
LEMMA NextQuery ==
  ASSUME Inv, OneFork, NEW q, GuestAsks(q)
  PROVE  /\ Len(answers) + 1 \in 1..Len(log) /\ Len(answers) \in Nat
         /\ log[Len(answers) + 1] = Recorded(guestCall, q, Truth(header, q))
         /\ log[Len(answers) + 1].query = q /\ log[Len(answers) + 1].call = guestCall
         /\ q \in LoggedQueries /\ guestCall > 0 /\ guestCall \in Nat /\ guestPc = "running"
<1>1. guestPc = "running" /\ guestCall > 0 /\ guestCall \in Nat
  BY DEF GuestAsks, Inv, GuestOrder
<1>2. Replaying /\ Len(answers) \in Nat /\ Len(log) \in Nat /\ log \in Seq(TrueEntry(header))
  BY <1>1, Replays
<1>3. Len(answers) < Len(log) /\ Expected.call = guestCall /\ Expected.query = q
  BY <1>2 DEF GuestAsks
<1>4. Len(answers) + 1 \in 1..Len(log)
  BY <1>2, <1>3
<1>5. Expected \in TrueEntry(header)
  BY <1>2, <1>4, ElementOfSeq DEF Expected
<1>6. Expected = Recorded(guestCall, q, Truth(header, q))
  BY <1>3, <1>5, EntryParts
<1>7. q \in LoggedQueries
  BY <1>3, <1>4 DEF LoggedQueries, Expected
<1> QED
  BY <1>1, <1>2, <1>3, <1>4, <1>6, <1>7 DEF Expected

\* An access of the guest's call is answered as on the host, unless two accounts
\* compete for a trie; an account that is there or has storage proofs is linked.
LEMMA ReadStep ==
  ASSUME Inv, OneFork, NEW q, GuestAsks(q),
         Answered(q, Truth(header, q)) \/ (Panic /\ SharedRoot),
         DOMAIN linked \subseteq DOMAIN linked',
         \A a \in Addresses :
           /\ q = <<"basic", a>> /\ StateOf(header)[a] # NoAccount
           /\ StateOf(header)[a].storage \in DOMAIN input.storageTries
           => a \in DOMAIN linked'
  PROVE  OneFork'
<1> DEFINE n == Len(answers)
<1>1. /\ n + 1 \in 1..Len(log) /\ n \in Nat
      /\ log[n + 1] = Recorded(guestCall, q, Truth(header, q))
      /\ log[n + 1].query = q /\ log[n + 1].call = guestCall
      /\ guestCall > 0 /\ guestCall \in Nat /\ guestPc = "running"
  BY NextQuery
<1>2. UNCHANGED <<nodeVars, hostVars, guestEnvVars, guestCall>>
  BY DEF GuestAsks
<1>3. UNCHANGED <<hostRules, header, input, log, blockHashes, guestRules>>
  BY <1>2 DEF nodeVars, hostVars, envVars, guestEnvVars
<1>4. LinkInv'
  BY <1>1, <1>3 DEF OneFork, LinkInv, Answered, Panic
<1>5. ReplayInv'
  <2>1. CASE Panic /\ SharedRoot
    <3>1. guestPc' = "panicked" /\ answers' = answers
      BY <2>1 DEF Panic
    <3>2. SharedRoot'
      BY <1>2, <2>1, GuestFrame
    <3> QED
      BY <1>2, <1>3, <3>1, <3>2 DEF OneFork, ReplayInv
  <2>2. CASE Answered(q, Truth(header, q))
    <3>1. answers' = Append(answers, log[n + 1]) /\ guestPc' = guestPc
      BY <1>1, <2>2 DEF Answered
    <3>2. /\ answers \in Seq(TrueEntry(header)) /\ log \in Seq(TrueEntry(header))
          /\ Len(log) \in Nat
      BY <1>1, Replays
    <3>3. log[n + 1] \in TrueEntry(header)
      BY <1>1, <3>2, ElementOfSeq
    <3>4. /\ Len(answers') = n + 1 /\ answers'[n + 1] = log[n + 1]
          /\ \A k \in 1..n : answers'[k] = answers[k]
      BY <3>1, <3>2, <3>3, AppendProperties
    <3>5. \A k \in 1..n : answers[k] = log[k] /\ answers[k].call \in 1..guestCall
      BY DEF OneFork, ReplayInv
    <3>6. \A k \in 1..(n + 1) : k = n + 1 \/ k \in 1..n
      BY <1>1
    <3>7. \A k \in 1..(n + 1) : answers'[k] = log[k] /\ answers'[k].call \in 1..guestCall
      BY <1>1, <3>4, <3>5, <3>6
    <3>8. ASSUME NEW k \in 1..(n + 1), NEW a \in Addresses,
                 answers'[k].call = guestCall, answers'[k].query = <<"basic", a>>,
                 StateOf(header)[a] # NoAccount,
                 StateOf(header)[a].storage \in DOMAIN input.storageTries
          PROVE  a \in DOMAIN linked'
      <4>1. CASE k = n + 1
        BY <1>1, <3>4, <3>8, <4>1
      <4>2. CASE k \in 1..n
        <5>1. answers[k].call = guestCall /\ answers[k].query = <<"basic", a>>
          BY <3>4, <3>8, <4>2
        <5> QED
          BY <1>1, <3>8, <4>2, <5>1 DEF OneFork, ReplayInv
      <4> QED
        BY <3>6, <3>8, <4>1, <4>2
    <3>9. n + 1 <= Len(log)
      BY <1>1, <3>2
    <3> QED
      BY <1>1, <1>2, <1>3, <3>1, <3>4, <3>7, <3>8, <3>9 DEF ReplayInv
  <2> QED
    BY <2>1, <2>2
<1> QED
  BY <1>2, <1>4, <1>5, GuestFrame DEF OneFork

\* The guest's database holds all that the preflight was told.
LEMMA GuestReadStep ==
  ASSUME Inv, OneFork, GuestReads
  PROVE  OneFork'
<1>1. ASSUME NEW q, GuestAsks(q)
      PROVE  /\ q \in LoggedQueries /\ hostPc = "done" /\ header = Canonical
             /\ input.stateRoot = StateOf(header)
             /\ Len(input.ancestors) \in 0..(BlockNumber - 1) /\ BlockNumber \in Nat \ {0}
             /\ guestPc = "running"
  BY <1>1, NextQuery, HostDone
<1>2. ASSUME NEW a \in Addresses, GuestBasic(a)
      PROVE  OneFork'
  <2> DEFINE q == <<"basic", a>>
  <2>1. GuestAsks(q)
    BY <1>2 DEF GuestBasic
  <2>2. q \in LoggedQueries /\ input.stateRoot = StateOf(header) /\ hostPc = "done"
    BY <1>1, <2>1
  <2>3. a \in input.known
    BY <2>2 DEF OneFork, InputInv
  <2>4. Answered(q, Truth(header, q))
    <3>1. Truth(header, q) = CodeOf(input.stateRoot[a])
      BY <2>2 DEF Truth
    <3> QED
      BY <1>2, <2>3, <3>1 DEF GuestBasic, Lookup
  <2>5. /\ DOMAIN linked \subseteq DOMAIN linked'
        /\ StateOf(header)[a] # NoAccount
           /\ StateOf(header)[a].storage \in DOMAIN input.storageTries => a \in DOMAIN linked'
    <3>1. \/ linked' = Put(linked, a, NoAccount) \/ linked' = Put(linked, a, input.stateRoot[a])
          \/ /\ linked' = linked
             /\ input.stateRoot[a].storage \notin DOMAIN input.storageTries
      BY <1>2 DEF GuestBasic
    <3>2. \A x : DOMAIN Put(linked, a, x) = DOMAIN linked \cup {a}
      BY DEF Put
    <3> QED
      BY <2>2, <3>1, <3>2
  <2>6. \A b \in Addresses : q = <<"basic", b>> => b = a
    OBVIOUS
  <2> QED
    BY <2>1, <2>4, <2>5, <2>6, ReadStep
<1>3. ASSUME NEW a \in Addresses, NEW s \in Slots, GuestStorage(a, s)
      PROVE  OneFork'
  <2> DEFINE q == <<"storage", a, s>>
             root == StateOf(header)[a].storage
  <2>1. GuestAsks(q) /\ linked' = linked
    BY <1>3 DEF GuestStorage
  <2>2. q \in LoggedQueries /\ hostPc = "done" /\ guestPc = "running"
    BY <1>1, <2>1
  <2>3. PICK n \in 1..Len(log) : /\ n = Len(answers) + 1 /\ Len(answers) \in Nat
                                 /\ log[n].query = q /\ log[n].call = guestCall
    BY <2>1, NextQuery
  <2>4. PICK j \in 1..(n - 1) : /\ log[j].call = guestCall
                                /\ log[j].query = <<"basic", a>>
                                /\ log[j].answer # NoCode
    BY <2>3 DEF OneFork, LogInv
  <2>5. j \in 1..Len(answers) /\ answers[j] = log[j]
    BY <2>2, <2>3, <2>4, Replays
  <2>6. StateOf(header)[a] # NoAccount
    <3>1. log[j] \in TrueEntry(header)
      BY <2>2, <2>3, <2>4, <2>5, Replays, ElementOfSeq
    <3>2. log[j].answer = Truth(header, <<"basic", a>>)
      BY <2>4, <3>1, EntryParts
    <3>3. Truth(header, <<"basic", a>>) = CodeOf(StateOf(header)[a])
      BY DEF Truth
    <3> QED
      BY <2>4, <3>2, <3>3 DEF CodeOf
  <2>7. root \in DOMAIN input.storageTries /\ (s \in input.storageTries[root] \/ SharedRoot)
    BY <2>2, <2>6 DEF OneFork, InputInv
  <2>8. a \in DOMAIN linked
    BY <2>2, <2>4, <2>5, <2>6, <2>7 DEF OneFork, ReplayInv
  <2>9. linked[a] = StateOf(header)[a]
    BY <2>8 DEF Inv, DbSound
  <2>10. Answered(q, Truth(header, q)) \/ (Panic /\ SharedRoot)
    <3>1. Truth(header, q) = SlotOf(linked[a], s)
      BY <2>9 DEF Truth
    <3>2. Lookup(linked[a] = NoAccount \/ s \in input.storageTries[root], q, SlotOf(linked[a], s))
      BY <1>3, <2>8, <2>9 DEF GuestStorage
    <3> QED
      BY <2>7, <3>1, <3>2 DEF Lookup
  <2>11. \A b \in Addresses : q # <<"basic", b>>
    BY KindsDiffer
  <2> QED
    BY <2>1, <2>10, <2>11, ReadStep
<1>4. ASSUME NEW c \in Codes, GuestCode(c)
      PROVE  OneFork'
  <2> DEFINE q == <<"code", c>>
  <2>1. GuestAsks(q) /\ linked' = linked
    BY <1>4 DEF GuestCode
  <2>2. q \in LoggedQueries /\ hostPc = "done"
    BY <1>1, <2>1
  <2>3. c \in input.contracts
    BY <2>2 DEF OneFork, InputInv
  <2>4. Answered(q, Truth(header, q))
    <3>1. Truth(header, q) = c
      BY DEF Truth
    <3> QED
      BY <1>4, <2>3, <3>1 DEF GuestCode
  <2>5. \A b \in Addresses : q # <<"basic", b>>
    BY KindsDiffer
  <2> QED
    BY <2>1, <2>4, <2>5, ReadStep
<1>5. ASSUME NEW n \in 1..(BlockNumber - 1), GuestBlockHash(n)
      PROVE  OneFork'
  <2> DEFINE q == <<"blockhash", n>>
  <2>1. GuestAsks(q) /\ linked' = linked
    BY <1>5 DEF GuestBlockHash
  <2>2. /\ q \in LoggedQueries /\ hostPc = "done" /\ guestPc = "running"
        /\ Len(input.ancestors) \in 0..(BlockNumber - 1) /\ BlockNumber \in Nat \ {0}
    BY <1>1, <2>1
  <2>3. n \in DOMAIN blockHashes
    <3>1. n >= BlockNumber - Len(input.ancestors)
      BY <2>2 DEF OneFork, AncestorsInv
    <3>2. DOMAIN blockHashes = (BlockNumber - Len(input.ancestors))..BlockNumber
      BY <2>2 DEF OneFork, LinkInv
    <3> QED
      BY <2>2, <3>1, <3>2
  <2>4. Answered(q, Truth(header, q))
    <3>1. Truth(header, q) = SubSeq(header, 1, n)
      BY DEF Truth
    <3>2. blockHashes[n] = SubSeq(header, 1, n)
      BY <2>3 DEF Inv, DbSound
    <3> QED
      BY <1>5, <2>3, <3>1, <3>2 DEF GuestBlockHash
  <2>5. \A b \in Addresses : q # <<"basic", b>>
    BY KindsDiffer
  <2> QED
    BY <2>1, <2>4, <2>5, ReadStep
<1> QED
  BY <1>2, <1>3, <1>4, <1>5 DEF GuestReads

-----------------------------------------------------------------------------
(* Completeness *)

\* The invariant of all states: as long as the node has stayed on its fork, what
\* the preflight read can be proved to a guest under the same rules.
Complete ==
  /\ reorgs \in Nat
  /\ reorgs = 0 /\ (hostPc # "start" => SameRules) => OneFork

\* It holds before the host has asked for anything.
LEMMA CompleteInit == ASSUME Init PROVE Complete
<1>1. LoggedQueries = {} /\ Len(log) = 0 /\ Len(answers) = 0
  BY DEF Init, LoggedQueries
<1>2. HeaderKnown /\ LogInv
  BY <1>1, EmptyAnswers DEF Init, HeaderKnown, LogInv
<1>3. HostDbInv
  <2>1. DOMAIN accounts = {} /\ DOMAIN codeHashes = {} /\ DOMAIN contracts = {}
    BY DEF Init, EmptyMap
  <2> QED
    BY <1>1, <2>1, FS_EmptySet DEF Init, HostDbInv
<1>4. ProofsInv /\ InputInv /\ AncestorsInv /\ LinkInv /\ ReplayInv
  BY <1>1 DEF Init, ProofsInv, InputInv, AncestorsInv, LinkInv, ReplayInv
<1> QED
  BY <1>2, <1>3, <1>4 DEF Init, Complete, OneFork

\* Every step on the one fork keeps the invariant of that fork.
LEMMA OneForkStep ==
  ASSUME Inv, OneFork, Next, ~Reorg, hostPc = "done" => SameRules
  PROVE  OneFork' /\ UNCHANGED reorgs
<1>1. CASE FromProvider
  BY <1>1, FromProviderStep DEF FromProvider, nodeVars
<1>2. CASE HostCalls \/ EndPreflight \/ RpcFails
  BY <1>2, PreflightEndStep DEF HostCalls, EndPreflight, RpcFails, nodeVars
<1>3. ASSUME NEW q, NEW answer, Ask(q, answer)
      PROVE  UNCHANGED <<fork, reorgs>>
  BY <1>3 DEF Ask, nodeVars
<1>4. ASSUME NEW a \in Addresses, Basic(a) \/ \E s \in Slots : Storage(a, s)
      PROVE  OneFork' /\ UNCHANGED reorgs
  <2>1. CASE Basic(a)
    <3>1. UNCHANGED <<fork, reorgs>>
      BY <1>3, <2>1 DEF Basic
    <3> QED
      BY <2>1, <3>1, BasicStep
  <2>2. ASSUME NEW s \in Slots, Storage(a, s) PROVE OneFork' /\ UNCHANGED reorgs
    <3>1. UNCHANGED <<fork, reorgs>>
      BY <1>3, <2>2 DEF Storage
    <3> QED
      BY <2>2, <3>1, StorageStep
  <2> QED
    BY <1>4, <2>1, <2>2
<1>5. ASSUME NEW c \in Codes, CodeByHash(c)
      PROVE  OneFork' /\ UNCHANGED reorgs
  <2>1. UNCHANGED <<fork, reorgs>>
    BY <1>3, <1>5 DEF CodeByHash
  <2> QED
    BY <1>5, <2>1, CodeStep
<1>6. ASSUME NEW n \in 1..(BlockNumber - 1), BlockHash(n)
      PROVE  OneFork' /\ UNCHANGED reorgs
  <2>1. UNCHANGED <<fork, reorgs>>
    BY <1>3, <1>6 DEF BlockHash
  <2> QED
    BY <1>6, <2>1, BlockHashStep
<1>7. ASSUME NEW a \in Addresses, GetProof(a)
      PROVE  OneFork' /\ UNCHANGED reorgs
  <2>1. UNCHANGED <<fork, reorgs>>
    BY <1>7 DEF GetProof, nodeVars
  <2> QED
    BY <1>7, <2>1, GetProofStep
<1>8. CASE BuildTries
  BY <1>8, BuildTriesStep DEF BuildTries, nodeVars
<1>9. CASE GetAncestor
  BY <1>9, GetAncestorStep DEF GetAncestor, nodeVars
<1>10. CASE HostNext
  BY <1>1, <1>2, <1>4, <1>5, <1>6, <1>7, <1>8, <1>9, <1>10 DEF HostNext
<1>11. CASE IntoEnv \/ LinkAncestor \/ EnvReady
  <2>1. EnvReady => SameRules
    BY HostDone DEF EnvReady
  <2> QED
    BY <1>11, <2>1, IntoEnvStep, LinkAncestorStep, EnvReadyStep
       DEF IntoEnv, LinkAncestor, EnvReady, nodeVars
<1>12. CASE GuestCalls \/ GuestEnds
  BY <1>12, GuestCallStep DEF GuestCalls, GuestEnds, nodeVars
<1>13. CASE GuestReads
  <2>1. UNCHANGED reorgs
    BY <1>13 DEF GuestReads, GuestBasic, GuestStorage, GuestCode, GuestBlockHash,
                 GuestAsks, nodeVars
  <2> QED
    BY <1>13, <2>1, GuestReadStep
<1> QED
  BY <1>10, <1>11, <1>12, <1>13, NextSplit DEF GuestNext

\* Only a switch of forks is counted.
LEMMA ReorgsKept == ASSUME Next, ~Reorg PROVE UNCHANGED <<fork, reorgs>>
<1>1. ASSUME NEW q, NEW answer, Ask(q, answer) PROVE UNCHANGED nodeVars
  BY <1>1 DEF Ask
<1>2. CASE HostNext
  <2>1. CASE \/ FromProvider \/ HostCalls \/ EndPreflight \/ RpcFails \/ BuildTries \/ GetAncestor
             \/ \E a \in Addresses : GetProof(a)
    BY <2>1 DEF FromProvider, HostCalls, EndPreflight, RpcFails, BuildTries, GetAncestor,
                GetProof, nodeVars
  <2>2. CASE \/ \E a \in Addresses : Basic(a) \/ \E s \in Slots : Storage(a, s)
             \/ \E c \in Codes : CodeByHash(c)
             \/ \E n \in 1..(BlockNumber - 1) : BlockHash(n)
    BY <1>1, <2>2 DEF Basic, Storage, CodeByHash, BlockHash, nodeVars
  <2> QED
    BY <1>2, <2>1, <2>2 DEF HostNext
<1>3. CASE GuestNext
  BY <1>3 DEF GuestNext, IntoEnv, LinkAncestor, EnvReady, GuestCalls, GuestEnds, GuestReads,
              GuestBasic, GuestStorage, GuestCode, GuestBlockHash, GuestAsks, nodeVars
<1> QED
  BY <1>2, <1>3, NextSplit

\* The header is set once, by the host's first request.
LEMMA HeaderKept ==
  ASSUME Inv, Next, hostPc # "start"
  PROVE  hostPc' # "start" /\ UNCHANGED header
<1>1. CASE HostNext
  BY <1>1 DEF HostNext, Reorg, FromProvider, HostCalls, EndPreflight, RpcFails, BuildTries,
              GetAncestor, GetProof, Basic, Storage, CodeByHash, BlockHash, Ask,
              hostVars, envVars
<1>2. CASE GuestNext
  BY <1>2, GuestStep DEF HostKept
<1> QED
  BY <1>1, <1>2, NextSplit

\* The invariant is kept by every step: a switch of forks ends what it promises.
LEMMA CompleteStep ==
  ASSUME Inv, Complete, [Next]_vars
  PROVE  Complete'
<1>1. CASE Reorg
  BY <1>1 DEF Reorg, Complete
<1>2. CASE Next /\ ~Reorg
  <2>1. UNCHANGED reorgs
    BY <1>2, ReorgsKept
  <2>2. ASSUME reorgs = 0, hostPc' # "start" => SameRules'
        PROVE  hostPc # "start" => SameRules
    <3>1. hostPc # "start" => hostPc' # "start" /\ UNCHANGED header
      BY <1>2, HeaderKept
    <3> QED
      BY <2>2, <3>1 DEF SameRules
  <2> QED
    BY <1>2, <2>1, <2>2, OneForkStep DEF Complete
<1>3. CASE UNCHANGED vars
  <2>1. UNCHANGED <<nodeVars, hostVars>> /\ UNCHANGED <<guestPc, guestRules, previous, blockHashes>>
        /\ UNCHANGED <<guestCall, linked, answers>> /\ UNCHANGED reorgs
        /\ UNCHANGED <<log, input, hostRules, header, fork>>
    BY <1>3 DEF vars, nodeVars, hostVars, envVars, guestVars, guestEnvVars, callVars
  <2>2. ASSUME OneFork PROVE OneFork'
    <3>1. LinkInv' /\ ReplayInv'
      <4>1. SharedRoot' = SharedRoot
        BY <2>1, <2>2, GuestFrame
      <4> QED
        BY <2>1, <2>2, <4>1 DEF OneFork, LinkInv, ReplayInv
    <3> QED
      BY <2>1, <2>2, <3>1, GuestFrame DEF OneFork
  <2>3. hostPc' = hostPc /\ SameRules' = SameRules
    BY <2>1 DEF hostVars, SameRules
  <2> QED
    BY <2>1, <2>2, <2>3 DEF Complete
<1> QED
  BY <1>1, <1>2, <1>3

\* Calls that ran on the host while the node stayed on its fork can be proved, for
\* every chain, every program of calls and all chain specifications that give this
\* block the same rules: the input is complete, but for storage tries that two
\* accounts compete for.
THEOREM Provable == Spec => []ProvableOnOneFork
<1>1. Inv /\ Complete => ProvableOnOneFork
  <2> SUFFICES ASSUME Inv, OneFork, hostCall > 0
               PROVE  /\ hostPc # "refused" /\ IsPrefix(answers, log)
                      /\ guestPc = "panicked" => SharedRoot
    BY DEF Complete, ProvableOnOneFork
  <2>1. IsPrefix(answers, log)
    BY SamePrefix DEF Inv, AnswersSound, OneFork, LogInv, ReplayInv
  <2>2. hostPc # "refused"
    BY DEF OneFork, LogInv, InputInv
  <2> QED
    BY <2>1, <2>2 DEF OneFork, ReplayInv
<1>2. Init => Complete
  BY CompleteInit
<1>3. Inv /\ Complete /\ [Next]_vars => Complete'
  BY CompleteStep
<1> QED
  BY <1>1, <1>2, <1>3, Invariance, PTL DEF Spec

-----------------------------------------------------------------------------
(* The caching provider: type correctness *)

\* Every step of a provider, of the node or of a fault keeps the types: in
\* particular only the header query's entry is ever None.
LEMMA CacheStepType ==
  ASSUME CacheTypeOK, [CacheNext]_cacheVars
  PROVE  CacheTypeOK'
<1> USE CacheAssumption
<1>1. ASSUME NEW p \in Providers, NEW mode \in {"live", "replay"},
             NEW content \in Cached, Start(p, mode, content)
      PROVE  CacheTypeOK'
  BY <1>1 DEF Start, CacheTypeOK
<1>2. Empty \in Cached
  BY DEF Empty, Cached
<1>3. ASSUME NEW p \in Providers, New(p) \/ FromFile(p) PROVE CacheTypeOK'
  BY <1>1, <1>2, <1>3 DEF New, FromFile, CacheTypeOK
<1>4. ASSUME NEW p \in Providers, DropReplay(p) PROVE CacheTypeOK'
  BY <1>4 DEF DropReplay, CacheTypeOK, history
<1>5. ASSUME NEW p \in Providers, Truncate(p) PROVE CacheTypeOK'
  BY <1>5 DEF Truncate, CacheTypeOK, history
<1>6. ASSUME NEW p \in Providers, Write(p) PROVE CacheTypeOK'
  <2>1. file' \in {cache[p], Torn} /\ cache[p] \in Cached
    BY <1>6 DEF Write, Finish, CacheTypeOK
  <2>2. \A q \in Queries : cache[p][q] # Absent => cache[p][q] \in Answers \cup {None}
    BY <2>1 DEF Cached, Known
  <2>3. saved' \subseteq Queries \X (Answers \cup {None})
    BY <1>6, <2>2 DEF Write, Finish, CacheTypeOK
  <2> QED
    BY <1>6, <2>1, <2>3 DEF Write, Finish, CacheTypeOK
<1>7. ASSUME NEW p \in Providers, WriteFails(p) PROVE CacheTypeOK'
  BY <1>7 DEF WriteFails, CacheTypeOK, history
<1>8. ASSUME NEW p \in Providers, NEW q \in Queries, Hit(p, q) PROVE CacheTypeOK'
  <2>1. cache[p][q] \in Answers \cup {None}
    BY <1>8 DEF Hit, CacheTypeOK, Cached, Known
  <2> QED
    BY <1>8, <2>1 DEF Hit, Give, CacheTypeOK
<1>9. ASSUME NEW p \in Providers, NEW q \in Queries, Fetch(p, q) PROVE CacheTypeOK'
  <2>1. node[q] \in Known(q) /\ node[q] \in Answers \cup {None}
    BY <1>9 DEF Fetch, Ok, CacheTypeOK
  <2>2. cache' \in [Providers -> Cached]
    BY <1>9, <2>1 DEF Fetch, CacheTypeOK, Cached
  <2> QED
    BY <1>9, <2>1, <2>2 DEF Fetch, Give, CacheTypeOK
<1>10. ASSUME NEW p \in Providers, NEW q \in Queries, PanicOnMiss(p, q) PROVE CacheTypeOK'
  BY <1>10 DEF PanicOnMiss, CacheTypeOK, history
<1>11. ASSUME NEW q \in Queries, NEW a \in Answers, NodeMoves(q, a) PROVE CacheTypeOK'
  BY <1>11 DEF NodeMoves, CacheTypeOK
<1>12. ASSUME Crash PROVE CacheTypeOK'
  BY <1>12 DEF Crash, CacheTypeOK, history
<1>13. ASSUME UNCHANGED cacheVars PROVE CacheTypeOK'
  BY <1>13 DEF cacheVars, CacheTypeOK, history
<1> QED
  BY <1>3, <1>4, <1>5, <1>6, <1>7, <1>8, <1>9, <1>10, <1>11, <1>12, <1>13 DEF CacheNext

\* Before anything is created the types hold.
LEMMA CacheTypeInit == CacheInit => CacheTypeOK
<1> SUFFICES ASSUME CacheInit PROVE CacheTypeOK
  OBVIOUS
<1>1. Empty \in Cached
  BY DEF Empty, Cached
<1>2. \A q \in Queries : {node[q]} \cap Known(q) \in SUBSET (Answers \cup {None})
  BY DEF CacheInit
<1>3. told \in [Queries -> SUBSET (Answers \cup {None})]
  BY <1>2 DEF CacheInit
<1>4. /\ cache \in [Providers -> Cached]
      /\ given \in [Providers -> [Queries -> SUBSET (Answers \cup {None})]]
  BY <1>1 DEF CacheInit
<1>5. moves \in 0..MaxMoves /\ faults \in 0..MaxFaults
  BY CacheAssumption DEF CacheInit
<1>6. /\ pc \in [Providers -> {"idle", "live", "replay", "saving"}]
      /\ saved \subseteq Queries \X (Answers \cup {None})
      /\ node \in [Queries -> Answers \cup {None}]
  BY DEF CacheInit
<1> QED
  BY <1>3, <1>4, <1>5, <1>6 DEF CacheInit, CacheTypeOK

\* The state of cache, file and providers always has its type.
THEOREM CacheTypeCorrect == CacheSpec => []CacheTypeOK
BY CacheTypeInit, CacheStepType, PTL DEF CacheSpec

-----------------------------------------------------------------------------
(* The caching provider: answers *)

\* The answers a cache or a file holds were the node's.
True(c) == \A q \in Queries : c[q] # Absent => c[q] \in told[q]

AnswersInv ==
  /\ CacheTypeOK
  /\ file \notin {NoFile, Torn} => True(file)
  /\ \A p \in Providers : True(cache[p])
  /\ \A q \in Queries : Ok(q, node[q]) => node[q] \in told[q]
  /\ AnswersOnceTrue

\* Saving and loading hand caches on unchanged, a query adds an answer of the
\* node to the cache and to what was given, and a failure adds nothing.
LEMMA AnswersStep ==
  ASSUME AnswersInv, [CacheNext]_cacheVars
  PROVE  AnswersInv'
<1>1. CacheTypeOK /\ CacheTypeOK'
  BY CacheStepType DEF AnswersInv
<1> DEFINE Rest == /\ file' \notin {NoFile, Torn} => True(file)'
                   /\ \A p \in Providers : True(cache[p])'
                   /\ \A q \in Queries : Ok(q, node[q])' => node'[q] \in told'[q]
                   /\ \A p \in Providers, q \in Queries : given'[p][q] \subseteq told'[q]
<1>2. ASSUME NEW p \in Providers, NEW mode, NEW content, True(content),
             Start(p, mode, content)
      PROVE  Rest
  <2>1. \A o \in Providers : cache'[o] \in {content, cache[o]}
    BY <1>1, <1>2 DEF Start, CacheTypeOK
  <2>2. \A o \in Providers, q \in Queries : given'[o][q] \in {{}, given[o][q]}
    BY <1>1, <1>2 DEF Start, CacheTypeOK
  <2> QED
    BY <1>2, <2>1, <2>2 DEF Start, AnswersInv, AnswersOnceTrue, True, Ok, Known
<1>3. ASSUME NEW p \in Providers, New(p) \/ FromFile(p) PROVE Rest
  <2>1. True(Empty)
    BY DEF True, Empty
  <2> QED
    BY <1>2, <1>3, <2>1 DEF New, FromFile, AnswersInv
<1>4. ASSUME UNCHANGED <<node, cache, told, given>>, file' \in {file, Torn}
      PROVE  Rest
  BY <1>4 DEF AnswersInv, AnswersOnceTrue, True, Ok, Known
<1>5. ASSUME NEW p \in Providers, Write(p) PROVE Rest
  <2>1. UNCHANGED <<node, cache, told, given>> /\ file' \in {cache[p], Torn}
    BY <1>5 DEF Write, Finish
  <2> QED
    BY <2>1 DEF AnswersInv, AnswersOnceTrue, True, Ok, Known
<1>6. ASSUME NEW p \in Providers, NEW q \in Queries, NEW a \in told[q], Give(p, q, a)
      PROVE  /\ UNCHANGED <<node, file, told>>
             /\ \A o \in Providers, k \in Queries : given'[o][k] \subseteq told[k]
  <2>1. given' = [given EXCEPT ![p][q] = @ \cup {a}]
    BY <1>6 DEF Give
  <2>2. \A o \in Providers, k \in Queries :
          \/ given'[o][k] = given[o][k]
          \/ k = q /\ given'[o][k] = given[o][k] \cup {a}
    BY <1>1, <2>1 DEF CacheTypeOK
  <2> QED
    BY <1>6, <2>2 DEF Give, AnswersInv, AnswersOnceTrue
<1>7. ASSUME NEW p \in Providers, NEW q \in Queries, Hit(p, q) PROVE Rest
  <2>1. cache[p][q] \in told[q] /\ UNCHANGED cache /\ Give(p, q, cache[p][q])
    BY <1>7 DEF Hit, AnswersInv, True
  <2> QED
    BY <1>6, <2>1 DEF AnswersInv, True, Ok, Known
<1>8. ASSUME NEW p \in Providers, NEW q \in Queries, Fetch(p, q) PROVE Rest
  <2>1. /\ node[q] \in told[q] /\ Give(p, q, node[q])
        /\ cache' = [cache EXCEPT ![p][q] = node[q]]
    BY <1>8 DEF Fetch, AnswersInv
  <2>2. \A o \in Providers, k \in Queries :
          \/ cache'[o][k] = cache[o][k]
          \/ k = q /\ cache'[o][k] = node[q]
    BY <1>1, <2>1 DEF CacheTypeOK, Cached
  <2> QED
    BY <1>6, <2>1, <2>2 DEF AnswersInv, True, Ok, Known
<1>9. ASSUME NEW q \in Queries, NEW a \in Answers, NodeMoves(q, a) PROVE Rest
  <2>1. /\ node' = [node EXCEPT ![q] = a] /\ told' = [told EXCEPT ![q] = @ \cup {a}]
        /\ UNCHANGED <<file, cache, given>>
    BY <1>9 DEF NodeMoves
  <2>2. \A k \in Queries : /\ told[k] \subseteq told'[k]
                           /\ node'[k] = node[k] \/ node'[k] \in told'[k]
    BY <1>1, <2>1 DEF CacheTypeOK
  <2> QED
    BY <2>1, <2>2 DEF AnswersInv, AnswersOnceTrue, True, Ok, Known
<1>10. ASSUME UNCHANGED cacheVars \/ Crash \/ \E p \in Providers :
                 \/ DropReplay(p) \/ Truncate(p) \/ WriteFails(p)
                 \/ \E q \in Queries : PanicOnMiss(p, q)
       PROVE  Rest
  BY <1>4, <1>10 DEF cacheVars, history, Crash, DropReplay, Truncate, WriteFails, PanicOnMiss
<1>11. Rest
  <2> HIDE DEF Rest
  <2> QED
    BY <1>3, <1>5, <1>7, <1>8, <1>9, <1>10 DEF CacheNext
<1> QED
  BY <1>1, <1>11 DEF AnswersInv, AnswersOnceTrue, True, Ok

\* Through any number of saves, loads, crashes and write errors, a provider
\* answers a query only with what the node answered to it at some time.
THEOREM AnsweredTruly == CacheSpec => []AnswersOnceTrue
<1>1. CacheInit => AnswersInv
  <2> SUFFICES ASSUME CacheInit PROVE AnswersInv
    OBVIOUS
  <2>1. CacheTypeOK
    BY CacheTypeInit
  <2>2. /\ \A p \in Providers : True(cache[p])
        /\ AnswersOnceTrue /\ file = NoFile
    BY DEF CacheInit, True, Empty, AnswersOnceTrue
  <2>3. \A q \in Queries : Ok(q, node[q]) => node[q] \in told[q]
    BY DEF CacheInit, Ok
  <2> QED
    BY <2>1, <2>2, <2>3 DEF AnswersInv
<1>2. AnswersInv => AnswersOnceTrue
  BY DEF AnswersInv
<1> QED
  BY <1>1, <1>2, AnswersStep, PTL DEF CacheSpec

-----------------------------------------------------------------------------
(* The caching provider: files *)

Caching(p) == pc[p] \in {"live", "saving"}

\* The cache holds what the recorded saves held.
Keeps(c) == \A e \in saved : c[e[1]] = e[2]

\* What was saved while nobody else cached is in every file that can be loaded, and
\* in every cache that will be saved: their providers were created after it.
Kept ==
  /\ \A p \in Providers : Caching(p) => Keeps(cache[p])
  /\ file = NoFile => saved = {}
  /\ file \notin {NoFile, Torn} => Keeps(file)
  /\ \A e \in saved : e[2] # Absent

\* With one caching provider at a time, the file is truncated exactly while that
\* provider saves it.
Alone ==
  /\ \A p, o \in Providers : Caching(p) /\ Caching(o) => p = o
  /\ \A p \in Providers : pc[p] = "saving" => tail = p
  /\ \A p \in Providers : pc[p] = "live" => file # Torn
  /\ file = Torn => faults > 0 \/ \E p \in Providers : pc[p] = "saving"

FilesInv == CacheTypeOK /\ Kept /\ (~shared => Alone)

\* A provider starts from a file that keeps what was saved, its cache only grows, and
\* the file it saves is that cache, or is refused for ever.
LEMMA KeptStep ==
  ASSUME CacheTypeOK, Kept, [CacheNext]_cacheVars
  PROVE  Kept'
<1>1. CacheTypeOK'
  BY CacheStepType
<1> USE FileAssumption, CacheAssumption
<1>2. ASSUME NEW p \in Providers, New(p) PROVE Kept'
  <2>1. /\ pc' = [pc EXCEPT ![p] = "live"]
        /\ cache' = [cache EXCEPT ![p] = IF file = NoFile THEN Empty ELSE file]
        /\ file # Torn /\ UNCHANGED <<file, saved>>
    BY <1>2 DEF New, Start
  <2>2. \A o \in Providers : /\ o # p => pc'[o] = pc[o] /\ cache'[o] = cache[o]
                             /\ o = p => cache'[o] = IF file = NoFile THEN Empty ELSE file
    BY <2>1 DEF CacheTypeOK
  <2> QED
    BY <2>1, <2>2 DEF Kept, Caching, Keeps
<1>3. ASSUME NEW p \in Providers, FromFile(p) \/ DropReplay(p) \/ \E q \in Queries : PanicOnMiss(p, q)
      PROVE  Kept'
  <2>1. /\ UNCHANGED <<file, saved>>
        /\ \E mode \in {"idle", "replay"} : pc' = [pc EXCEPT ![p] = mode]
        /\ \A o \in Providers \ {p} : cache'[o] = cache[o]
    BY <1>3 DEF FromFile, Start, DropReplay, PanicOnMiss, history, CacheTypeOK
  <2>2. \A o \in Providers : /\ o # p => pc'[o] = pc[o] /\ cache'[o] = cache[o]
                             /\ o = p => pc'[o] \in {"idle", "replay"}
    BY <2>1 DEF CacheTypeOK
  <2> QED
    BY <2>1, <2>2 DEF Kept, Caching, Keeps
<1>4. ASSUME NEW p \in Providers, Truncate(p) PROVE Kept'
  <2>1. /\ pc[p] = "live" /\ pc' = [pc EXCEPT ![p] = "saving"]
        /\ file' = Torn /\ UNCHANGED <<cache, saved>>
    BY <1>4 DEF Truncate, history
  <2>2. \A o \in Providers : Caching(o)' => Caching(o)
    BY <2>1 DEF CacheTypeOK, Caching
  <2> QED
    BY <2>1, <2>2 DEF Kept, Caching, Keeps
<1>5. ASSUME NEW p \in Providers, Write(p) PROVE Kept'
  <2>1. /\ pc[p] = "saving" /\ pc' = [pc EXCEPT ![p] = "idle"]
        /\ file' \in {cache[p], Torn} /\ cache[p] \in Cached /\ UNCHANGED cache
        /\ saved' = saved \cup {<<q, cache[p][q]>> :
                                  q \in {k \in Queries : CachesAlone(p) /\ cache[p][k] # Absent}}
    BY <1>5 DEF Write, Finish, CacheTypeOK
  <2>2. \A o \in Providers : Caching(o)' => o # p /\ Caching(o)
    BY <2>1 DEF CacheTypeOK, Caching
  <2>3. Keeps(cache[p])
    BY <2>1 DEF Kept, Caching
  <2>4. \A e \in saved' : cache[p][e[1]] = e[2] /\ e[2] # Absent
    BY <2>1, <2>3 DEF Keeps, Kept
  <2>5. CASE CachesAlone(p)
    <3>1. \A o \in Providers : ~Caching(o)'
      BY <2>2, <2>5 DEF CachesAlone, Caching
    <3> QED
      BY <2>1, <2>4, <3>1 DEF Kept, Keeps
  <2>6. CASE ~CachesAlone(p)
    <3>1. saved' = saved
      BY <2>1, <2>6
    <3> QED
      BY <2>1, <2>2, <2>3, <3>1 DEF Kept, Keeps
  <2> QED
    BY <2>5, <2>6
<1>6. ASSUME UNCHANGED <<cache, saved>>, file' \in {file, Torn},
             \A o \in Providers : Caching(o)' => Caching(o)
      PROVE  Kept'
  BY <1>6 DEF Kept, Keeps
<1>7. ASSUME NEW p \in Providers, WriteFails(p) PROVE Kept'
  <2>1. pc' = [pc EXCEPT ![p] = "idle"]
    BY <1>7 DEF WriteFails
  <2>2. \A o \in Providers : Caching(o)' => Caching(o)
    BY <2>1 DEF CacheTypeOK, Caching
  <2> QED
    BY <1>6, <1>7, <2>2 DEF WriteFails, history
<1>8. ASSUME NEW p \in Providers, NEW q \in Queries, Fetch(p, q) PROVE Kept'
  <2>1. /\ cache[p][q] = Absent
        /\ cache' = [cache EXCEPT ![p][q] = node[q]]
        /\ UNCHANGED <<pc, file, saved>>
    BY <1>8 DEF Fetch, Give
  <2>2. \A o \in Providers, k \in Queries :
          cache[o][k] # Absent => cache'[o][k] = cache[o][k]
    BY <2>1 DEF CacheTypeOK, Cached
  <2>3. ASSUME NEW o \in Providers, Keeps(cache[o]) PROVE Keeps(cache[o])'
    <3> SUFFICES ASSUME NEW e \in saved PROVE cache'[o][e[1]] = e[2]
      BY <2>1 DEF Keeps
    <3>1. e[1] \in Queries /\ cache[o][e[1]] = e[2] /\ e[2] # Absent
      BY <2>3 DEF CacheTypeOK, Keeps, Kept
    <3> QED
      BY <2>2, <3>1
  <2> QED
    BY <2>1, <2>3 DEF Kept, Caching, Keeps
<1>9. ASSUME UNCHANGED cacheVars \/ (\E p \in Providers, q \in Queries : Hit(p, q))
                \/ \E q \in Queries, a \in Answers : NodeMoves(q, a)
      PROVE  Kept'
  <2>1. UNCHANGED <<pc, file, saved, cache>>
    BY <1>9 DEF cacheVars, history, Hit, Give, NodeMoves
  <2> QED
    BY <1>6, <2>1 DEF Caching
<1>10. ASSUME Crash PROVE Kept'
  <2>1. \A o \in Providers : ~Caching(o)'
    BY <1>10 DEF Crash, Caching
  <2> QED
    BY <1>6, <1>10, <2>1 DEF Crash, history
<1> QED
  BY <1>2, <1>3, <1>4, <1>5, <1>7, <1>8, <1>9, <1>10 DEF CacheNext

\* A save by the only caching provider ends with a file that parses; a fault leaves
\* a torn file, from which nothing starts.
LEMMA AloneStep ==
  ASSUME CacheTypeOK, ~shared => Alone, [CacheNext]_cacheVars, ~shared'
  PROVE  Alone'
<1>1. CacheTypeOK'
  BY CacheStepType
<1>2. ~shared /\ Alone
  BY DEF CacheNext, cacheVars, history, New, FromFile, Start, DropReplay, Truncate,
     Write, Finish, WriteFails, Hit, Fetch, Give, PanicOnMiss, NodeMoves, Crash, CacheTypeOK
<1> USE FileAssumption, CacheAssumption
<1>3. ASSUME NEW p \in Providers, New(p) PROVE Alone'
  <2>1. /\ pc[p] = "idle" /\ pc' = [pc EXCEPT ![p] = "live"]
        /\ file # Torn /\ UNCHANGED <<file, tail, faults>>
        /\ \A o \in Providers \ {p} : ~Caching(o)
    BY <1>2, <1>3 DEF New, Start, Caching, CachesAlone
  <2>2. \A o \in Providers : /\ o # p => pc'[o] = pc[o]
                             /\ o = p => pc'[o] = "live"
    BY <2>1 DEF CacheTypeOK
  <2> QED
    BY <1>2, <2>1, <2>2 DEF Alone, Caching
<1>4. ASSUME NEW p \in Providers, FromFile(p) \/ DropReplay(p) \/ \E q \in Queries : PanicOnMiss(p, q)
      PROVE  Alone'
  <2>1. /\ pc[p] \in {"idle", "replay"} /\ UNCHANGED <<file, tail, faults>>
        /\ \E mode \in {"idle", "replay"} : pc' = [pc EXCEPT ![p] = mode]
    BY <1>4 DEF FromFile, Start, DropReplay, PanicOnMiss
  <2>2. \A o \in Providers : /\ o # p => pc'[o] = pc[o]
                             /\ o = p => pc'[o] \in {"idle", "replay"}
    BY <2>1 DEF CacheTypeOK
  <2> QED
    BY <1>2, <2>1, <2>2 DEF Alone, Caching
<1>5. ASSUME NEW p \in Providers, Truncate(p) PROVE Alone'
  <2>1. /\ pc[p] = "live" /\ pc' = [pc EXCEPT ![p] = "saving"]
        /\ file' = Torn /\ tail' = p /\ UNCHANGED faults
    BY <1>5 DEF Truncate
  <2>2. \A o \in Providers : /\ o # p => pc'[o] = pc[o] /\ ~Caching(o)
                             /\ o = p => pc'[o] = "saving"
    BY <1>2, <2>1 DEF CacheTypeOK, Alone, Caching
  <2> QED
    BY <1>2, <2>1, <2>2 DEF Alone, Caching
<1>6. ASSUME NEW p \in Providers, Write(p) PROVE Alone'
  <2>1. /\ pc[p] = "saving" /\ pc' = [pc EXCEPT ![p] = "idle"]
        /\ file' = cache[p] /\ file' \in Cached
    BY <1>2, <1>6 DEF Write, Finish, Alone, CacheTypeOK
  <2>2. \A o \in Providers : pc'[o] \notin {"live", "saving"}
    BY <1>2, <2>1 DEF CacheTypeOK, Alone, Caching
  <2> QED
    BY <2>1, <2>2 DEF Alone, Caching
<1>7. ASSUME NEW p \in Providers, WriteFails(p) PROVE Alone'
  <2>1. pc[p] = "saving" /\ pc' = [pc EXCEPT ![p] = "idle"] /\ faults' = faults + 1
    BY <1>7 DEF WriteFails
  <2>2. \A o \in Providers : pc'[o] \notin {"live", "saving"}
    BY <1>2, <2>1 DEF CacheTypeOK, Alone, Caching
  <2>3. faults' > 0
    BY <2>1 DEF CacheTypeOK
  <2> QED
    BY <2>2, <2>3 DEF Alone, Caching
<1>8. ASSUME UNCHANGED <<pc, file, tail, faults>> PROVE Alone'
  BY <1>2, <1>8 DEF Alone, Caching
<1>9. ASSUME UNCHANGED cacheVars
                \/ (\E p \in Providers, q \in Queries : Hit(p, q) \/ Fetch(p, q))
                \/ \E q \in Queries, a \in Answers : NodeMoves(q, a)
      PROVE  Alone'
  BY <1>8, <1>9 DEF cacheVars, history, Hit, Fetch, Give, NodeMoves
<1>10. ASSUME Crash PROVE Alone'
  <2>1. (\A o \in Providers : pc'[o] = "idle") /\ faults' = faults + 1
    BY <1>10 DEF Crash
  <2>2. faults' > 0
    BY <2>1 DEF CacheTypeOK
  <2> QED
    BY <2>1, <2>2 DEF Alone, Caching
<1> QED
  BY <1>3, <1>4, <1>5, <1>6, <1>7, <1>9, <1>10 DEF CacheNext

\* The invariant of files in every reachable state.
LEMMA FilesCorrect == CacheSpec => []FilesInv
<1>1. CacheInit => FilesInv
  <2> SUFFICES ASSUME CacheInit PROVE FilesInv
    OBVIOUS
  <2>1. file = NoFile /\ saved = {} /\ \A p \in Providers : pc[p] = "idle"
    BY DEF CacheInit
  <2> QED
    BY <2>1, CacheTypeInit, FileAssumption DEF FilesInv, Alone, Kept, Caching, Keeps
<1>2. FilesInv /\ [CacheNext]_cacheVars => FilesInv'
  BY CacheStepType, KeptStep, AloneStep DEF FilesInv
<1> QED
  BY <1>1, <1>2, PTL DEF CacheSpec

\* CachedProvider::save by one caching provider at a time leaves a file the next
\* CachedProvider::new can load, unless a crash or the disk interrupts it.
THEOREM TornByInterruption == CacheSpec => []TornOnlyByInterruption
<1>1. FilesInv => TornOnlyByInterruption
  BY DEF FilesInv, Alone, TornOnlyByInterruption
<1> QED
  BY <1>1, FilesCorrect, PTL

\* What a save held that completed while nobody else cached is in every file that
\* loads afterwards, however many providers then load and save it at a time.
THEOREM NothingLost == CacheSpec => []SavedIsKept
<1>1. FilesInv => SavedIsKept
  BY DEF FilesInv, Kept, Keeps, SavedIsKept
<1> QED
  BY <1>1, FilesCorrect, PTL
=============================================================================
