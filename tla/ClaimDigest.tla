----------------------------- MODULE ClaimDigest -----------------------------
(***************************************************************************)
(* The digests of claims about runs of guests, as the contracts compute    *)
(* them.  A word is 32 bytes.  SHA-256 is injective: a digest is modelled  *)
(* by what was hashed, a sequence of words and of single bytes, and its    *)
(* bytes by their places in it.                                            *)
(***************************************************************************)
EXTENDS Integers, Sequences, SequencesExt

Sha256(items) == [sha256 |-> items]
Tag(name) == [tag |-> name]          \* the hash of a constant string
ZERO == [zero |-> TRUE]              \* bytes32(0)
Byte(n) == [byte |-> n]
Bytes(word) == [i \in 1..32 |-> [word |-> word, index |-> i]]

-----------------------------------------------------------------------------
(* Integers of a width, as their bytes: the most significant first *)

Weight == <<1, 256, 65536, 16777216>>     \* of a byte, the least first

Uint(n, width) == [i \in 1..width |-> Byte((n \div Weight[width - i + 1]) % 256)]

\* v << 8 * k: what is shifted out is lost.
ShiftLeft(v, k) ==
  [i \in DOMAIN v |-> IF i + k \in DOMAIN v THEN v[i + k] ELSE Byte(0)]

\* Neighbouring groups of g bytes change places, by two masks and two shifts.
SwapGroups(v, g) ==
  [i \in DOMAIN v |-> IF ((i - 1) \div g) % 2 = 0 THEN v[i + g] ELSE v[i - g]]

reverseByteOrderUint16(v) == SwapGroups(v, 1)
reverseByteOrderUint32(v) == SwapGroups(SwapGroups(v, 1), 2)
reverseByteOrderUint256(v) ==
  SwapGroups(SwapGroups(SwapGroups(SwapGroups(SwapGroups(v, 1), 2), 4), 8), 16)

-----------------------------------------------------------------------------
(* Structural hashing *)

taggedStruct(tag, down, data) ==
  Sha256(<<tag>> \o down \o data \o reverseByteOrderUint16(Uint(Len(down), 2)))

taggedListCons(tag, head, tail) == taggedStruct(tag, <<head, tail>>, <<>>)

taggedList(tag, list) ==
  FoldRight(LAMBDA head, tail : taggedListCons(tag, head, tail), list, ZERO)

-----------------------------------------------------------------------------
(* Claims *)

Halted == 0
Paused == 1
SystemSplit == 2

SystemStateDigest(state) ==
  Sha256(<<Tag("risc0.SystemState"), state.merkleRoot>>
         \o reverseByteOrderUint32(Uint(state.pc, 4)) \o ShiftLeft(Uint(1, 2), 1))

SYSTEM_STATE_ZERO_DIGEST ==
  Sha256(<<Tag("risc0.SystemState"), ZERO>> \o Uint(0, 4) \o ShiftLeft(Uint(1, 2), 1))

OutputDigest(output) ==
  Sha256(<<Tag("risc0.Output"), output.journalDigest, output.assumptionsDigest>>
         \o ShiftLeft(Uint(2, 2), 1))

\* Faulty variant: the exit codes are packed without the shift.
ReceiptClaimDigestUnshifted(claim) ==
  Sha256(<<Tag("risc0.ReceiptClaim"), claim.input, claim.preStateDigest,
           claim.postStateDigest, claim.output>>
         \o Uint(claim.exitCode.system, 4) \o Uint(claim.exitCode.user, 4)
         \o ShiftLeft(Uint(4, 2), 1))

ReceiptClaimDigest(claim) ==
  Sha256(<<Tag("risc0.ReceiptClaim"), claim.input, claim.preStateDigest,
           claim.postStateDigest, claim.output>>
         \o ShiftLeft(Uint(claim.exitCode.system, 4), 3)
         \o ShiftLeft(Uint(claim.exitCode.user, 4), 3)
         \o ShiftLeft(Uint(4, 2), 1))

\* A run that halted well, without assumptions.
Ok(imageId, journalDigest) ==
  [preStateDigest |-> imageId,
   postStateDigest |-> SYSTEM_STATE_ZERO_DIGEST,
   exitCode |-> [system |-> Halted, user |-> 0],
   input |-> ZERO,
   output |-> OutputDigest([journalDigest |-> journalDigest,
                            assumptionsDigest |-> ZERO])]

-----------------------------------------------------------------------------
(* The Groth16 verifier: its parameters and its public signals *)

\* Faulty variant: the halves are taken from the digest as it is.
SplitDigestUnreversed(digest) ==
  <<SubSeq(digest, 17, 32), SubSeq(digest, 1, 16)>>

\* The lower and the upper half of the reversed digest.
SplitDigest(digest) ==
  LET reversed == reverseByteOrderUint256(digest)
  IN  <<SubSeq(reversed, 17, 32), SubSeq(reversed, 1, 16)>>

\* key: the points of the verification key, each already hashed.
VerifierKeyDigest(key) ==
  Sha256(<<Tag("risc0_groth16.VerifyingKey"), key.alpha, key.beta, key.gamma, key.delta,
           taggedList(Tag("risc0_groth16.VerifyingKey.IC"), key.ic)>>
         \o ShiftLeft(Uint(5, 2), 1))

\* control: the constants of ControlID.sol.
Selector(control, key) ==
  SubSeq(Bytes(Sha256(<<Tag("risc0.Groth16ReceiptVerifierParameters")>>
                      \o control.root
                      \o reverseByteOrderUint256(control.bn254)
                      \o <<VerifierKeyDigest(key)>>
                      \o ShiftLeft(Uint(3, 2), 1))),
         1, 4)

PublicSignals(control, claimDigest) ==
  SplitDigest(control.root) \o SplitDigest(Bytes(claimDigest)) \o <<control.bn254>>
=============================================================================
