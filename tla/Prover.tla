------------------------------- MODULE Prover -------------------------------
(***************************************************************************)
(* The prover and its circuits, which belong to the RISC Zero crates: only *)
(* what the contracts and the host programs rely on.  Here a digest is     *)
(* made of words and of little-endian integers.                            *)
(***************************************************************************)
EXTENDS ClaimDigest

CONSTANTS
  Guests,        \* the successive programs of the guest
  Journals,
  Exits,         \* how a run ends: [system, user]
  Assumptions,   \* digests of what a run assumes to be proved elsewhere
  Releases       \* releases of the circuits

ASSUME ProverAssumption ==
  /\ Exits \subseteq [system : Halted..SystemSplit, user : 0..255]
  /\ ZERO \in Assumptions

\* What a receipt is about, and the release whose circuits proved it.
Receipt == [guest : Guests, exit : Exits, journal : Journals,
            assumptions : Assumptions, release : Releases]

LittleEndian(n, width) == [i \in 1..width |-> Byte((n \div Weight[i]) % 256)]

Struct(tag, down, data) ==
  Sha256(<<Tag(tag)>> \o down \o data \o LittleEndian(Len(down), 2))

State(root, pc) == Struct("risc0.SystemState", <<root>>, LittleEndian(pc, 4))

ENTRY == 2099200     \* where a program is entered
ImageId(guest) == State([memory |-> guest], ENTRY)
JournalDigest(journal) == [journal |-> journal]

\* A halted run leaves no state behind, a split one has no output.
ClaimOf(r) ==
  [preStateDigest |-> ImageId(r.guest),
   postStateDigest |-> IF r.exit.system = Halted THEN State(ZERO, 0)
                       ELSE State([memoryAfter |-> r.guest], ENTRY),
   exitCode |-> r.exit,
   input |-> ZERO,
   output |-> IF r.exit.system = SystemSplit THEN ZERO
              ELSE Struct("risc0.Output",
                          <<JournalDigest(r.journal), r.assumptions>>, <<>>)]

Digest(r) ==
  LET claim == ClaimOf(r)
  IN  Struct("risc0.ReceiptClaim",
             <<claim.input, claim.preStateDigest, claim.postStateDigest, claim.output>>,
             LittleEndian(claim.exitCode.system, 4)
             \o LittleEndian(claim.exitCode.user, 4))

\* The parameters of a release, and the key all releases have in common.
ControlRoot(release) == [controlRoot |-> release]
Bn254ControlId(release) == [controlId |-> release]
Key == [alpha |-> [point |-> "alpha"], beta |-> [point |-> "beta"],
        gamma |-> [point |-> "gamma"], delta |-> [point |-> "delta"],
        ic |-> [i \in 1..6 |-> [point |-> i]]]

ParametersDigest(release) ==
  LET ic == FoldRight(LAMBDA point, points :
                        Struct("risc0_groth16.VerifyingKey.IC", <<point, points>>, <<>>),
                      Key.ic, ZERO)
      key == Struct("risc0_groth16.VerifyingKey",
                    <<Key.alpha, Key.beta, Key.gamma, Key.delta, ic>>, <<>>)
  IN  Sha256(<<Tag("risc0.Groth16ReceiptVerifierParameters")>>
             \o Bytes(ControlRoot(release)) \o Bytes(Bn254ControlId(release))
             \o <<key>> \o LittleEndian(3, 2))

\* The public signals for which a receipt's seal is a proof.
Halves(word) == <<Reverse(SubSeq(Bytes(word), 1, 16)), Reverse(SubSeq(Bytes(word), 17, 32))>>

SignalsOf(r) ==
  Halves(ControlRoot(r.release)) \o Halves(Digest(r))
  \o <<Reverse(Bytes(Bn254ControlId(r.release)))>>
=============================================================================
