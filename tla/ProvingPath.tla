----------------------------- MODULE ProvingPath -----------------------------
(***************************************************************************)
(* From the guest's source to a receipt that a contract accepts: the build *)
(* of the guest and of the files generated for the contracts, the copy of  *)
(* the image ID that the deployed contract imports, the publisher's proof  *)
(* and its seal, and the verifier.  Guest, publisher and contract are      *)
(* rebuilt, copied and deployed by hand and apart from each other.         *)
(***************************************************************************)
EXTENDS Prover

CONSTANTS
  HostRelease,   \* the release the host programs are built against
  None

\* A file without a usable image ID names no guest.
ASSUME FileAssumption == None \notin Guests

VARIABLES
  elf,         \* the ELF file of the last build of the guest
  build,       \* progress of the build, or how the last one ended
  imageIdSol,  \* contracts/ImageID.sol: the guest it names, None if unusable
  elfSol,      \* contracts/Elf.sol is usable
  publisher,   \* VERIFIED_AIRDROP_ELF in the publisher's binary
  imported,    \* oapp/contracts/ImageID.sol, which the deployed contract uses
  contract,    \* the contract the publisher is told of: image ID, release
  receipt,     \* the publisher's receipt, until it is submitted
  verdict      \* history: the verification just made

fileVars == <<elf, build, imageIdSol, elfSol, publisher>>
otherVars == <<imported, contract, receipt>>
vars == <<fileVars, otherVars, verdict>>

Idle == build \in {"none", "ok", "failed", "skipped"}

\* Nothing is built yet, but the OApp's ImageID.sol is committed.
Init ==
  /\ elf = None /\ build = "none"
  /\ imageIdSol = None /\ elfSol = FALSE /\ publisher = None
  /\ imported \in Guests /\ contract = None
  /\ receipt = None /\ verdict = None

-----------------------------------------------------------------------------
(* The build *)

\* embed_methods_with_options compiles the guest as its source then stands.
EmbedMethods ==
  /\ Idle
  /\ elf' \in Guests /\ build' = "imageId"
  /\ verdict' = None
  /\ UNCHANGED <<imageIdSol, elfSol, publisher, otherVars>>

\* RISC0_SKIP_BUILD: no guest is compiled, no file is generated, and the
\* publisher is linked without a guest.
SkipBuild ==
  /\ Idle
  /\ publisher' = None /\ build' = "skipped"
  /\ verdict' = None
  /\ UNCHANGED <<elf, imageIdSol, elfSol, otherVars>>

WriteImageId ==
  /\ build = "imageId"
  /\ imageIdSol' = elf /\ build' = "elf"
  /\ verdict' = None
  /\ UNCHANGED <<elf, elfSol, publisher, otherVars>>

\* The file holds the path of the ELF file, the same for every build.
WriteElf ==
  /\ build = "elf"
  /\ elfSol' = TRUE /\ build' = "link"
  /\ verdict' = None
  /\ UNCHANGED <<elf, imageIdSol, publisher, otherVars>>

Link ==
  /\ build = "link"
  /\ publisher' = elf /\ build' = "ok"
  /\ verdict' = None
  /\ UNCHANGED <<elf, imageIdSol, elfSol, otherVars>>

\* Faulty variant: the error is passed over.
BuildFailsIgnored ==
  /\ build' = CASE build = "imageId" -> "elf"
               [] build = "elf"     -> "link"
               [] OTHER             -> "failed"
  /\ verdict' = None
  /\ UNCHANGED <<elf, imageIdSol, elfSol, publisher, otherVars>>

\* The guest does not compile, forge is missing or refuses a file, or the link
\* fails.
BuildFails ==
  /\ build' = "failed"
  /\ verdict' = None
  /\ UNCHANGED <<elf, imageIdSol, elfSol, publisher, otherVars>>

\* fs::write has truncated the file.
WriteFails ==
  /\ \/ build = "imageId" /\ imageIdSol' = None /\ UNCHANGED elfSol
     \/ build = "elf" /\ elfSol' = FALSE /\ UNCHANGED imageIdSol
  /\ build' = "failed"
  /\ verdict' = None
  /\ UNCHANGED <<elf, publisher, otherVars>>

-----------------------------------------------------------------------------
(* The contract *)

\* The generated file is not the one the OApp imports: it is copied by hand.
CopyImageId ==
  /\ imageIdSol # None
  /\ imported' = imageIdSol
  /\ verdict' = None
  /\ UNCHANGED <<fileVars, contract, receipt>>

Groth16(release) == [kind |-> "groth16", release |-> release]
Mock == [kind |-> "mock"]

\* The verifier's address is written in the deploy script.
Deploy ==
  /\ \E release \in Releases :
       contract' = [guest |-> imported, verifier |-> Groth16(release)]
  /\ verdict' = None
  /\ UNCHANGED <<fileVars, imported, receipt>>

-----------------------------------------------------------------------------
(* Seals and their verification *)

\* encode: the selector of the host's release in front of the proof.
Encode(r) ==
  SubSeq(Bytes(ParametersDigest(HostRelease)), 1, 4) \o <<[proof |-> r]>>

\* prove of the FFI program in dev mode: no proof, the digest of the claim.
FakeSeal(r) == [i \in 1..4 |-> Byte(0)] \o Bytes(Digest(r))

\* ControlID.sol, whose second constant is in the opposite byte order.
ControlID(release) == [root |-> Bytes(ControlRoot(release)),
                       bn254 |-> Reverse(Bytes(Bn254ControlId(release)))]

SelectorOf(verifier) ==
  IF verifier.kind = "mock" THEN [i \in 1..4 |-> Byte(0)]
  ELSE Selector(ControlID(verifier.release), Key)

\* The pairing check: a proof is good for the signals it was made for.
verifyProof(seal, signals) ==
  \E i \in DOMAIN seal :
    "proof" \in DOMAIN seal[i] /\ signals = SignalsOf(seal[i].proof)

\* Faulty variant: the result of verifyProof is not looked at.
VerifyIntegrityUnchecked(verifier, seal, claimDigest) ==
  /\ SubSeq(seal, 1, 4) = SelectorOf(verifier)
  /\ verifier.kind = "mock" => SubSeq(seal, 5, Len(seal)) = Bytes(claimDigest)

VerifyIntegrity(verifier, seal, claimDigest) ==
  /\ SubSeq(seal, 1, 4) = SelectorOf(verifier)
  /\ LET rest == SubSeq(seal, 5, Len(seal))
     IN  IF verifier.kind = "mock" THEN rest = Bytes(claimDigest)
         ELSE verifyProof(rest, PublicSignals(ControlID(verifier.release), claimDigest))

Verify(verifier, seal, guest, journal) ==
  VerifyIntegrity(verifier, seal,
                  ReceiptClaimDigest(Ok(ImageId(guest), JournalDigest(journal))))

Verdict(verifier, seal, guest, journal, r) ==
  [verifier |-> verifier, guest |-> guest, journal |-> journal, receipt |-> r,
   accepted |-> Verify(verifier, seal, guest, journal)]

-----------------------------------------------------------------------------
(* The publisher, and the tests *)

\* The proof may come from a service that runs another release; in dev mode
\* there is none, and the publisher ends.
Prove ==
  /\ publisher # None /\ receipt = None /\ verdict = None
  /\ receipt' \in {r \in Receipt : r.guest = publisher}
  /\ UNCHANGED <<fileVars, imported, contract, verdict>>

\* buildMerkleTree, with the receipt's journal or another.
Submit ==
  /\ receipt # None /\ contract # None
  /\ \E journal \in Journals :
       verdict' = Verdict(contract.verifier, Encode(receipt), contract.guest,
                          journal, receipt)
  /\ receipt' = None
  /\ UNCHANGED <<fileVars, imported, contract>>

\* A test deploys the verifier of the mode it runs in and proves with the ELF
\* file and the image ID of the generated files.
TestVerdict(dev, r) ==
  Verdict(IF dev THEN Mock ELSE Groth16(HostRelease),
          IF dev THEN FakeSeal(r) ELSE Encode(r), imageIdSol, r.journal, r)

ForgeTest ==
  /\ imageIdSol # None /\ elfSol /\ receipt = None /\ verdict = None
  /\ \E dev \in BOOLEAN, r \in Receipt :
       /\ r.guest = elf /\ r.release = HostRelease
       /\ verdict' = TestVerdict(dev, r)
  /\ UNCHANGED <<fileVars, imported, contract, receipt>>

Next ==
  \/ EmbedMethods \/ SkipBuild \/ WriteImageId \/ WriteElf \/ Link
  \/ BuildFails \/ WriteFails
  \/ CopyImageId \/ Deploy
  \/ Prove \/ Submit \/ ForgeTest

Spec == Init /\ [][Next]_vars

-----------------------------------------------------------------------------
(* Properties *)

\* The run of a receipt ended well and assumed nothing.
RunOk(r) == r.exit = [system |-> Halted, user |-> 0] /\ r.assumptions = ZERO

\* The proof was made with the circuits the verifier is for.
SameCircuits(v) ==
  v.verifier.kind = "groth16" => v.receipt.release = v.verifier.release

\* Whoever builds, copies and deploys what in whatever order: a journal is
\* accepted only if the guest whose image ID the contract holds was run, ended
\* well, assumed nothing and wrote that journal.
AcceptedIsExecuted ==
  verdict # None /\ verdict.accepted =>
    /\ verdict.receipt.guest = verdict.guest
    /\ verdict.receipt.journal = verdict.journal
    /\ RunOk(verdict.receipt) /\ SameCircuits(verdict)

\* The contracts' encoding of claims, parameters and signals meets the
\* prover's: a proof made by the host's release is accepted by the verifier of
\* that release, for the guest and the journal it is about.
HonestAccepted ==
  verdict # None =>
    LET r == verdict.receipt
        honest == /\ r.guest = verdict.guest /\ r.journal = verdict.journal
                  /\ RunOk(r) /\ SameCircuits(verdict)
                  /\ verdict.verifier.kind = "groth16" => r.release = HostRelease
    IN  honest => verdict.accepted

\* Any claim, also of a run that paused or failed, has in the contracts the
\* digest it has in the prover.
DigestsAgree ==
  receipt # None =>
    /\ ReceiptClaimDigest(ClaimOf(receipt)) = Digest(receipt)
    /\ SystemStateDigest([pc |-> ENTRY, merkleRoot |-> [memory |-> receipt.guest]])
         = ImageId(receipt.guest)

\* After a build that ended well, the publisher's guest is the one the
\* generated files name, and a test of it passes in either mode.
BuildsAgree ==
  build = "ok" =>
    /\ publisher = elf
    /\ \A dev \in BOOLEAN, r \in Receipt :
         r.guest = elf /\ RunOk(r) /\ r.release = HostRelease =>
           imageIdSol # None /\ elfSol /\ TestVerdict(dev, r).accepted
=============================================================================
