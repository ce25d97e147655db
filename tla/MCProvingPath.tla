---------------------------- MODULE MCProvingPath ----------------------------
(* Two guests and two releases; runs that halt well, pause with the       *)
(* greatest user code, or are split, with and without an assumption.        *)
EXTENDS ProvingPath, TLC

Exit(system, user) == [system |-> system, user |-> user]
MCExits == {Exit(Halted, 0), Exit(Paused, 255), Exit(SystemSplit, 0)}
MCAssumptions == {ZERO, [claims |-> 1]}

MCSymmetry == Permutations(Guests) \cup Permutations(Journals)

\* All 32 bytes change places, and nothing is lost.
ASSUME Reversed ==
  LET word == [i \in 1..32 |-> i]
  IN  /\ reverseByteOrderUint256(word) = Reverse(word)
      /\ reverseByteOrderUint32(SubSeq(word, 1, 4)) = <<4, 3, 2, 1>>
      /\ reverseByteOrderUint16(SubSeq(word, 1, 2)) = <<2, 1>>
=============================================================================
