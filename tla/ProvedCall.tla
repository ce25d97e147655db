----------------------------- MODULE ProvedCall -----------------------------
(***************************************************************************)
(* What Steel promises of the calls it proves: a block is fixed before     *)
(* anything is read, all the guest reads is true of that block, the rules  *)
(* it runs under are the network's for that block, and nothing is read     *)
(* once the guest has committed or failed.                                 *)
(***************************************************************************)
EXTENDS SteelChain

CONSTANTS NoBlock, NoRules

VARIABLES
  block,    \* the block the journal commits to
  rules,    \* the rules the calls are run under
  reads,    \* the queries of the calls, with their answers
  outcome   \* "none", "committed", "failed"

Init ==
  /\ block = NoBlock /\ rules = NoRules /\ reads = {} /\ outcome = "none"

Fix ==
  /\ block = NoBlock
  /\ block' \in Blocks
  /\ UNCHANGED <<rules, reads, outcome>>

Begin ==
  /\ block # NoBlock /\ rules = NoRules /\ outcome = "none"
  /\ rules' = RulesOf(block)
  /\ UNCHANGED <<block, reads, outcome>>

Read ==
  /\ rules # NoRules /\ outcome = "none"
  /\ \E q \in Query : reads' = reads \cup {<<q, Truth(block, q)>>}
  /\ UNCHANGED <<block, rules, outcome>>

Fail ==
  /\ block # NoBlock /\ outcome = "none"
  /\ outcome' = "failed"
  /\ UNCHANGED <<block, rules, reads>>

Commit ==
  /\ rules # NoRules /\ outcome = "none"
  /\ outcome' = "committed"
  /\ UNCHANGED <<block, rules, reads>>

Next == Fix \/ Begin \/ Read \/ Fail \/ Commit

Spec == Init /\ [][Next]_<<block, rules, reads, outcome>>
=============================================================================
