--------------------------- MODULE MCSteelSystem ---------------------------
(* Two contracts with the same code and, on one fork, the same storage.  On *)
(* the other forks one of them has other storage or code, or is gone.       *)
(* Block 2 is the block asked for, block 1 its parent on either fork.  The  *)
(* second release of the rules starts with block 2, the third at second 20, *)
(* the fourth, which this version of Steel does not support, at second 30.  *)
EXTENDS SteelSystem, TLC

CONSTANTS a, b, code1, code2, s1, s2, zero, one

MCSpec ==
  [chainId |-> 1, maxSpecId |-> 3,
   hardForks |-> (2 :> AtBlock(2)) @@ (3 :> AtTimestamp(20))
                 @@ (4 :> AtTimestamp(30)) @@ (5 :> TBD),
   gasConstants |-> (1 :> EIP1559_CONSTANTS_DEFAULT)]

\* The host names a specification in which the third release starts two seconds
\* later: it runs the last block of one fork under other rules than the guest.
MCHostSpec == [MCSpec EXCEPT !.hardForks[3] = AtTimestamp(22)]

MCHistory ==
  LET Contract(code, v1, v2) ==
        [code |-> code, storage |-> (s1 :> v1) @@ (s2 :> v2)]
      S0 == (a :> Contract(code1, one, zero)) @@ (b :> NoAccount)
      S1 == (a :> Contract(code1, one, one)) @@ (b :> Contract(code1, one, one))
      S2 == (a :> Contract(code1, zero, one)) @@ (b :> Contract(code2, one, one))
      S3 == (a :> NoAccount) @@ (b :> Contract(code1, one, one))
      At(id, time, rules, state) ==
        [id |-> id, timestamp |-> time, rules |-> rules, state |-> state]
      Chain(id, time, rules, state) ==
        <<At(id, 10, 1, S0), At(id, time, rules, state)>>
  IN  <<Chain(1, 20, 3, S1), Chain(2, 19, 2, S2), Chain(3, 21, 3, S3),
        Chain(4, 30, 4, S0)>>

\* Once the host is done, of the node it matters only whether it ever switched;
\* and a guest that runs under other rules than the host never looks at the
\* preflight, of which only the input is left.
MCView ==
  LET ended == hostPc \in {"done", "refused", "aborted"}
  IN  <<IF ended THEN <<reorgs = 0>> ELSE nodeVars,
        IF hostPc = "done" /\ ~SameRules THEN <<hostPc, envVars, input>> ELSE hostVars,
        guestVars>>

\* The tests of config.rs; Berlin is the release before London.
ASSUME MainnetForks ==
  LET id(number, timestamp) == SpecIdAt(ETH_MAINNET_CHAIN_SPEC, number, timestamp)
  IN  /\ id(15537393, 0) = Unsupported
      /\ id(15537394, 0) = MERGE
      /\ id(17034869, 0) = MERGE
      /\ id(0, 1681338455) = SHANGHAI

ASSUME MainnetGas ==
  /\ GasConstants(ETH_MAINNET_CHAIN_SPEC, LONDON - 1) = {}
  /\ \A id \in {MERGE, SHANGHAI} :
       GasConstants(ETH_MAINNET_CHAIN_SPEC, id) = {EIP1559_CONSTANTS_DEFAULT}
=============================================================================
