---------------------------- MODULE WriteOnceMap ----------------------------
(***************************************************************************)
(* What the verifier router promises its callers: a map from keys to       *)
(* values in which a key receives at most one value, may be retired, and   *)
(* is never given a value again after that.                                *)
(***************************************************************************)

CONSTANTS Keys, Values, Empty, Retired

VARIABLE map

Init == map = [k \in Keys |-> Empty]

\* A key that never held anything receives its one value.
Publish(k, v) ==
  /\ map[k] = Empty
  /\ map' = [map EXCEPT ![k] = v]

\* A key is retired for good, with or without having held a value.
Retire(k) ==
  map' = [map EXCEPT ![k] = Retired]

Next ==
  \E k \in Keys : \/ \E v \in Values : Publish(k, v)
                  \/ Retire(k)

Spec == Init /\ [][Next]_map
=============================================================================
