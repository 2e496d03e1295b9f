---------------------------- MODULE MCKillSwitch ----------------------------
(* A small instance of KillSwitch for TLC: one account beside GLOBAL, so   *)
(* that both switches of an order can block it.                            *)
EXTENDS KillSwitch, FiniteSetsExt, TLC

CONSTANT MaxCommands   \* bound of the commands committed in all scopes

FewCommands ==
  MapThenSumSet(LAMBDA s : Cardinality({k \in OpKeys : ops[s][k] # None}), Scopes) <= MaxCommands

Symmetry == Permutations(OpKeys) \cup Permutations(OrderKeys)
            \cup Permutations(Sources)
=============================================================================
