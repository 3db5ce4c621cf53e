---------------------------- MODULE MCAgentFunds ----------------------------
(* Small instances of AgentFunds. *)
EXTENDS AgentFunds, TLC

CONSTANTS o1, o2, d1, d2, w1, k1, k2

OneOrder    == {o1}
TwoOrders   == {o1, o2}
OneDeposit  == {d1}
TwoDeposits == {d1, d2}
OneRequest  == {w1}
OneCall     == {k1}
TwoCalls    == {k1, k2}
One         == {1}

Symmetry == Permutations(Calls) \cup Permutations(Deposits)
=============================================================================
