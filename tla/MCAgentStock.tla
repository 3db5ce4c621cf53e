---------------------------- MODULE MCAgentStock ----------------------------
(* Small instances of AgentStock. *)
EXTENDS AgentStock, TLC

CONSTANTS a1, b1, b2, s1, s2, x1, x2, t1, k1

OneAgent      == {a1}
TwoBars       == {b1, b2}
TwoSales      == {s1, s2}
TwoBuybacks   == {x1, x2}
OneSettlement == {t1}
OneCall       == {k1}

Symmetry == Permutations(Bars) \cup Permutations(Sales) \cup Permutations(Buybacks)
=============================================================================
