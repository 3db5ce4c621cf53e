-------------------------------- MODULE MCShop --------------------------------
(* Bounds for ShopPayment.                                                   *)
EXTENDS ShopPayment, TLC

CONSTANTS o1, o2, g1, g2, s1, s2

OneOrder    == {o1}
TwoOrders   == {o1, o2}
OneGateway  == {g1}
TwoGateways == {g1, g2}
OneSession  == {s1}
TwoSessions == {s1, s2}
AllModes    == {"WALLET", "GATEWAY", "MIXED"}
Symmetry    == Permutations(Orders) \cup Permutations(Gateways)
                 \cup Permutations(Sessions)
=============================================================================
