---------------------------- MODULE MCGoldHolds ----------------------------
(* Small instances of GoldHolds. *)
EXTENDS GoldHolds, TLC

CONSTANTS d1, o1, k1, k2

OneRequest  == {d1}
OneOrder    == {o1}
TwoCalls    == {k1, k2}
=============================================================================
