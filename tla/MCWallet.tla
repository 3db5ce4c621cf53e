------------------------------ MODULE MCWallet ------------------------------
(* Bounds for WalletWithdrawal.                                              *)
EXTENDS WalletWithdrawal, TLC

CONSTANTS u1, u2, w1, w2, w3, p1, p2, s1, s2

OneUser   == {u1}
TwoUsers  == {u1, u2}
Two       == {w1, w2}
Three     == {w1, w2, w3}
TwoAdmins == {p1, p2}
OneAdmin  == {p1}
None      == {}
TwoSessions == {s1, s2}
Symmetry  == Permutations(Withdrawals) \cup Permutations(Admins)
               \cup Permutations(Sessions)
=============================================================================
