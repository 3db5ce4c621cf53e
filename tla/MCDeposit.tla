----------------------------- MODULE MCDeposit -----------------------------
(* Small instances of Deposit. *)
EXTENDS Deposit

CONSTANTS u1, s1, s2, k1

OneUser     == {u1}
TwoSessions == {s1, s2}
OneKey      == {k1}
One         == {1}
OneOrTwo    == {1, 2}
=============================================================================
