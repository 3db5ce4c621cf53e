----------------------------- MODULE MCBullion -----------------------------
(* Small instances of Bullion. *)
EXTENDS Bullion, TLC

CONSTANTS b1, u1, u2, p1, p2, s1, s2

OneBar      == {b1}
TwoUsers    == {u1, u2}
TwoAdmins   == {p1, p2}
TwoSessions == {s1, s2}
OneOrTwo    == {1, 2}
Symmetry    == Permutations(Users) \cup Permutations(Admins)
                 \cup Permutations(Sessions)
=============================================================================
