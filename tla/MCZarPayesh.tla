---------------------------- MODULE MCZarPayesh ----------------------------
(* Bounds for ZarPayeshTrade: model values, and which of them race.         *)
EXTENDS ZarPayeshTrade, TLC

CONSTANTS r1, r2, l1

TwoRequests == {r1, r2}
OneRequest  == {r1}
TestRequest == {r2}
OneLock     == {l1}
Nothing     == {}
Symmetry    == Permutations({r1, r2})
=============================================================================
