---------------------------- MODULE MCServices ----------------------------
(* Instances of Services for TLC. *)
EXTENDS Services, TLC

CONSTANTS c1, c2, c3, w1, w2, w3, r1, r2

ThreeClients == {c1, c2, c3}
ThreeWindows == {w1, w2, w3}
TwoRequesters == {r1, r2}

Symmetry ==
    Permutations(ThreeClients) \cup Permutations(ThreeWindows) \cup Permutations(TwoRequesters)
=============================================================================
