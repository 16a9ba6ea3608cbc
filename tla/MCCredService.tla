--------------------------- MODULE MCCredService ---------------------------
(* Instances of CredService for TLC. *)
EXTENDS CredService, TLC

CONSTANTS q1, q2, i1, i2, v1, p1, p2, k1, k2

(* RPCs, items, addresses and passphrases are interchangeable. *)
Symmetry ==
  Permutations(Proc) \cup Permutations(Id) \cup Permutations(Peer)
    \cup Permutations(Pass)
=============================================================================
