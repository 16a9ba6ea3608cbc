----------------------------- MODULE MCCredCli -----------------------------
(* Instances of CredCli for TLC. *)
EXTENDS CredCli, TLC

CONSTANTS n1, p1, p2

(* Names and processes are interchangeable; ports are not. *)
Symmetry == Permutations(Name) \cup Permutations(Process)
=============================================================================
