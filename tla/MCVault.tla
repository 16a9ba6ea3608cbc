------------------------------ MODULE MCVault ------------------------------
(* Instances of Vault for TLC. *)
EXTENDS VaultAtomic, TLC

CONSTANTS i1, i2, v1, v2, p1, p2, r1, r2, k1, k2

(* Items, peers, recipients, values and passphrases are interchangeable. *)
Symmetry ==
  Permutations(Id) \cup Permutations(Value) \cup Permutations(Peer)
    \cup Permutations(Recipient) \cup Permutations(Pass)

(* No step reads the last reply, and no step reads a backup: a run that checks
   nothing about them need not tell states apart by them. *)
ViewNoReply == <<files, memory, pc, job, history>>
ViewNoBackup == <<identity, version, recovery, recoverySum, meta, val, memory,
                  pc, job, history>>
=============================================================================
