---------------------------- MODULE VaultAtomic ----------------------------
(* Vault, file by file, implements AtomicVault: what its operations do in
   several steps a caller sees as one. *)
EXTENDS Vault

(* The items the next Unlock finds are those whose metadata verifies. *)
Verified == [i \in Id |-> IF meta[i] \in Meta THEN meta[i] ELSE Nil]

Atomic == INSTANCE AtomicVault WITH
  Torn <- Garbled,
  owner <- IF identity = Short THEN Garbled ELSE identity,
  key <- identityKey, open <- loaded, disk <- Verified

(* Every operation of the vault takes effect at one step, in memory and on disk
   alike, or fails and touches no item but its own. *)
ActsAtomically == Atomic!VaultSpec
=============================================================================
