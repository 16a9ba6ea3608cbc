---------------------------- MODULE AtomicVault ----------------------------
(***************************************************************************)
(* What the vault promises its callers.  Each of its operations holds      *)
(* v.lock to the end, so to a caller it takes effect at once, in memory    *)
(* and on disk, or fails: then memory is as it was, or lost with the       *)
(* process, and only the item the operation was about may differ on disk.  *)
(* Vault implements this (VaultAtomic); CredService calls it.              *)
(***************************************************************************)
CONSTANTS
  Id, Value, Peer, Pass, \* as in Vault
  Faults,                \* file operations may fail unless this is empty
  Nil,
  Torn                   \* an identity file no passphrase opens

Meta == [sum : Value \cup {Nil}, peer : Peer \cup {Nil}]

VARIABLES
  owner,  \* the passphrase that opens the vault
  key,    \* identityKey
  open,   \* the items map is not nil
  items,  \* the map
  disk,   \* the items the next Unlock would find
  born,   \* the ids CreateItem has drawn
  acked,  \* the value last stored in an item, and
  bound   \* the peer it was bound to, by a call that succeeded

disks == <<owner, disk>>
mind  == <<key, open, items>>
told  == <<acked, bound>>
vault == <<disks, mind, born, told>>

NewItem == [sum |-> Nil, peer |-> Nil]
Has(i) == items[i] # Nil
MayFail == Faults # {}

Keep == UNCHANGED mind
Forget == key' = Nil /\ open' = FALSE /\ items' = [i \in Id |-> Nil]

(* Mutation: the metadata file is not written. *)
CommitInMemory(i, m) ==
  /\ items' = [items EXCEPT ![i] = m]
  /\ UNCHANGED <<disks, key, open>>

(* A write of item i as m reaches memory and disk, or only perhaps the disk. *)
Commit(i, m) ==
  /\ items' = [items EXCEPT ![i] = m]
  /\ disk' = [disk EXCEPT ![i] = m]
  /\ UNCHANGED <<owner, key, open>>
Botch(i, m) ==
  /\ MayFail
  /\ \E left \in {disk[i], m, Nil} : disk' = [disk EXCEPT ![i] = left]
  /\ Keep \/ Forget
  /\ UNCHANGED owner

-----------------------------------------------------------------------------
(* Unlock: the key, then the map.  An Unlock that fails between the two leaves
   the key. *)

TakeKey(p) ==
  /\ key = Nil /\ owner \in {Nil, p}
  /\ owner' = p /\ key' = p
  /\ UNCHANGED <<open, items, disk, born, told>>

SealFails(p) ==
  /\ MayFail /\ key = Nil /\ owner = Nil
  /\ owner' \in {Nil, p, Torn} /\ key' \in {Nil, p}
  /\ UNCHANGED <<open, items, disk, born, told>>

Load(missed) ==
  /\ key # Nil /\ key = owner /\ ~open
  /\ missed # {} => MayFail
  /\ open' = TRUE
  /\ items' = [i \in Id |-> IF i \in missed THEN Nil ELSE disk[i]]
  /\ UNCHANGED <<disks, key, born, told>>

(* Lock, or the death of the process. *)
Close == key # Nil /\ Forget /\ UNCHANGED <<disks, born, told>>

-----------------------------------------------------------------------------
(* The operations on items *)

Create(i) ==
  /\ open /\ i \notin born
  /\ born' = born \cup {i}
  /\ Commit(i, NewItem)
  /\ UNCHANGED told
CreateFails(i) ==
  /\ key # Nil /\ i \notin born
  /\ born' = born \cup {i}
  /\ Botch(i, NewItem)
  /\ UNCHANGED told

Filled(i, v) == [items[i] EXCEPT !.sum = v]
Store(i, v) ==
  /\ Has(i)
  /\ Commit(i, Filled(i, v))
  /\ acked' = [acked EXCEPT ![i] = v]
  /\ UNCHANGED <<born, bound>>
StoreFails(i, v) ==
  Has(i) /\ Botch(i, Filled(i, v)) /\ UNCHANGED <<born, told>>

(* Mutation: the peer is written into the wrong field. *)
ClaimedAsSum(i, p) == [items[i] EXCEPT !.sum = p]
Claimed(i, p) == [items[i] EXCEPT !.peer = p]

(* Mutation: a peer is recorded over another. *)
Rebind(i, p) ==
  /\ Has(i)
  /\ Commit(i, Claimed(i, p))
  /\ bound' = [bound EXCEPT ![i] = p]
  /\ UNCHANGED <<born, acked>>
Bind(i, p) ==
  /\ Has(i) /\ items[i].peer = Nil
  /\ Commit(i, Claimed(i, p))
  /\ bound' = [bound EXCEPT ![i] = p]
  /\ UNCHANGED <<born, acked>>
BindFails(i, p) ==
  /\ Has(i) /\ items[i].peer = Nil
  /\ Botch(i, Claimed(i, p))
  /\ UNCHANGED <<born, told>>

Untold(i) ==
  /\ acked' = [acked EXCEPT ![i] = Nil]
  /\ bound' = [bound EXCEPT ![i] = Nil]

(* Mutation: the files stay. *)
DeleteFromMap(i) ==
  /\ Has(i)
  /\ items' = [items EXCEPT ![i] = Nil]
  /\ Untold(i) /\ UNCHANGED <<disks, key, open, born>>
(* A file that could not be removed is no error of DeleteItem. *)
Delete(i) ==
  /\ Has(i)
  /\ Commit(i, Nil) \/ (/\ MayFail
                        /\ items' = [items EXCEPT ![i] = Nil]
                        /\ UNCHANGED <<disks, key, open>>)
  /\ Untold(i) /\ UNCHANGED born
DeleteFails(i) ==
  /\ Has(i) /\ MayFail /\ Forget
  /\ \E left \in {disk[i], Nil} : disk' = [disk EXCEPT ![i] = left]
  /\ Untold(i) /\ UNCHANGED <<owner, born>>

(* Mutation: the map is made anew from the items written. *)
Rebuild(S) ==
  /\ open
  /\ items' = [i \in Id |-> IF i \in S THEN disk[i] ELSE Nil]
  /\ UNCHANGED <<disks, key, open, born, told>>
(* SetRecoveryRecipient writes the values of the items it found on disk anew,
   and puts those in the map. *)
Refresh(S) ==
  /\ open
  /\ items' = [i \in Id |-> IF i \in S /\ disk[i] # Nil THEN disk[i] ELSE items[i]]
  /\ UNCHANGED <<disks, key, open, born, told>>
RefreshFails(i) == key # Nil /\ Botch(i, disk[i]) /\ UNCHANGED <<born, told>>

-----------------------------------------------------------------------------
VaultInit ==
  /\ owner \in Pass \cup {Nil} /\ disk = [i \in Id |-> Nil]
  /\ key = Nil /\ open = FALSE /\ items = [i \in Id |-> Nil]
  /\ born = {}
  /\ acked = [i \in Id |-> Nil] /\ bound = [i \in Id |-> Nil]

VaultNext ==
  \/ \E p \in Pass : TakeKey(p) \/ SealFails(p)
  \/ \E S \in SUBSET Id : Load(S) \/ Refresh(S)
  \/ Close
  \/ \E i \in Id :
       \/ Create(i) \/ CreateFails(i)
       \/ Delete(i) \/ DeleteFails(i) \/ RefreshFails(i)
       \/ \E v \in Value : Store(i, v) \/ StoreFails(i, v)
       \/ \E p \in Peer : Bind(i, p) \/ BindFails(i, p)

VaultSpec == VaultInit /\ [][VaultNext]_vault
=============================================================================
