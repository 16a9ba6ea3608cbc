--------------------------- MODULE VaultRefines ---------------------------
(***************************************************************************)
(* The vault, which writes file by file, implements AtomicVault: under the *)
(* mapping of VaultAtomic each of its steps is a step of the abstract      *)
(* vault or changes nothing a caller can see.                              *)
(***************************************************************************)
EXTENDS VaultProofs, VaultAtomic

(* A re-encryption writes metadata that says what it said before: the value is
   the one that was read with it. *)
SameSum == Writing /\ job.op = "recover" => meta[job.id].sum = job.value

LEMMA WriteSum ==
  ASSUME TypeOK, PhaseOK, SameSum, Backup \/ WriteValue \/ WriteMeta
  PROVE  SameSum'
<1>1. CASE UNCHANGED <<meta, job>> /\ Writing
  BY <1>1 DEF SameSum
<1>2. CASE pc' \in {"idle", "reencrypt"}
  BY <1>2 DEF SameSum, Writing
<1>. QED BY <1>1, <1>2
         DEF Backup, WriteValue, WriteMeta, Stored, GiveUp, Return, Answer, Goto,
             Die, Writing

LEMMA ReencryptSum ==
  ASSUME TypeOK, PhaseOK, NEW i \in Id, Reencrypt(i)
  PROVE  SameSum'
<1>1. /\ job \in Jobs /\ job.op = "recover" /\ meta[i] \in Meta /\ UNCHANGED meta
  BY DEF Reencrypt, TypeOK, ControlTypeOK, PhaseOK, files
<1>. DEFINE left == [job EXCEPT !.todo = @ \ {i}]
<1>2. left \in Jobs
  BY <1>1 DEF Jobs
<1>. HIDE DEF left
<1>3. ASSUME NEW phase, "ok" \in ReadResults(meta[i], val[i]),
             Start([left EXCEPT !.id = i, !.value = val[i].val], phase)
      PROVE  SameSum'
  <2>1. job'.id = i /\ job'.value = val[i].val
    BY <1>2, <1>3 DEF Start, Begin, Jobs
  <2>2. val[i].val = meta[i].sum
    BY <1>1, <1>3, ReadOk
  <2>. QED BY <1>1, <2>1, <2>2 DEF SameSum
<1>4. CASE pc' \in {"idle", "reencrypt"}
  BY <1>4 DEF SameSum, Writing
<1>. QED BY <1>3, <1>4 DEF Reencrypt, Start, Begin, Die, Answer, left

(* No other step begins or goes on to write. *)
LEMMA OtherSum ==
  ASSUME Next,
         ~(\/ Backup \/ WriteValue \/ WriteMeta
           \/ \E i \in Id : Reencrypt(i)
           \/ \E i \in Id, v \in Value : SetItemValue(i, v))
  PROVE  pc' \notin {"backup", "value", "meta"}
<1>1. CASE Call
  <2>1. CASE \E p \in Pass : \/ UnlockFirst(p) \/ UnlockExisting(p)
                              \/ UnlockRejected(p) \/ VerifyPassphrase(p)
    BY <2>1 DEF UnlockFirst, UnlockExisting, UnlockRejected, VerifyPassphrase,
                Begin, Answer, Die
  <2>2. CASE UnlockAgain \/ Lock \/ Refused
    BY <2>2 DEF UnlockAgain, Lock, Refused, Answer
  <2>3. CASE \E i \in Id : CreateItem(i) \/ DeleteItem(i) \/ GetItem(i)
    BY <2>3 DEF CreateItem, DeleteItem, GetItem, Start, Begin, Answer, Die
  <2>5. CASE \E i \in Id, p \in Peer : GetItemForPeer(i, p)
    BY <2>5 DEF GetItemForPeer, Start, Begin, Answer, Die
  <2>4. CASE \E r \in Recipient : SetRecoveryRecipient(r)
    BY <2>4 DEF SetRecoveryRecipient, Start, Begin, Answer, Die
  <2>. QED BY <1>1, <2>1, <2>2, <2>3, <2>4, <2>5 DEF Call
<1>2. CASE Progress \/ Crash
  BY <1>2 DEF Progress, Crash, UpgradeRecovery, UpgradeVersion, LoadItems,
         WriteRecovery, WriteRecoverySum, UndoRecovery, RestoreRecovery,
         ListForRecovery, FinishRecovery, DeleteValue, ReadValue,
         Return, Start, Begin, Answer, Die, Goto
<1>. QED BY <1>1, <1>2 DEF Next

LEMMA SameSumStep ==
  ASSUME TypeOK, PhaseOK, SameSum, [Next]_vars
  PROVE  SameSum'
<1>1. CASE UNCHANGED vars
  BY <1>1 DEF vars, files, control, SameSum, Writing
<1>2. ASSUME NEW i \in Id, NEW v \in Value, SetItemValue(i, v) PROVE SameSum'
  <2>1. \A phase : Start([NoJob EXCEPT !.op = "set", !.id = i, !.value = v], phase)
                     => job'.op = "set"
    BY BegunOp DEF Start
  <2>2. \A op, res : Answer(op, res) \/ Die(op, res) => job'.op = "none"
    BY EndedOp
  <2>3. job'.op # "recover"
    BY <1>2, <2>1, <2>2 DEF SetItemValue
  <2>. QED BY <2>3 DEF SameSum
<1>3. CASE pc' \notin {"backup", "value", "meta"}
  BY <1>3 DEF SameSum, Writing
<1>. QED BY <1>1, <1>2, <1>3, OtherSum, WriteSum, ReencryptSum

-----------------------------------------------------------------------------
(* Steps that change no metadata, and what they may do to memory *)

(* The vault as AtomicVault sees it does not change, or is closed. *)
LEMMA StutterOrClose ==
  ASSUME UNCHANGED <<identity, meta, acked, bound, born>>,
         UNCHANGED memory \/ (Forget /\ ~Locked)
  PROVE  [Atomic!VaultNext]_Atomic!vault
<1>1. Verified' = Verified
  BY DEF Verified
<1>2. CASE UNCHANGED memory
  BY <1>1, <1>2 DEF memory, Atomic!vault, Atomic!disks, Atomic!mind, Atomic!told
<1>3. CASE Forget /\ ~Locked
  <2>1. Atomic!Close
    BY <1>1, <1>3 DEF Forget, Locked, Atomic!Close, Atomic!Forget, Atomic!disks,
                      Atomic!told
  <2>. QED BY <2>1 DEF Atomic!VaultNext
<1>. QED BY <1>2, <1>3

LEMMA QuietAtomic ==
  ASSUME PhaseOK, OpenOK, Quiet,
         ~\E p \in Pass : UnlockFirst(p) \/ UnlockExisting(p)
  PROVE  [Atomic!VaultNext]_Atomic!vault
<1>1. UNCHANGED <<identity, meta, acked, bound, born>>
  BY DEF Quiet, UnlockRejected, VerifyPassphrase, UnlockAgain, Lock, Refused,
         UpgradeRecovery, UpgradeVersion, SetItemValue, GetItem, Reencrypt,
         SetRecoveryRecipient, Backup, WriteValue, WriteRecovery,
         WriteRecoverySum, UndoRecovery, RestoreRecovery, ListForRecovery,
         FinishRecovery, DeleteValue, ReadValue, Crash, files, history
<1>2. UNCHANGED memory \/ (Forget /\ ~Locked)
  <2>1. CASE \/ \E p \in Pass : UnlockRejected(p) \/ VerifyPassphrase(p)
             \/ UnlockAgain \/ Lock \/ Refused \/ Crash
             \/ \E i \in Id : GetItem(i)
    BY <2>1 DEF UnlockRejected, VerifyPassphrase, UnlockAgain, Lock, Refused,
                Crash, GetItem, Start, Die, OpenOK
  <2>2. CASE \/ \E i \in Id, v \in Value : SetItemValue(i, v)
             \/ \E r \in Recipient : SetRecoveryRecipient(r)
    BY <2>2 DEF SetItemValue, SetRecoveryRecipient, Start, Die
  <2>3. CASE \/ UpgradeRecovery \/ UpgradeVersion \/ Backup \/ WriteValue
             \/ WriteRecovery \/ WriteRecoverySum \/ UndoRecovery
             \/ RestoreRecovery \/ ListForRecovery \/ FinishRecovery
             \/ DeleteValue \/ ReadValue \/ \E i \in Id : Reencrypt(i)
    <3>1. ~Locked
      BY <2>3 DEF OpenOK, Idle, UpgradeRecovery, UpgradeVersion, Backup,
                  WriteValue, WriteRecovery, WriteRecoverySum, UndoRecovery,
                  RestoreRecovery, ListForRecovery, FinishRecovery, DeleteValue,
                  ReadValue, Reencrypt
    <3>. QED BY <2>3, <3>1
             DEF UpgradeRecovery, UpgradeVersion, Backup, WriteValue, GiveUp,
                 WriteRecovery, WriteRecoverySum, UndoRecovery, RestoreRecovery,
                 ListForRecovery, FinishRecovery, DeleteValue, ReadValue,
                 Reencrypt, Return, Goto, Start, Die
  <2>. QED BY <2>1, <2>2, <2>3 DEF Quiet
<1>. QED BY <1>1, <1>2, StutterOrClose

LEMMA UnlockAtomic ==
  ASSUME TypeOK, PhaseOK, OpenOK, NEW p \in Pass,
         UnlockFirst(p) \/ UnlockExisting(p)
  PROVE  Atomic!VaultNext
<1>0. /\ loaded = FALSE /\ items = [i \in Id |-> Nil] /\ identityKey = Nil
      /\ UNCHANGED <<meta, acked, bound, born>> /\ Verified' = Verified
      /\ p # Short /\ Nil # Short /\ Garbled # Short
  BY Marks DEF UnlockFirst, UnlockExisting, Locked, PhaseOK, OpenOK, Verified,
               TypeOK, MemoryTypeOK, history, files
<1>1. CASE identity \in {Nil, p} /\ identity' = p /\ identityKey' = p
             /\ UNCHANGED <<loaded, items>>
  BY <1>0, <1>1 DEF Atomic!VaultNext, Atomic!TakeKey, Atomic!told
<1>2. CASE /\ Faults # {} /\ identity = Nil /\ identity' \in {Nil, p, Short, Garbled}
           /\ identityKey' \in {Nil, p} /\ UNCHANGED <<loaded, items>>
  BY <1>0, <1>2 DEF Atomic!VaultNext, Atomic!SealFails, Atomic!told, Atomic!MayFail
<1>3. CASE UnlockExisting(p)
  BY <1>1, <1>3 DEF UnlockExisting, Opens, files
<1>4. ASSUME UnlockFirst(p), NEW r \in Outcomes,
             identity' \in Left(Nil, p, {Short, Garbled}, r),
             \/ /\ r = "ok" /\ identityKey' = p
                /\ UNCHANGED <<loaded, items>>
             \/ /\ r = "err" /\ identityKey' = p /\ UNCHANGED <<loaded, items>>
             \/ r = "crash" /\ Die("unlock", "crash")
      PROVE  Atomic!VaultNext
  <2>1. identity = Nil
    BY <1>4 DEF UnlockFirst
  <2>2. CASE r = "ok"
    BY <1>1, <1>4, <2>1, <2>2 DEF Left
  <2>3. CASE r # "ok"
    <3>1. Faults # {} /\ identity' \in {Nil, p, Short, Garbled}
      BY <1>4, <2>3 DEF Outcomes, Left
    <3>2. identityKey' \in {Nil, p} /\ UNCHANGED <<loaded, items>>
      BY <1>0, <1>4, <2>3 DEF Die, Forget
    <3>. QED BY <1>2, <2>1, <3>1, <3>2
  <2>. QED BY <2>2, <2>3
<1>. QED BY <1>3, <1>4 DEF UnlockFirst

LEMMA LoadAtomic ==
  ASSUME PhaseOK, OpenOK, LoadItems
  PROVE  [Atomic!VaultNext]_Atomic!vault
<1>0. /\ pc = "load" /\ ~loaded /\ identityKey = identity /\ identity \in Pass
      /\ ~Locked /\ UNCHANGED <<identity, meta, acked, bound, born>>
  BY DEF LoadItems, PhaseOK, OpenOK, Unlocking, Idle, files, history
<1>1. CASE Forget
  BY <1>0, <1>1, StutterOrClose
<1>2. ASSUME NEW missed \in Missed, items' = Listed(missed), loaded' = TRUE,
             UNCHANGED identityKey
      PROVE  Atomic!VaultNext
  <2>1. missed \in SUBSET Id /\ (missed # {} => Faults # {})
    BY <1>2 DEF Missed, ReadFails
  <2>2. Listed(missed) = [i \in Id |-> IF i \in missed THEN Nil ELSE Verified[i]]
    BY DEF Listed, Verified
  <2>3. Atomic!Load(missed)
    BY <1>0, <1>2, <2>1, <2>2, Marks
       DEF Atomic!Load, Atomic!MayFail, Atomic!disks, Atomic!told, Verified, Locked
  <2>. QED BY <2>1, <2>3 DEF Atomic!VaultNext
<1>. QED BY <1>1, <1>2 DEF LoadItems, Die

-----------------------------------------------------------------------------
(* Steps that write the metadata of an item *)

(* What the directory holds of item i after its file was left as m. *)
Kept(m) == IF m \in Meta THEN m ELSE Nil

LEMMA DiskSet ==
  ASSUME TypeOK, NEW i \in Id, NEW m, meta' = [meta EXCEPT ![i] = m]
  PROVE  Verified' = [Verified EXCEPT ![i] = Kept(m)]
BY DEF Verified, Kept, TypeOK, FilesTypeOK

(* A write that fails leaves the old metadata, the new one or none. *)
LEMMA BotchedWrite ==
  ASSUME TypeOK, NEW i \in Id, NEW new \in Meta \cup {Nil}, NEW r \in Faults,
         NEW old, Kept(old) = Verified[i],
         NEW m \in Left(old, new, TornMeta, r), meta' = [meta EXCEPT ![i] = m],
         UNCHANGED identity, UNCHANGED memory \/ Forget
  PROVE  Atomic!Botch(i, new)
<1>1. Kept(m) \in {Verified[i], new, Nil}
  BY Marks DEF Left, TornMeta, Kept
<1>2. Verified' = [Verified EXCEPT ![i] = Kept(m)]
  BY DiskSet
<1>. QED BY <1>1, <1>2
         DEF Atomic!Botch, Atomic!MayFail, Atomic!Keep, Atomic!mind, memory,
             Forget, Atomic!Forget

LEMMA CommittedWrite ==
  ASSUME TypeOK, NEW i \in Id, NEW new \in Meta \cup {Nil},
         meta' = [meta EXCEPT ![i] = new], items' = [items EXCEPT ![i] = new],
         UNCHANGED <<identity, identityKey, loaded>>
  PROVE  Atomic!Commit(i, new)
<1>1. Kept(new) = new
  BY Marks DEF Kept
<1>. QED BY <1>1, DiskSet DEF Atomic!Commit

LEMMA CreateAtomic ==
  ASSUME Faults # {}, TypeOK, NEW i \in Id, CreateItem(i), meta[i] \notin Meta
  PROVE  Atomic!VaultNext
<1>0. /\ ~Locked /\ i \notin born /\ born' = born \cup {i}
      /\ UNCHANGED <<identity, acked, bound>>
      /\ Verified[i] = Nil /\ NewItem = Atomic!NewItem
  BY DEF CreateItem, Verified, NewItem, Atomic!NewItem
<1>1. CASE Atomic!Botch(i, NewItem)
  BY <1>0, <1>1 DEF Atomic!VaultNext, Atomic!CreateFails, Atomic!told, Locked
<1>2. CASE Forget /\ \E m \in {Nil, NewItem} : Verified' = [Verified EXCEPT ![i] = m]
  BY <1>0, <1>1, <1>2 DEF Atomic!Botch, Atomic!MayFail, Forget, Atomic!Forget
<1>3. CASE meta' = meta /\ Forget
  <2>1. Verified' = [Verified EXCEPT ![i] = Nil]
    BY <1>0, <1>3 DEF Verified
  <2>. QED BY <1>2, <1>3, <2>1
<1>4. ASSUME NEW r \in Faults, NEW m \in Left(Nil, NewItem, TornMeta, r),
             meta' = [meta EXCEPT ![i] = m], UNCHANGED memory \/ Forget
      PROVE  Atomic!VaultNext
  BY <1>0, <1>1, <1>4, BotchedWrite, NewItemType, Marks DEF Kept
<1>5. CASE meta' = [meta EXCEPT ![i] = NewItem] /\ Forget
  <2>1. Verified' = [Verified EXCEPT ![i] = NewItem]
    BY <1>5, DiskSet, NewItemType DEF Kept
  <2>. QED BY <1>2, <1>5, <2>1
<1>6. CASE /\ loaded /\ meta' = [meta EXCEPT ![i] = NewItem]
           /\ items' = [items EXCEPT ![i] = NewItem]
           /\ UNCHANGED <<identityKey, loaded>>
  <2>1. Atomic!Commit(i, NewItem)
    BY <1>0, <1>6, CommittedWrite, NewItemType
  <2>. QED BY <1>0, <1>6, <2>1 DEF Atomic!VaultNext, Atomic!Create, Atomic!told
<1>7. ASSUME NEW r \in Outcomes, NEW m \in Left(Nil, NewItem, TornMeta, r),
             meta' = [meta EXCEPT ![i] = m],
             \/ /\ r = "ok" /\ loaded /\ items' = MapWith(i, NewItem)
                /\ UNCHANGED <<identityKey, secret, loaded>>
             \/ r = "ok" /\ Forget
             \/ r # "ok" /\ (UNCHANGED memory \/ Forget)
      PROVE  Atomic!VaultNext
  <2>1. r = "ok" => m = NewItem
    BY <1>7 DEF Left
  <2>2. r # "ok" => r \in Faults
    BY DEF Outcomes
  <2>. QED BY <1>4, <1>5, <1>6, <1>7, <2>1, <2>2 DEF MapWith
<1>. QED BY <1>3, <1>7 DEF CreateItem, Die

LEMMA StoreAtomic ==
  ASSUME TypeOK, PhaseOK, OpenOK, WriteMeta, job.op = "set"
  PROVE  Atomic!VaultNext
<1>. DEFINE i == job.id  v == job.value
<1>0. /\ i \in Id /\ v \in Value /\ UNCHANGED <<identity, born, bound>>
      /\ Written \in Meta /\ items[i] \in Meta /\ Atomic!Has(i)
      /\ Written = Atomic!Filled(i, v)
  BY WrittenType, Marks DEF WriteMeta, PhaseOK, Writing, WorkItem, Written,
                            Atomic!Has, Atomic!Filled
<1>. HIDE DEF i, v
<1>1. CASE Atomic!Botch(i, Written) /\ UNCHANGED acked
  BY <1>0, <1>1 DEF Atomic!VaultNext, Atomic!StoreFails, Atomic!told
<1>2. CASE Atomic!Commit(i, Written) /\ acked' = [acked EXCEPT ![i] = v]
  BY <1>0, <1>2 DEF Atomic!VaultNext, Atomic!Store
<1>3. PICK r, m :
        /\ r \in Outcomes /\ m \in Left(meta[i], Written, TornMeta, r)
        /\ meta' = [meta EXCEPT ![i] = m]
        /\ \/ r = "ok" /\ Stored
           \/ r = "err" /\ GiveUp /\ UNCHANGED acked
           \/ r = "crash" /\ Die(job.op, "crash") /\ UNCHANGED acked
  BY DEF WriteMeta, i
<1>4. CASE r = "ok"
  <2>1. m = Written
    BY <1>3, <1>4 DEF Left
  <2>2. loaded
    BY <1>0, Marks DEF OpenOK
  <2>3. /\ items' = [items EXCEPT ![i] = Written]
        /\ UNCHANGED <<identityKey, loaded>> /\ acked' = [acked EXCEPT ![i] = v]
    BY <1>3, <1>4, <2>2 DEF Stored, MapWith, i, v
  <2>4. Atomic!Commit(i, Written)
    BY <1>0, <1>3, <2>1, <2>3, CommittedWrite
  <2>. QED BY <1>2, <2>3, <2>4
<1>5. CASE r # "ok"
  <2>1. r \in Faults /\ UNCHANGED acked /\ (UNCHANGED memory \/ Forget)
    BY <1>3, <1>5 DEF Outcomes, GiveUp, Return, Die
  <2>2. Kept(meta[i]) = Verified[i]
    BY <1>0 DEF Kept, Verified
  <2>3. Atomic!Botch(i, Written)
    BY <1>0, <1>3, <2>1, <2>2, BotchedWrite
  <2>. QED BY <1>1, <2>1, <2>3
<1>. QED BY <1>4, <1>5

LEMMA RefreshAtomic ==
  ASSUME TypeOK, PhaseOK, OpenOK, SameSum, WriteMeta, job.op = "recover"
  PROVE  Atomic!VaultNext
<1>. DEFINE i == job.id
<1>0. /\ i \in Id /\ UNCHANGED <<identity, born, acked, bound>> /\ ~Locked
      /\ Written = meta[i] /\ meta[i] \in Meta /\ Verified[i] = meta[i]
  <2>1. i \in Id /\ meta[i] \in Meta /\ meta[i].sum = job.value /\ ~Locked
    BY DEF WriteMeta, PhaseOK, Writing, WorkItem, SameSum, OpenOK, Idle
  <2>2. Written = meta[i]
    BY <2>1 DEF Written, WorkItem, Meta
  <2>. QED BY <2>1, <2>2 DEF WriteMeta, Stored, Verified
<1>. HIDE DEF i
<1>1. CASE Atomic!Botch(i, meta[i])
  BY <1>0, <1>1 DEF Atomic!VaultNext, Atomic!RefreshFails, Atomic!told, Locked
<1>2. PICK r, m :
        /\ r \in Outcomes /\ m \in Left(meta[i], Written, TornMeta, r)
        /\ meta' = [meta EXCEPT ![i] = m]
        /\ \/ r = "ok" /\ Stored
           \/ r = "err" /\ GiveUp
           \/ r = "crash" /\ Die(job.op, "crash")
  BY DEF WriteMeta, i
<1>3. CASE r = "ok"
  <2>1. meta' = meta /\ Verified' = Verified
    BY <1>0, <1>2, <1>3 DEF Left, TypeOK, FilesTypeOK, Verified
  <2>2. CASE Forget
    BY <1>0, <2>1, <2>2 DEF Atomic!VaultNext, Atomic!Close, Atomic!Forget, Forget,
                            Locked, Atomic!disks, Atomic!told
  <2>3. CASE /\ loaded /\ items' = [items EXCEPT ![i] = meta[i]]
             /\ UNCHANGED <<identityKey, loaded>>
    <3>1. items' = [k \in Id |-> IF k \in {i} /\ Verified[k] # Nil THEN Verified[k]
                                                                   ELSE items[k]]
      BY <1>0, <2>3, Marks DEF TypeOK, MemoryTypeOK
    <3>2. Atomic!Refresh({i})
      BY <1>0, <2>1, <2>3, <3>1 DEF Atomic!Refresh, Atomic!disks, Atomic!told
    <3>. QED BY <1>0, <3>2 DEF Atomic!VaultNext
  <2>. QED BY <1>0, <1>2, <1>3, <2>2, <2>3 DEF Stored, MapWith, Die, i
<1>4. CASE r # "ok"
  <2>1. r \in Faults /\ (UNCHANGED memory \/ Forget)
    BY <1>2, <1>4 DEF Outcomes, GiveUp, Goto, Return, Die
  <2>2. Kept(meta[i]) = Verified[i]
    BY <1>0 DEF Kept
  <2>. QED BY <1>0, <1>1, <1>2, <2>1, <2>2, BotchedWrite
<1>. QED BY <1>3, <1>4

LEMMA DeleteAtomic ==
  ASSUME TypeOK, NEW i \in Id, DeleteItem(i)
  PROVE  [Atomic!VaultNext]_Atomic!vault
<1>0. ~Locked /\ UNCHANGED <<identity, born>>
  BY DEF DeleteItem
<1>1. CASE ~Present(i)
  BY <1>0, <1>1, StutterOrClose DEF DeleteItem
<1>2. CASE Present(i)
  <2>1. Atomic!Has(i) /\ Atomic!Untold(i)
    BY <1>2 DEF DeleteItem, Present, Atomic!Has, Atomic!Untold
  <2>2. PICK r, m :
          /\ r \in Outcomes /\ m \in Left(meta[i], Nil, {}, r)
          /\ meta' = [meta EXCEPT ![i] = m]
          /\ \/ /\ r \in {"ok", "err"} /\ items' = [items EXCEPT ![i] = Nil]
                /\ UNCHANGED <<identityKey, secret, loaded>>
             \/ r = "crash" /\ Forget
    BY <1>2 DEF DeleteItem, MetaRemoved, Die
  <2>3. Verified' = [Verified EXCEPT ![i] = Kept(m)] /\ Kept(m) \in {Verified[i], Nil}
    BY <2>2, DiskSet, Marks DEF Left, Kept, Verified
  <2>4. CASE items' = [items EXCEPT ![i] = Nil] /\ UNCHANGED <<identityKey, loaded>>
    <3>1. CASE r = "ok"
      <4>1. m = Nil
        BY <2>2, <3>1 DEF Left
      <4>. QED BY <1>0, <2>1, <2>2, <2>4, <4>1, CommittedWrite
               DEF Atomic!VaultNext, Atomic!Delete
    <3>2. CASE r # "ok"
      <4>1. Verified' = Verified \/ Verified' = [Verified EXCEPT ![i] = Nil]
        BY <2>3 DEF Verified
      <4>2. Faults # {}
        BY <2>2, <3>2 DEF Outcomes
      <4>. QED BY <1>0, <2>1, <2>4, <4>1, <4>2
               DEF Atomic!VaultNext, Atomic!Delete, Atomic!Commit, Atomic!MayFail,
                   Atomic!disks
    <3>. QED BY <3>1, <3>2
  <2>5. CASE r = "crash" /\ Forget
    <3>1. Faults # {}
      BY <2>2, <2>5 DEF Outcomes
    <3>2. Atomic!DeleteFails(i)
      BY <1>0, <2>1, <2>3, <2>5, <3>1
         DEF Atomic!DeleteFails, Atomic!MayFail, Forget, Atomic!Forget
    <3>. QED BY <3>2 DEF Atomic!VaultNext
  <2>. QED BY <2>2, <2>4, <2>5
<1>. QED BY <1>1, <1>2

LEMMA BindAtomic ==
  ASSUME TypeOK, NEW i \in Id, NEW p \in Peer, GetItemForPeer(i, p)
  PROVE  [Atomic!VaultNext]_Atomic!vault
<1>. DEFINE new == [items[i] EXCEPT !.peer = p]
<1>0. UNCHANGED <<identity, born, acked>>
  BY DEF GetItemForPeer
<1>1. CASE UNCHANGED <<memory, meta, bound>>
  BY <1>0, <1>1, StutterOrClose
<1>2. ASSUME Present(i), items[i].peer = Nil, NEW r \in Outcomes,
             NEW m \in Left(meta[i], new, TornMeta, r),
             meta' = [meta EXCEPT ![i] = m],
             \/ /\ r = "ok" /\ items' = MapWith(i, new)
                /\ bound' = [bound EXCEPT ![i] = p]
                /\ UNCHANGED <<identityKey, secret, loaded>>
             \/ /\ r # "ok" /\ UNCHANGED bound /\ (UNCHANGED memory \/ Forget)
      PROVE  Atomic!VaultNext
  <2>1. /\ Atomic!Has(i) /\ items[i].peer = Nil /\ new \in Meta
        /\ new = Atomic!Claimed(i, p)
    BY <1>2, BoundType DEF Present, Atomic!Has, Atomic!Claimed
  <2>. HIDE DEF new
  <2>2. CASE r = "ok"
    <3>1. m = new
      BY <1>2, <2>2 DEF Left
    <3>2. Atomic!Commit(i, new)
      BY <1>0, <1>2, <2>1, <2>2, <3>1, CommittedWrite DEF MapWith
    <3>. QED BY <1>0, <1>2, <2>1, <2>2, <3>2 DEF Atomic!VaultNext, Atomic!Bind
  <2>3. CASE r # "ok"
    <3>1. r \in Faults /\ Kept(meta[i]) = Verified[i]
      BY <2>3 DEF Outcomes, Kept, Verified
    <3>2. Atomic!Botch(i, new)
      BY <1>0, <1>2, <2>1, <2>3, <3>1, BotchedWrite
    <3>. QED BY <1>0, <1>2, <2>1, <2>3, <3>2
             DEF Atomic!VaultNext, Atomic!BindFails, Atomic!told
  <2>. QED BY <2>2, <2>3
<1>. QED BY <1>1, <1>2 DEF GetItemForPeer, Start, Die

-----------------------------------------------------------------------------
LEMMA AtomicStep ==
  ASSUME Faults # {}, TypeOK, PhaseOK, OpenOK, ValueOK, SameSum, [Next]_vars
  PROVE  [Atomic!VaultNext]_Atomic!vault
<1>1. CASE UNCHANGED vars
  BY <1>1, StutterOrClose DEF vars, files, memory, history
<1>2. CASE \E i \in Id : CreateItem(i) \/ DeleteItem(i)
  BY <1>2, CreateAtomic, DeleteAtomic DEF ValueOK, CreateItem
<1>3. CASE WriteMeta
  BY <1>3, StoreAtomic, RefreshAtomic DEF WriteMeta, PhaseOK, Writing
<1>4. CASE \E p \in Pass : UnlockFirst(p) \/ UnlockExisting(p)
  BY <1>4, UnlockAtomic
<1>. QED BY <1>1, <1>2, <1>3, <1>4, NextCases, QuietAtomic, LoadAtomic, BindAtomic

(* The initial states of the vault are initial states of the abstract one. *)
LEMMA AtomicInit == Init => Atomic!VaultInit
BY Marks DEF Init, Atomic!VaultInit, Verified

(* What the vault does file by file a caller sees as one step, in memory and on
   disk alike, or as a failure that touches no item but its own.  File
   operations may fail in some way: without any fault AtomicVault lets no call
   fail, while the vault still panics when it is used after an Unlock whose
   upgrade was refused. *)
THEOREM VaultIsAtomic ==
  ASSUME Faults # {}
  PROVE  Spec => ActsAtomically
<1>1. Init => OpenOK /\ ValueOK /\ SameSum
  BY InitOpen, Marks DEF Init, ValueOK, Present, SameSum, Writing
<1>2. TypeOK /\ PhaseOK /\ OpenOK /\ ValueOK /\ SameSum /\ [Next]_vars
        => (OpenOK /\ ValueOK /\ SameSum)'
  BY OpenStep, ValueStep, SameSumStep
<1>3. TypeOK /\ PhaseOK /\ OpenOK /\ ValueOK /\ SameSum /\ [Next]_vars
        => [Atomic!VaultNext]_Atomic!vault
  BY AtomicStep
<1>. QED BY <1>1, <1>2, <1>3, AtomicInit, TypeCorrect, PTL
         DEF Spec, ActsAtomically, Atomic!VaultSpec
=============================================================================
