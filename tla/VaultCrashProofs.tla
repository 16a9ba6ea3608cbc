-------------------------- MODULE VaultCrashProofs --------------------------
(* What the vault keeps as long as its file operations do not fail, however
   often the process dies between two of them or in the middle of one.  With
   failing removals and reads the three properties do not hold: DeleteItem only
   logs that a file is still there, and a read that fails leaves its item out. *)
EXTENDS VaultProofs

NoErrors == "err" \notin Faults

(* A file operation is done, or the process is dead. *)
LEMMA Ok ==
  ASSUME NoErrors
  PROVE  /\ Outcomes \subseteq {"ok", "crash"} /\ ~ReadFails /\ Missed = {{}}
         /\ \A r \in Outcomes : r # "err"
BY FaultsAssumption DEF NoErrors, Outcomes, ReadFails, Missed

-----------------------------------------------------------------------------
(* Memory mirrors the disk *)

(* It does in the middle of an operation, too: map and metadata are written at
   one step, or the map is lost. *)
MirrorOK ==
  loaded => \A i \in Id : items[i] = IF meta[i] \in Meta THEN meta[i] ELSE Nil

LEMMA MirrorSame ==
  ASSUME MirrorOK, UNCHANGED meta, UNCHANGED <<items, loaded>> \/ ~loaded'
  PROVE  MirrorOK'
BY DEF MirrorOK

(* A metadata file and the map get the same, or the map is gone. *)
LEMMA MirrorWrite ==
  ASSUME TypeOK, MirrorOK, NEW i \in Id, NEW m \in Meta \cup {Nil},
         \/ ~loaded'
         \/ /\ meta' = [meta EXCEPT ![i] = m]
            /\ items' = [items EXCEPT ![i] = m] /\ UNCHANGED loaded
  PROVE  MirrorOK'
<1>. SUFFICES ASSUME loaded', NEW k \in Id
              PROVE  items'[k] = IF meta'[k] \in Meta THEN meta'[k] ELSE Nil
  BY DEF MirrorOK
<1>1. k = i \/ (meta'[k] = meta[k] /\ items'[k] = items[k])
  BY DEF TypeOK, FilesTypeOK, MemoryTypeOK
<1>2. meta'[i] = m /\ items'[i] = m
  BY DEF TypeOK, FilesTypeOK, MemoryTypeOK
<1>. QED BY <1>1, <1>2, Marks DEF MirrorOK

LEMMA LoadMirror ==
  ASSUME NoErrors, LoadItems
  PROVE  MirrorOK'
<1>1. CASE Forget \/ Die(job.op, "panic")
  BY <1>1 DEF Die, Forget, MirrorOK
<1>2. CASE items' = Listed({}) /\ UNCHANGED meta
  BY <1>2 DEF Listed, MirrorOK
<1>. QED BY <1>1, <1>2, Ok DEF LoadItems, files

LEMMA CreateMirror ==
  ASSUME NoErrors, TypeOK, MirrorOK, NEW i \in Id, CreateItem(i)
  PROVE  MirrorOK'
<1>1. CASE Die("create", "panic") \/ Die("create", "crash")
  BY <1>1 DEF Die, Forget, MirrorOK
<1>2. CASE /\ meta' = [meta EXCEPT ![i] = NewItem]
           /\ items' = [items EXCEPT ![i] = NewItem] /\ UNCHANGED loaded
  BY <1>2, MirrorWrite, NewItemType
<1>. QED BY <1>1, <1>2, Ok DEF CreateItem, Left, MapWith

LEMMA WriteMetaMirror ==
  ASSUME NoErrors, TypeOK, PhaseOK, MirrorOK, WriteMeta
  PROVE  MirrorOK'
<1>0. job.id \in Id /\ Written \in Meta
  BY WrittenType DEF PhaseOK, Writing, WriteMeta
<1>1. CASE Die(job.op, "crash") \/ Die(job.op, "panic")
  BY <1>1 DEF Die, Forget, MirrorOK
<1>2. CASE /\ meta' = [meta EXCEPT ![job.id] = Written]
           /\ items' = [items EXCEPT ![job.id] = Written] /\ UNCHANGED loaded
  BY <1>0, <1>2, MirrorWrite
<1>. QED BY <1>1, <1>2, Ok DEF WriteMeta, Stored, Left, MapWith

LEMMA DeleteMirror ==
  ASSUME NoErrors, TypeOK, MirrorOK, NEW i \in Id, DeleteItem(i)
  PROVE  MirrorOK'
<1>1. CASE UNCHANGED <<memory, meta>>
  BY <1>1, MirrorSame DEF memory
<1>2. CASE Die("delete", "crash")
  BY <1>2 DEF Die, Forget, MirrorOK
<1>3. CASE /\ meta' = [meta EXCEPT ![i] = Nil]
           /\ items' = [items EXCEPT ![i] = Nil] /\ UNCHANGED loaded
  BY <1>3, MirrorWrite
<1>. QED BY <1>1, <1>2, <1>3, Ok DEF DeleteItem, MetaRemoved, Left

LEMMA GetForPeerMirror ==
  ASSUME NoErrors, TypeOK, MirrorOK, NEW i \in Id, NEW p \in Peer, GetItemForPeer(i, p)
  PROVE  MirrorOK'
<1>. DEFINE new == [items[i] EXCEPT !.peer = p]
<1>1. CASE UNCHANGED <<memory, meta>>
  BY <1>1, MirrorSame DEF memory
<1>2. CASE Die("getForPeer", "crash")
  BY <1>2 DEF Die, Forget, MirrorOK
<1>3. CASE /\ Present(i) /\ meta' = [meta EXCEPT ![i] = new]
           /\ items' = [items EXCEPT ![i] = new] /\ UNCHANGED loaded
  <2>1. new \in Meta
    BY <1>3, BoundType
  <2>. QED BY <1>3, <2>1, MirrorWrite
<1>. QED BY <1>1, <1>2, <1>3, Ok DEF GetItemForPeer, Start, Left, MapWith

LEMMA MirrorStep ==
  ASSUME NoErrors, TypeOK, PhaseOK, MirrorOK, [Next]_vars
  PROVE  MirrorOK'
<1>1. CASE Quiet
  BY <1>1, QuietStep, MirrorSame DEF Forget
<1>2. CASE UNCHANGED vars
  BY <1>2 DEF vars, files, memory, MirrorOK
<1>. QED BY <1>1, <1>2, NextCases, LoadMirror, CreateMirror, WriteMetaMirror,
            DeleteMirror, GetForPeerMirror

(* Between operations the map is what a restart would load, wherever the
   process died before: the operations write metadata and map together. *)
THEOREM MemoryIsMirrored ==
  ASSUME NoErrors
  PROVE  Spec => []MemoryMirrorsDisk
<1>1. Init => MirrorOK
  BY DEF Init, MirrorOK
<1>2. TypeOK /\ PhaseOK /\ MirrorOK /\ [Next]_vars => MirrorOK'
  BY MirrorStep
<1>3. MirrorOK => MemoryMirrorsDisk
  BY DEF MirrorOK, MemoryMirrorsDisk
<1>. QED BY <1>1, <1>2, <1>3, TypeCorrect, PTL DEF Spec

-----------------------------------------------------------------------------
(* Deleted items stay deleted *)

(* What was reported as deleted, or is about to be, was drawn once, and neither
   map nor directory has it. *)
Deleted(i) == i \in born /\ ~Present(i) /\ meta[i] \notin Meta
GoneOK ==
  /\ \A i \in gone : Deleted(i)
  /\ pc = "delval" => Deleted(job.id)

(* Steps that bring back nothing that is not in map or directory. *)
LEMMA GoneFrame ==
  ASSUME TypeOK, GoneOK, UNCHANGED gone, born \subseteq born', pc' # "delval",
         \A i \in Id : Present(i)' \/ meta'[i] \in Meta =>
           i \notin born \/ Present(i) \/ meta[i] \in Meta
  PROVE  GoneOK'
BY DEF GoneOK, Deleted, TypeOK, HistoryTypeOK

LEMMA QuietGone ==
  ASSUME TypeOK, PhaseOK, GoneOK, Quiet
  PROVE  GoneOK'
<1>1. CASE DeleteValue
  <2>1. /\ UNCHANGED <<meta, born>> /\ pc' = "idle"
        /\ items' = items \/ Forget
        /\ gone' \subseteq gone \cup {job.id}
    BY <1>1 DEF DeleteValue, Return, Answer, Die, memory
  <2>2. \A i \in Id : Deleted(i) => Deleted(i)'
    BY <2>1 DEF Deleted, Present, Forget
  <2>3. job.id \in Id /\ Deleted(job.id)
    BY <1>1 DEF DeleteValue, PhaseOK, GoneOK
  <2>. QED BY <2>1, <2>2, <2>3 DEF GoneOK, TypeOK, HistoryTypeOK
<1>2. CASE ~DeleteValue
  <2>1. UNCHANGED <<gone, meta, born>>
    BY <1>2 DEF Quiet, UnlockFirst, UnlockExisting, UnlockRejected,
         VerifyPassphrase, UnlockAgain, Lock, Refused, UpgradeRecovery,
         UpgradeVersion, SetItemValue, GetItem, Reencrypt, SetRecoveryRecipient,
         Backup, WriteValue, WriteRecovery, WriteRecoverySum, UndoRecovery,
         RestoreRecovery, ListForRecovery, FinishRecovery, ReadValue, Crash,
         files, history
  <2>2. pc' # "delval"
    BY <1>2 DEF Quiet, UnlockFirst, UnlockExisting, UnlockRejected,
         VerifyPassphrase, UnlockAgain, Lock, Refused, UpgradeRecovery,
         UpgradeVersion, SetItemValue, GetItem, Reencrypt, SetRecoveryRecipient,
         Backup, WriteValue, WriteRecovery, WriteRecoverySum, UndoRecovery,
         RestoreRecovery, ListForRecovery, FinishRecovery, ReadValue, Crash,
         Return, Answer, Goto, Start, Begin, Die, GiveUp
  <2>3. items' = items \/ Forget
    BY QuietStep
  <2>. QED BY <2>1, <2>2, <2>3, GoneFrame DEF Present, Forget
<1>. QED BY <1>1, <1>2

LEMMA LoadGone ==
  ASSUME NoErrors, TypeOK, GoneOK, LoadItems
  PROVE  GoneOK'
<1>1. UNCHANGED <<gone, meta, born>> /\ pc' = "idle"
  BY DEF LoadItems, files, history, Answer, Die
<1>2. \A i \in Id : items'[i] = Nil \/ meta[i] \in Meta
  BY DEF LoadItems, Listed, Die, Forget
<1>. QED BY <1>1, <1>2, GoneFrame DEF Present

(* Whoever writes metadata has found it, or drawn a new id for it. *)
LEMMA WriteGone ==
  ASSUME TypeOK, PhaseOK, GoneOK,
         \/ WriteMeta \/ \E i \in Id : CreateItem(i)
         \/ \E i \in Id, p \in Peer : GetItemForPeer(i, p)
  PROVE  GoneOK'
<1>1. UNCHANGED gone /\ born \subseteq born' /\ pc' # "delval"
  BY DEF WriteMeta, Stored, CreateItem, GetItemForPeer, GiveUp, Return, Answer,
         Goto, Start, Begin, Die
<1>2. ASSUME NEW i \in Id, WriteMeta, i # job.id \/ WorkItem \notin Meta
      PROVE  meta'[i] = meta[i] /\ items'[i] \in {items[i], Nil}
  BY <1>2 DEF WriteMeta, Stored, MapWith, GiveUp, Return, Goto, Die, Forget,
              memory, TypeOK, FilesTypeOK, MemoryTypeOK, PhaseOK, Writing
<1>3. CASE WriteMeta
  <2>1. WorkItem \in Meta => Present(job.id) \/ meta[job.id] \in Meta
    BY Marks DEF WorkItem, Present
  <2>. QED BY <1>1, <1>2, <1>3, <2>1, GoneFrame DEF Present
<1>4. ASSUME NEW i \in Id, CreateItem(i) PROVE GoneOK'
  <2>1. i \notin born
    BY <1>4 DEF CreateItem
  <2>2. \A k \in Id \ {i} : meta'[k] = meta[k] /\ items'[k] \in {items[k], Nil}
    BY <1>4 DEF CreateItem, MapWith, Die, Forget, memory, TypeOK, FilesTypeOK,
                MemoryTypeOK
  <2>. QED BY <1>1, <2>1, <2>2, GoneFrame DEF Present
<1>5. ASSUME NEW i \in Id, NEW p \in Peer, GetItemForPeer(i, p) PROVE GoneOK'
  <2>1. CASE Present(i)
    <3>1. \A k \in Id \ {i} : meta'[k] = meta[k] /\ items'[k] \in {items[k], Nil}
      BY <1>5 DEF GetItemForPeer, MapWith, Start, Die, Forget, memory, TypeOK,
                  FilesTypeOK, MemoryTypeOK
    <3>. QED BY <1>1, <2>1, <3>1, GoneFrame DEF Present
  <2>2. CASE ~Present(i)
    <3>1. UNCHANGED <<meta, items>>
      BY <1>5, <2>2 DEF GetItemForPeer, memory
    <3>. QED BY <1>1, <3>1, GoneFrame DEF Present
  <2>. QED BY <2>1, <2>2
<1>. QED BY <1>3, <1>4, <1>5

(* An item that an open vault does not have is not in its directory either. *)
LEMMA DeleteGone ==
  ASSUME NoErrors, TypeOK, MirrorOK, GoneOK, NEW i \in Id, DeleteItem(i)
  PROVE  GoneOK'
<1>0. i \in born /\ UNCHANGED born
  BY DEF DeleteItem
<1>1. CASE ~Present(i)
  <2>1. UNCHANGED <<items, meta>> /\ pc' = "idle"
    BY <1>1 DEF DeleteItem, memory, Answer
  <2>2. loaded => meta[i] \notin Meta
    BY <1>1, Marks DEF MirrorOK, Present
  <2>3. gone' = IF loaded THEN gone \cup {i} ELSE gone
    BY <1>1 DEF DeleteItem
  <2>. QED BY <1>0, <1>1, <2>1, <2>2, <2>3 DEF GoneOK, Deleted, Present
<1>2. CASE Present(i) /\ Die("delete", "crash")
  <2>1. UNCHANGED gone /\ pc' = "idle" /\ \A k \in Id : ~Present(k)'
    BY <1>2 DEF DeleteItem, Die, Answer, Forget, Present
  <2>2. \A k \in Id : meta'[k] \in {meta[k], Nil}
    BY <1>2 DEF DeleteItem, MetaRemoved, Left, TypeOK, FilesTypeOK
  <2>. QED BY <1>0, <2>1, <2>2, Marks, GoneFrame
<1>3. CASE /\ Present(i) /\ meta' = [meta EXCEPT ![i] = Nil]
           /\ items' = [items EXCEPT ![i] = Nil]
           /\ Begin([NoJob EXCEPT !.op = "delete", !.id = i], "delval")
  <2>1. UNCHANGED gone /\ job'.id = i
    BY <1>3 DEF DeleteItem, Begin, NoJob
  <2>2. \A k \in Id : \/ k = i /\ meta'[k] = Nil /\ items'[k] = Nil
                      \/ k # i /\ meta'[k] = meta[k] /\ items'[k] = items[k]
    BY <1>3 DEF TypeOK, FilesTypeOK, MemoryTypeOK
  <2>3. \A k \in Id : Deleted(k) => Deleted(k)'
    BY <1>0, <2>2, Marks DEF Deleted, Present
  <2>4. Deleted(i)'
    BY <1>0, <2>2, Marks DEF Deleted, Present
  <2>. QED BY <2>1, <2>3, <2>4 DEF GoneOK, TypeOK, HistoryTypeOK
<1>. QED BY <1>1, <1>2, <1>3, Ok DEF DeleteItem, MetaRemoved, Left

LEMMA GoneStep ==
  ASSUME NoErrors, TypeOK, PhaseOK, MirrorOK, GoneOK, [Next]_vars
  PROVE  GoneOK'
<1>1. CASE UNCHANGED vars
  BY <1>1 DEF vars, files, memory, control, history, GoneOK, Deleted, Present
<1>. QED BY <1>1, NextCases, QuietGone, LoadGone, WriteGone, DeleteGone

(* What DeleteItem of an open vault has reported as deleted is in no map and in
   no directory again, wherever the process dies. *)
THEOREM DeletedIsForGood ==
  ASSUME NoErrors
  PROVE  Spec => []DeletedStaysDeleted
<1>1. Init => MirrorOK /\ GoneOK
  BY DEF Init, MirrorOK, GoneOK
<1>2. TypeOK /\ PhaseOK /\ MirrorOK /\ GoneOK /\ [Next]_vars => (MirrorOK /\ GoneOK)'
  BY MirrorStep, GoneStep
<1>3. GoneOK => DeletedStaysDeleted
  BY DEF GoneOK, Deleted, DeletedStaysDeleted
<1>. QED BY <1>1, <1>2, <1>3, TypeCorrect, PTL DEF Spec

-----------------------------------------------------------------------------
(* The recovery recipient can read every value *)

(* The recipient that was accepted stays in force until the next change of it
   begins, and an Unlock does not vouch for another.  While the values are
   re-encrypted all are covered but those that are left to do, and the one at
   hand from the moment its value is written. *)
Readable(i) == meta[i] \in Meta /\ val[i] \in Cipher /\ val[i].val = meta[i].sum
Covered(i, r) == Readable(i) => val[i].rec = r
AtHand == IF Writing THEN {job.id} ELSE {}
Reencrypting == pc = "reencrypt" \/ (Writing /\ job.op = "recover")
CoverOK ==
  /\ ackedRec # Nil => /\ recovery = ackedRec /\ recoverySum = ackedRec
                       /\ \A i \in Id : Covered(i, ackedRec)
  /\ job.op = "recover" => ackedRec = Nil
  /\ pc = "meta" => val[job.id].rec = LoadedRecipient
  /\ Reencrypting => \A i \in Id \ (job.todo \cup AtHand) : Covered(i, job.new)

(* A step that answers, or begins an operation that writes nothing, and makes
   no value readable that was not. *)
LEMMA CoverFrame ==
  ASSUME CoverOK, UNCHANGED <<recovery, recoverySum, ackedRec>>,
         \A i \in Id : Readable(i)' => Readable(i) /\ val'[i] = val[i],
         pc' \notin {"backup", "value", "meta", "reencrypt"},
         job'.op # "recover" \/ job'.op = job.op
  PROVE  CoverOK'
BY DEF CoverOK, Covered, Reencrypting, Writing

LEMMA DiedCover ==
  ASSUME CoverOK, UNCHANGED <<recovery, recoverySum, ackedRec>>,
         \A i \in Id : Readable(i)' => Readable(i) /\ val'[i] = val[i],
         NEW op, NEW how, Die(op, how)
  PROVE  CoverOK'
BY CoverFrame DEF Die, Answer, NoJob

(* Calls that touch neither metadata nor values. *)
LEMMA CallCover ==
  ASSUME CoverOK,
         \/ \E p \in Pass : \/ UnlockFirst(p) \/ UnlockExisting(p)
                            \/ UnlockRejected(p) \/ VerifyPassphrase(p)
         \/ UnlockAgain \/ Lock \/ Refused
         \/ \E i \in Id : GetItem(i)
         \/ ReadValue \/ Crash \/ LoadItems \/ UpgradeVersion
  PROVE  CoverOK'
<1>1. UNCHANGED <<recovery, recoverySum, ackedRec, meta, val>>
  BY DEF UnlockFirst, UnlockExisting, UnlockRejected, VerifyPassphrase,
         UnlockAgain, Lock, Refused, GetItem, ReadValue, Crash, LoadItems,
         UpgradeVersion, files, history
<1>2. pc' \notin {"backup", "value", "meta", "reencrypt"}
  BY DEF UnlockFirst, UnlockExisting, UnlockRejected, VerifyPassphrase,
         UnlockAgain, Lock, Refused, GetItem, ReadValue, Crash, LoadItems,
         UpgradeVersion, Return, Answer, Goto, Start, Begin, Die
<1>3. job'.op # "recover" \/ job'.op = job.op
  <2>1. CASE \E p \in Pass : UnlockFirst(p) \/ UnlockExisting(p)
    BY <2>1, BegunOp, EndedOp DEF UnlockFirst, UnlockExisting
  <2>2. CASE \E i \in Id : GetItem(i)
    BY <2>2, BegunOp, EndedOp DEF GetItem, Start
  <2>. QED BY <2>1, <2>2, EndedOp
           DEF UnlockRejected, VerifyPassphrase, UnlockAgain, Lock, Refused,
               ReadValue, Crash, LoadItems, UpgradeVersion, Goto
<1>. QED BY <1>1, <1>2, <1>3, CoverFrame DEF Readable

(* Only a recipient that nobody vouches for is vouched for. *)
LEMMA UpgradeCover ==
  ASSUME TypeOK, CoverOK, UpgradeRecovery
  PROVE  CoverOK'
<1>1. /\ UNCHANGED <<recovery, ackedRec, meta, val>>
      /\ recoverySum' = recoverySum \/ recoverySum = Nil
  BY DEF UpgradeRecovery, UpgradeRefused, history
<1>2. /\ pc' \notin {"backup", "value", "meta", "reencrypt"}
      /\ job'.op # "recover" \/ job'.op = job.op
  BY DEF UpgradeRecovery, Return, Answer, Goto, Die, NoJob
<1>3. recoverySum = Nil => ackedRec = Nil
  BY DEF CoverOK
<1>4. CASE recoverySum' = recoverySum
  BY <1>1, <1>2, <1>4, CoverFrame DEF Readable
<1>5. CASE ackedRec = Nil
  BY <1>1, <1>2, <1>5 DEF CoverOK, Reencrypting, Writing
<1>. QED BY <1>1, <1>3, <1>4, <1>5

(* A new item has no value that can be read. *)
LEMMA CreateCover ==
  ASSUME TypeOK, CoverOK, NEW i \in Id, CreateItem(i)
  PROVE  CoverOK'
<1>1. /\ UNCHANGED <<recovery, recoverySum, ackedRec, val>> /\ pc' = "idle"
      /\ job' = NoJob
      /\ \A k \in Id \ {i} : meta'[k] = meta[k]
      /\ meta'[i] \in {meta[i], Nil, NewItem, Short, Garbled}
  BY DEF CreateItem, Answer, Die, Left, TornMeta, TypeOK, FilesTypeOK
<1>2. \A c \in Cipher : c.val # NewItem.sum
  BY Marks DEF Cipher, NewItem
<1>3. Readable(i)' => Readable(i)
  BY <1>1, <1>2, Marks DEF Readable
<1>. QED BY <1>1, <1>3, CoverFrame DEF Readable, NoJob

LEMMA DeleteCover ==
  ASSUME TypeOK, PhaseOK, CoverOK, (\E i \in Id : DeleteItem(i)) \/ DeleteValue
  PROVE  CoverOK'
<1>1. UNCHANGED <<recovery, recoverySum, ackedRec>> /\ pc' \in {"idle", "delval"}
  BY DEF DeleteItem, DeleteValue, Return, Answer, Begin, Die
<1>2. job'.op # "recover"
  BY BegunOp, EndedOp DEF DeleteItem, DeleteValue
<1>3. ASSUME NEW k \in Id, Readable(k)' PROVE Readable(k) /\ val'[k] = val[k]
  <2>1. meta'[k] \in {meta[k], Nil} /\ val'[k] \in {val[k], Nil}
    BY DEF DeleteItem, DeleteValue, MetaRemoved, Left, TypeOK, FilesTypeOK
  <2>. QED BY <1>3, <2>1, Marks DEF Readable
<1>. QED BY <1>1, <1>2, <1>3, CoverFrame

(* The first peer is added to the metadata, which keeps its sum. *)
LEMMA GetForPeerCover ==
  ASSUME TypeOK, MirrorOK, OpenOK, CoverOK, NEW i \in Id, NEW p \in Peer,
         GetItemForPeer(i, p)
  PROVE  CoverOK'
<1>. DEFINE new == [items[i] EXCEPT !.peer = p]
<1>1. UNCHANGED <<recovery, recoverySum, ackedRec, val>> /\ pc' \in {"idle", "read"}
  BY DEF GetItemForPeer, Answer, Start, Begin, Die
<1>2. job'.op # "recover"
  BY BegunOp, EndedOp DEF GetItemForPeer, Start
<1>3. ASSUME NEW k \in Id, Readable(k)' PROVE Readable(k)
  <2>1. CASE meta'[k] = meta[k]
    BY <1>1, <1>3, <2>1 DEF Readable
  <2>2. CASE k = i /\ Present(i) /\ meta'[i] = new
    <3>1. loaded /\ items[i] \in Meta /\ new.sum = items[i].sum
      BY <2>2, BoundType DEF Present, OpenOK
    <3>2. meta[i] = items[i]
      BY <3>1, Marks DEF MirrorOK
    <3>. QED BY <1>1, <1>3, <2>2, <3>1, <3>2 DEF Readable
  <2>3. meta'[k] = meta[k] \/ (k = i /\ Present(i) /\ meta'[i] \in {new, Short, Garbled})
    BY DEF GetItemForPeer, Left, TornMeta, TypeOK, FilesTypeOK
  <2>. QED BY <1>3, <2>1, <2>2, <2>3, Marks DEF Readable
<1>. QED BY <1>1, <1>2, <1>3, CoverFrame DEF Readable

(* The accepted recipient is the one in force. *)
LEMMA AckedInForce ==
  ASSUME TypeOK, CoverOK, ackedRec # Nil
  PROVE  LoadedRecipient = ackedRec
BY Marks DEF CoverOK, LoadedRecipient, TypeOK, HistoryTypeOK

(* The step leaves value i readable by r, if it leaves it readable. *)
CoveredNext(i, r) ==
  meta'[i] \in Meta /\ val'[i] \in Cipher /\ val'[i].val = meta'[i].sum
    => val'[i].rec = r

LEMMA SetCover ==
  ASSUME CoverOK, NEW i \in Id, NEW v \in Value, SetItemValue(i, v)
  PROVE  CoverOK'
<1>1. UNCHANGED <<recovery, recoverySum, ackedRec, meta, val>>
  BY DEF SetItemValue, files, history
<1>2. CASE pc' = "idle" /\ job'.op = "none"
  BY <1>1, <1>2, CoverFrame DEF Readable
<1>3. CASE pc' \in {"backup", "value"} /\ job'.op = "set"
  BY <1>1, <1>3 DEF CoverOK, Covered, CoveredNext, Readable, Reencrypting
<1>4. \/ pc' = "idle" /\ job'.op = "none"
      \/ pc' \in {"backup", "value"} /\ job'.op = "set"
  <2>1. \A op, res : Answer(op, res) \/ Die(op, res) => pc' = "idle" /\ job'.op = "none"
    BY EndedOp DEF Answer, Die
  <2>. DEFINE j == [NoJob EXCEPT !.op = "set", !.id = i, !.value = v]
  <2>2. \A phase : Start(j, phase) => pc' = phase /\ job'.op = "set"
    BY BegunOp DEF Start, Begin
  <2>. HIDE DEF j
  <2>. QED BY <2>1, <2>2 DEF SetItemValue, j
<1>. QED BY <1>2, <1>3, <1>4

(* What can be read of a value while it is written is the old value or one that
   the accepted recipient can read. *)
LEMMA WriteCover ==
  ASSUME NoErrors, TypeOK, PhaseOK, CoverOK, Backup \/ WriteValue
  PROVE  CoverOK'
<1>. DEFINE new == [val |-> job.value, rec |-> LoadedRecipient]
<1>0. /\ Writing /\ job.id \in Id /\ UNCHANGED <<recovery, recoverySum, ackedRec, meta>>
      /\ LoadedRecipient' = LoadedRecipient
      /\ \A i \in Id \ {job.id} : val'[i] = val[i]
  BY DEF Backup, WriteValue, Writing, PhaseOK, history, LoadedRecipient, TypeOK,
         FilesTypeOK
<1>1. val'[job.id] \in {val[job.id], new, Garbled} /\ (Backup => val' = val)
  BY <1>0 DEF Backup, WriteValue, Left, TypeOK, FilesTypeOK
<1>2. \A r : \A i \in Id \ {job.id} : Covered(i, r) => CoveredNext(i, r)
  BY <1>0 DEF Covered, CoveredNext, Readable
<1>3. ackedRec # Nil => \A i \in Id : CoveredNext(i, ackedRec)
  <2>1. ackedRec # Nil => CoveredNext(job.id, ackedRec)
    BY <1>0, <1>1, AckedInForce, Marks
       DEF CoverOK, Covered, CoveredNext, Readable
  <2>. QED BY <1>2, <2>1 DEF CoverOK
<1>4. ackedRec' # Nil => /\ recovery' = ackedRec' /\ recoverySum' = ackedRec'
                         /\ \A i \in Id : CoveredNext(i, ackedRec')
  BY <1>0, <1>3 DEF CoverOK, Covered, CoveredNext, Readable
<1>5. CASE Die(job.op, "crash") \/ Return("err")
  <2>1. pc' = "idle" /\ job'.op = "none"
    BY <1>5, EndedOp DEF Die, Return, Answer
  <2>. QED BY <1>4, <2>1
              DEF CoverOK, Covered, CoveredNext, Readable, Reencrypting, Writing
<1>6. CASE \/ Backup /\ Goto("value")
           \/ WriteValue /\ val'[job.id] = new /\ Goto("meta")
  <2>1. pc' \in {"value", "meta"} /\ job' = job
    BY <1>6 DEF Goto
  <2>2. pc' = "meta" => val'[job'.id].rec = LoadedRecipient'
    BY <1>0, <1>6, <2>1 DEF Goto
  <2>3. Reencrypting' => \A i \in Id \ (job'.todo \cup {job'.id}) : CoveredNext(i, job'.new)
    BY <1>0, <1>2, <2>1 DEF CoverOK, Reencrypting, Writing, AtHand
  <2>4. AtHand' = {job'.id}
    BY <2>1 DEF AtHand, Writing
  <2>. QED BY <1>0, <1>4, <2>1, <2>2, <2>3, <2>4
              DEF CoverOK, Covered, CoveredNext, Readable
<1>7. CASE Backup /\ job.op = "recover" /\ Goto("reencrypt") /\ val[job.id] = Nil
  <2>1. pc' = "reencrypt" /\ job' = job /\ val' = val
    BY <1>1, <1>7 DEF Goto
  <2>2. CoveredNext(job.id, job.new)
    BY <1>7, <2>1, Marks DEF Covered, CoveredNext, Readable
  <2>3. \A i \in Id \ job'.todo : CoveredNext(i, job'.new)
    BY <1>0, <1>2, <1>7, <2>1, <2>2 DEF CoverOK, Reencrypting, AtHand
  <2>. QED BY <1>0, <1>4, <2>1, <2>3
              DEF CoverOK, Covered, CoveredNext, Readable, AtHand
<1>. QED
  <2>1. CASE Backup
    BY <1>5, <1>6, <1>7, <2>1, Ok DEF Backup, GiveUp
  <2>2. CASE WriteValue
    <3>1. [val EXCEPT ![job.id] = new][job.id] = new
      BY <1>0 DEF TypeOK, FilesTypeOK
    <3>. QED BY <1>5, <1>6, <2>2, <3>1, Ok DEF WriteValue, Left
  <2>. QED BY <2>1, <2>2

(* Its metadata names it when the recipient in force can read it. *)
LEMMA WriteMetaCover ==
  ASSUME NoErrors, TypeOK, PhaseOK, CoverOK, WriteMeta
  PROVE  CoverOK'
<1>0. /\ pc = "meta" /\ Writing /\ job.id \in Id
      /\ UNCHANGED <<recovery, recoverySum, ackedRec, val>>
      /\ LoadedRecipient' = LoadedRecipient
      /\ \A i \in Id \ {job.id} : meta'[i] = meta[i]
  BY DEF WriteMeta, Writing, PhaseOK, LoadedRecipient, TypeOK, FilesTypeOK
<1>1. \A r : \A i \in Id \ {job.id} : Covered(i, r) => CoveredNext(i, r)
  BY <1>0 DEF Covered, CoveredNext, Readable
<1>2. CoveredNext(job.id, LoadedRecipient)
  BY <1>0 DEF CoverOK, Covered, CoveredNext
<1>3. ackedRec # Nil => \A i \in Id : CoveredNext(i, ackedRec)
  BY <1>0, <1>1, <1>2, AckedInForce DEF CoverOK, Covered, CoveredNext
<1>4. ackedRec' # Nil => /\ recovery' = ackedRec' /\ recoverySum' = ackedRec'
                         /\ \A i \in Id : CoveredNext(i, ackedRec')
  BY <1>0, <1>3 DEF CoverOK, Covered, CoveredNext, Readable
<1>5. CASE \E op, res : Answer(op, res)
  <2>1. pc' = "idle" /\ job'.op = "none"
    BY <1>5, EndedOp DEF Answer
  <2>. QED BY <1>4, <2>1
              DEF CoverOK, Covered, CoveredNext, Readable, Reencrypting, Writing
<1>6. CASE job.op = "recover" /\ pc' = "reencrypt" /\ UNCHANGED job
  <2>1. LoadedRecipient = job.new
    BY <1>0, <1>6 DEF PhaseOK
  <2>2. \A i \in Id \ job.todo : CoveredNext(i, job.new)
    BY <1>0, <1>1, <1>2, <1>6, <2>1
       DEF CoverOK, Reencrypting, AtHand, Covered, CoveredNext
  <2>. QED BY <1>0, <1>4, <1>6, <2>2
              DEF CoverOK, AtHand, Covered, CoveredNext, Readable
<1>. QED BY <1>5, <1>6, Ok DEF WriteMeta, Stored, Die

(* While the recipient is changed none is accepted. *)
LEMMA RecoveryCover ==
  ASSUME TypeOK, PhaseOK, CoverOK,
         \/ \E r \in Recipient : SetRecoveryRecipient(r)
         \/ WriteRecovery \/ WriteRecoverySum \/ UndoRecovery \/ RestoreRecovery
  PROVE  CoverOK'
<1>1. pc' \notin {"backup", "value", "meta", "reencrypt"}
  BY DEF SetRecoveryRecipient, WriteRecovery, WriteRecoverySum, UndoRecovery,
         RestoreRecovery, Return, Answer, Goto, Start, Begin, Die
<1>2. ASSUME NEW r \in Recipient, SetRecoveryRecipient(r) PROVE CoverOK'
  <2>1. CASE ackedRec' = Nil
    BY <1>1, <2>1 DEF CoverOK, Reencrypting, Writing
  <2>2. CASE /\ UNCHANGED <<recovery, recoverySum, ackedRec, meta, val>>
             /\ \E op, res : Answer(op, res)
    BY <1>1, <2>2, EndedOp, CoverFrame DEF Readable
  <2>. QED BY <1>2, <2>1, <2>2 DEF SetRecoveryRecipient, files, Die
<1>3. CASE WriteRecovery \/ WriteRecoverySum \/ UndoRecovery \/ RestoreRecovery
  <2>1. ackedRec = Nil
    BY <1>3 DEF WriteRecovery, WriteRecoverySum, UndoRecovery, RestoreRecovery,
                PhaseOK, Recovering, CoverOK
  <2>2. ackedRec' = Nil
    BY <1>3, <2>1 DEF WriteRecovery, WriteRecoverySum, UndoRecovery,
                      RestoreRecovery, history
  <2>. QED BY <1>1, <2>2 DEF CoverOK, Reencrypting, Writing
<1>. QED BY <1>2, <1>3

(* What is not listed has no metadata. *)
LEMMA ListCover ==
  ASSUME NoErrors, TypeOK, PhaseOK, CoverOK, ListForRecovery
  PROVE  CoverOK'
<1>0. /\ job.op = "recover" /\ ackedRec' = Nil /\ UNCHANGED files
      /\ job \in Jobs
  BY DEF ListForRecovery, PhaseOK, CoverOK, history, TypeOK, ControlTypeOK
<1>1. CASE \E op, res : Answer(op, res)
  BY <1>0, <1>1, EndedOp DEF Answer, CoverOK, Reencrypting, Writing
<1>2. CASE Start([job EXCEPT !.todo = {i \in Id : Listed({})[i] # Nil}], "reencrypt")
  <2>. DEFINE todo == {i \in Id : Listed({})[i] # Nil}
  <2>1. \A i \in Id \ todo : meta[i] \notin Meta
    BY Marks DEF Listed
  <2>. HIDE DEF todo
  <2>2. pc' = "reencrypt" /\ job'.todo = todo
    BY <1>0, <1>2 DEF Start, Begin, Jobs, todo
  <2>3. \A r : \A i \in Id \ job'.todo : CoveredNext(i, r)
    BY <1>0, <2>1, <2>2 DEF Covered, CoveredNext, Readable, files
  <2>. QED BY <1>0, <2>2, <2>3 DEF CoverOK, Covered, CoveredNext, Readable
<1>. QED BY <1>1, <1>2, Ok DEF ListForRecovery, Return, Die

(* What is skipped cannot be read. *)
LEMMA ReencryptCover ==
  ASSUME NoErrors, TypeOK, PhaseOK, CoverOK, NEW i \in Id, Reencrypt(i)
  PROVE  CoverOK'
<1>0. /\ pc = "reencrypt" /\ job.op = "recover" /\ ackedRec' = Nil
      /\ UNCHANGED files /\ job \in Jobs /\ AtHand = {}
      /\ \A k \in Id \ job.todo : CoveredNext(k, job.new)
  BY
     DEF Reencrypt, PhaseOK, CoverOK, Reencrypting, AtHand, Writing, Covered, CoveredNext,
         Readable, history, files, TypeOK, ControlTypeOK
<1>. DEFINE left == [job EXCEPT !.todo = @ \ {i}]
<1>1. left \in Jobs /\ left.new = job.new /\ left.todo = job.todo \ {i}
  BY <1>0 DEF Jobs
<1>. HIDE DEF left
<1>2. CASE Die(job.op, "fatal")
  BY <1>0, <1>2, EndedOp DEF Die, Answer, CoverOK, Reencrypting, Writing
<1>3. CASE Start(left, "reencrypt") /\ "err" \in ReadResults(meta[i], val[i])
  <2>1. pc' = "reencrypt" /\ job' = left
    BY <1>3 DEF Start, Begin
  <2>2. CoveredNext(i, job.new)
    BY <1>0, <1>3, Ok DEF ReadResults, Covered, CoveredNext, Readable, files
  <2>. QED BY <1>0, <1>1, <2>1, <2>2 DEF CoverOK, Covered, CoveredNext, Readable
<1>4. ASSUME NEW phase \in {"backup", "value"},
             Start([left EXCEPT !.id = i, !.value = val[i].val], phase)
      PROVE  CoverOK'
  <2>1. /\ pc' = phase /\ job'.id = i /\ job'.new = job.new
        /\ job'.todo = job.todo \ {i}
    BY <1>1, <1>4 DEF Start, Begin, Jobs
  <2>2. AtHand' = {i}
    BY <2>1 DEF AtHand, Writing
  <2>. QED BY <1>0, <1>4, <2>1, <2>2 DEF CoverOK, Covered, CoveredNext, Readable
<1>. QED BY <1>2, <1>3, <1>4 DEF Reencrypt, left

(* When nothing is left to do, all is covered. *)
LEMMA FinishCover ==
  ASSUME TypeOK, PhaseOK, CoverOK, FinishRecovery
  PROVE  CoverOK'
<1>1. /\ pc = "reencrypt" /\ job.todo = {} /\ UNCHANGED files
      /\ ackedRec' = job.new /\ job.new \in Recipient
      /\ LoadedRecipient = job.new
  BY DEF FinishRecovery, PhaseOK
<1>2. pc' = "idle" /\ job'.op = "none"
  BY EndedOp DEF FinishRecovery, Return, Answer
<1>3. \A i \in Id : Covered(i, job.new)
  BY <1>1 DEF CoverOK, Reencrypting, AtHand, Writing
<1>4. \A i \in Id : CoveredNext(i, ackedRec')
  BY <1>1, <1>3 DEF Covered, CoveredNext, Readable, files
<1>5. recovery = job.new /\ recoverySum = job.new
  BY <1>1, Marks DEF LoadedRecipient
<1>. QED BY <1>1, <1>2, <1>4, <1>5
            DEF CoverOK, Covered, CoveredNext, Readable, Reencrypting, Writing, files

LEMMA CoverStep ==
  ASSUME NoErrors, TypeOK, PhaseOK, MirrorOK, OpenOK, CoverOK, [Next]_vars
  PROVE  CoverOK'
<1>1. CASE Quiet
  BY <1>1, CallCover, UpgradeCover, DeleteCover, SetCover, WriteCover,
     RecoveryCover, ListCover, ReencryptCover, FinishCover DEF Quiet
<1>2. CASE UNCHANGED vars
  BY <1>2
     DEF vars, files, control, history, CoverOK, Covered, CoveredNext, Readable,
              Reencrypting, AtHand, Writing, LoadedRecipient
<1>. QED BY <1>1, <1>2, NextCases, CallCover, CreateCover, DeleteCover,
            GetForPeerCover, WriteMetaCover

(* Once a recipient is accepted, every value that can be read is readable by
   it: those that the change found, and those written since. *)
THEOREM RecipientReadsAll ==
  ASSUME NoErrors
  PROVE  Spec => []RecoveryCoversAll
<1>1. Init => MirrorOK /\ CoverOK
  BY DEF Init, MirrorOK, CoverOK, Reencrypting, Writing, NoJob
<1>2. TypeOK /\ PhaseOK /\ OpenOK /\ MirrorOK /\ CoverOK /\ [Next]_vars
        => (OpenOK /\ MirrorOK /\ CoverOK)'
  BY OpenStep, MirrorStep, CoverStep
<1>3. CoverOK => RecoveryCoversAll
  BY DEF CoverOK, RecoveryCoversAll, Covered, CoveredNext, Readable
<1>. QED BY <1>1, <1>2, <1>3, InitOpen, TypeCorrect, PTL DEF Spec
=============================================================================
