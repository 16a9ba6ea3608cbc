------------------------------- MODULE Vault -------------------------------
(***************************************************************************)
(* The encrypted item store of credstore (internal/store/vault): what it   *)
(* keeps in memory while it is unlocked, what it keeps in its directory,   *)
(* and the order in which its operations write the files of that           *)
(* directory.  Every operation holds v.lock from its first line to its     *)
(* last, so at most one is in progress: `pc' says where it is and `job'    *)
(* with what.  Each file write or delete is a step of its own: between two *)
(* of them the process may die, and a write that fails or is cut short may *)
(* leave the old file, the new one or a torn one.                          *)
(***************************************************************************)
EXTENDS Naturals

CONSTANTS
  Id,           \* the uuids CreateItem can draw
  Value,        \* the secrets clients store; a checksum stands for its value
  Peer,         \* client addresses
  Recipient,    \* age recovery recipients
  Pass,         \* passphrases
  Faults,       \* how a file operation may fail: a subset of {"err", "crash"}
  BuildVersion, \* store.Version against 0.2.0: "new" if greater, else "old"
  Nil,          \* a missing file, a nil pointer, an empty checksum
  Short,        \* a torn file shorter than the header its reader slices off
  Garbled       \* any other torn file, and the error of reading one

(* An item without its id, description and time stamp. *)
Meta == [sum : Value \cup {Nil}, peer : Peer \cup {Nil}]

(* A value at rest: readable by the vault and by the recovery recipient. *)
Cipher == [val : Value, rec : Recipient \cup {Nil}]

ASSUME FaultsAssumption == Faults \subseteq {"err", "crash"}
ASSUME BuildAssumption == BuildVersion \in {"old", "new"}
ASSUME MarksAssumption ==
  /\ Nil # Short /\ Nil # Garbled /\ Short # Garbled
  /\ \A S \in {Id, Value, Peer, Recipient, Pass, Meta, Cipher} :
       S \cap {Nil, Short, Garbled} = {}

VARIABLES
  (* The vault's directory. *)
  identity,     \* .identity: the passphrase it is sealed with
  version,      \* .version, "old" up to 0.2.0
  recovery,     \* .recovery
  recoverySum,  \* .recovery.sum: the recipient it vouches for
  meta,         \* <id>.json
  val,          \* <id>.age
  bak,          \* .bak/<id>.<time>.json, never deleted
  (* The Vault struct. *)
  identityKey,  \* Nil: locked
  secret,       \* metadataHmacSecret (and primaryRecipient) are set
  loaded,       \* the items map is not nil
  items,
  (* The operation in progress. *)
  pc, job, reply,
  (* What clients have been told. *)
  acked,        \* the last value SetItemValue accepted for an item
  bound,        \* the peer an item was first handed to
  born,         \* the ids drawn so far
  gone,         \* the ids an open vault's DeleteItem reported as deleted
  ackedRec      \* what SetRecoveryRecipient accepted, if the last one did

files   == <<identity, version, recovery, recoverySum, meta, val, bak>>
memory  == <<identityKey, secret, loaded, items>>
control == <<pc, job, reply>>
history == <<acked, bound, born, gone, ackedRec>>
vars    == <<files, memory, control, history>>

Ops == {"none", "unlock", "verify", "lock", "create", "set", "delete",
        "get", "getForPeer", "recover", "refused"}
Phases == {"idle", "upgrade", "version", "load", "backup", "value", "meta",
           "recfile", "recsum", "recundo", "restore", "list", "reencrypt",
           "delval", "read"}
Endings == {"none", "ok", "err", "panic", "fatal", "crash"}

Jobs == [op : Ops, id : Id \cup {Nil}, value : Value \cup {Nil},
         new : Recipient \cup {Nil}, old : Recipient \cup {Nil},
         tries : 0..3, todo : SUBSET Id]
NoJob == [op |-> "none", id |-> Nil, value |-> Nil, new |-> Nil, old |-> Nil,
          tries |-> 0, todo |-> {}]

Idle == pc = "idle"
Locked == identityKey = Nil

-----------------------------------------------------------------------------
(* How file operations end, and what a write may leave behind. *)

Outcomes == {"ok"} \cup Faults
ReadFails == "err" \in Faults
Left(old, new, torn, r) == IF r = "ok" THEN {new} ELSE {old, new} \cup torn
TornMeta == {Short, Garbled}

(* How an operation ends or goes on.  Memory survives a reply, not a death:
   a panic, log.Fatal or a crash restarts the server with a locked vault. *)
Answer(op, res) ==
  pc' = "idle" /\ job' = NoJob /\ reply' = [op |-> op, res |-> res]
Return(res) == Answer(job.op, res) /\ UNCHANGED memory
Goto(phase) == pc' = phase /\ UNCHANGED <<memory, job, reply>>
Forget ==
  /\ identityKey' = Nil /\ secret' = FALSE /\ loaded' = FALSE
  /\ items' = [i \in Id |-> Nil]
Die(op, how) == Answer(op, how) /\ Forget

NoReply == [op |-> "none", res |-> "none"]
Begin(j, phase) == pc' = phase /\ job' = j /\ reply' = NoReply
Start(j, phase) == Begin(j, phase) /\ UNCHANGED memory

(* loadRecoveryRecipient: Nil without a .recovery file, Garbled on error. *)
LoadedRecipient ==
  CASE recovery = Nil -> Nil
    [] recovery \in Recipient /\ recoverySum = recovery -> recovery
    [] OTHER -> Garbled

Present(i) == items[i] # Nil

(* Mutation: an assignment to the map is forgotten. *)
MapUnchanged(i, m) == items
MapWith(i, m) == [items EXCEPT ![i] = m]

-----------------------------------------------------------------------------
(* Unlock *)

(* Mutation: any passphrase opens the identity. *)
OpensAny(p) == identity \in Pass
Opens(p) == identity = p

(* There is no identity yet: the passphrase seals a new one. *)
UnlockFirst(p) ==
  /\ Idle /\ Locked /\ identity = Nil
  /\ \E r \in Outcomes :
       /\ identity' \in Left(Nil, p, {Short, Garbled}, r)
       /\ \/ /\ r = "ok"
             /\ identityKey' = p /\ secret' = TRUE
             /\ Begin([NoJob EXCEPT !.op = "unlock"], "upgrade")
             /\ UNCHANGED <<loaded, items>>
          \/ /\ r = "err"
             /\ identityKey' = p
             /\ Answer("unlock", "err")
             /\ UNCHANGED <<secret, loaded, items>>
          \/ r = "crash" /\ Die("unlock", "crash")
  /\ UNCHANGED <<version, recovery, recoverySum, meta, val, bak, history>>

UnlockExisting(p) ==
  /\ Idle /\ Locked /\ Opens(p)
  /\ identityKey' = p /\ secret' = TRUE
  /\ Begin([NoJob EXCEPT !.op = "unlock"], "upgrade")
  /\ UNCHANGED <<files, loaded, items, history>>

(* readIdentity slices 12 bytes off the file before it checks the rest. *)
UnlockRejected(p) ==
  /\ Idle /\ Locked /\ identity # Nil
  /\ \/ identity = Short /\ Answer("unlock", "panic")
     \/ ((identity # Short /\ ~Opens(p)) \/ ReadFails)
        /\ Answer("unlock", "err")
  /\ UNCHANGED <<files, memory, history>>

UnlockAgain ==
  /\ Idle /\ ~Locked
  /\ Answer("unlock", "ok")
  /\ UNCHANGED <<files, memory, history>>

NeedsUpgrade == version \in {Nil, "old"}
UpgradeRefused ==
  \/ version = Garbled
  \/ NeedsUpgrade /\ (recoverySum # Nil \/ recovery = Garbled)

(* upgrade: vouch for a recovery recipient set before 0.3.  An error leaves
   the key and the secret in memory. *)
UpgradeRecovery ==
  /\ pc = "upgrade"
  /\ \/ (UpgradeRefused \/ ReadFails) /\ Return("err")
        /\ UNCHANGED recoverySum
     \/ ~UpgradeRefused /\ (NeedsUpgrade => recovery = Nil)
        /\ Goto("version") /\ UNCHANGED recoverySum
     \/ /\ ~UpgradeRefused /\ NeedsUpgrade /\ recovery # Nil
        /\ \E r \in Outcomes :
             /\ recoverySum' \in Left(Nil, recovery, {Garbled}, r)
             /\ \/ r = "ok" /\ Goto("version")
                \/ r = "err" /\ Return("err")
                \/ r = "crash" /\ Die(job.op, "crash")
  /\ UNCHANGED <<identity, version, recovery, meta, val, bak, history>>

(* A version number cut short may still parse, as an older one. *)
UpgradeVersion ==
  /\ pc = "version"
  /\ \E r \in Outcomes :
       /\ version' \in Left(version, BuildVersion, {Garbled, "old"}, r)
       /\ \/ r = "ok" /\ Goto("load")
          \/ r = "err" /\ Return("err")
          \/ r = "crash" /\ Die(job.op, "crash")
  /\ UNCHANGED <<identity, recovery, recoverySum, meta, val, bak, history>>

(* readAllMetadataUnsafe: metadata that does not verify is left out, and so is
   any that cannot be read (`missed'); a short file is sliced out of range. *)
Missed == IF ReadFails THEN SUBSET Id ELSE {{}}
Listed(missed) == [i \in Id |-> IF meta[i] \in Meta /\ i \notin missed
                                THEN meta[i] ELSE Nil]
ListPanics(missed) == \E i \in Id \ missed : meta[i] = Short

LoadItems ==
  /\ pc = "load"
  /\ \/ ReadFails /\ Answer(job.op, "err") /\ Forget
     \/ \E missed \in Missed :
          \/ ListPanics(missed) /\ Die(job.op, "panic")
          \/ /\ ~ListPanics(missed)
             /\ items' = Listed(missed) /\ loaded' = TRUE
             /\ Answer(job.op, "ok")
             /\ UNCHANGED <<identityKey, secret>>
  /\ UNCHANGED <<files, history>>

-----------------------------------------------------------------------------
(* VerifyPassphrase, Lock, and what is refused *)

VerifyPassphrase(p) ==
  /\ Idle /\ ~Locked
  /\ Answer("verify", IF identityKey = p THEN "ok" ELSE "err")
  /\ UNCHANGED <<files, memory, history>>

Lock ==
  /\ Idle /\ ~Locked
  /\ Forget /\ Answer("lock", "ok")
  /\ UNCHANGED <<files, history>>

(* Every operation of a locked vault, and SetItemValue of an empty value. *)
Refused ==
  /\ Idle
  /\ Answer("refused", "err")
  /\ UNCHANGED <<files, memory, history>>

-----------------------------------------------------------------------------
(* CreateItem: the metadata file, then the map.  After an Unlock that failed
   half way the secret or the map is nil and the server panics. *)

NewItem == [sum |-> Nil, peer |-> Nil]

CreateItem(i) ==
  /\ Idle /\ ~Locked /\ i \notin born
  /\ born' = born \cup {i}
  /\ \/ ~secret /\ Die("create", "panic") /\ UNCHANGED meta
     \/ /\ secret
        /\ \E r \in Outcomes :
             /\ \E m \in Left(Nil, NewItem, TornMeta, r) :
                  meta' = [meta EXCEPT ![i] = m]
             /\ \/ /\ r = "ok" /\ loaded
                   /\ items' = MapWith(i, NewItem)
                   /\ Answer("create", "ok")
                   /\ UNCHANGED <<identityKey, secret, loaded>>
                \/ r = "ok" /\ ~loaded /\ Die("create", "panic")
                \/ r = "err" /\ Answer("create", "err") /\ UNCHANGED memory
                \/ r = "crash" /\ Die("create", "crash")
  /\ UNCHANGED <<identity, version, recovery, recoverySum, val, bak,
                 acked, bound, gone, ackedRec>>

-----------------------------------------------------------------------------
(* writeItemValueUnsafe, for SetItemValue and for the re-encryption in
   SetRecoveryRecipient: back up the old value, write the new one, write the
   metadata, update the map. *)

(* The copy of the item it works on. *)
WorkItem == IF job.op = "set" THEN items[job.id] ELSE meta[job.id]

(* An error is SetItemValue's answer, but only a log line in the loop of
   SetRecoveryRecipient. *)
GiveUp ==
  \/ job.op = "set" /\ Return("err")
  \/ job.op = "recover" /\ Goto("reencrypt")

(* Mutation: the value is overwritten without a backup. *)
NoBackup(m) == FALSE
NeedsBackup(m) == m.sum # Nil

SetItemValue(i, v) ==
  /\ Idle /\ ~Locked
  /\ LET j == [NoJob EXCEPT !.op = "set", !.id = i, !.value = v] IN
     \/ ~Present(i) /\ Answer("set", "err") /\ UNCHANGED memory
     \/ /\ Present(i) /\ (LoadedRecipient = Garbled \/ ReadFails)
        /\ Die("set", "fatal")
     \/ /\ Present(i) /\ LoadedRecipient # Garbled
        /\ Start(j, IF NeedsBackup(items[i]) THEN "backup" ELSE "value")
  /\ UNCHANGED <<files, history>>

Backup ==
  /\ pc = "backup"
  /\ LET c == val[job.id] IN
     \/ (c = Nil \/ ReadFails) /\ GiveUp /\ UNCHANGED bak
     \/ /\ c # Nil
        /\ \E r \in Outcomes :
             /\ \E left \in Left({}, {c}, {{Garbled}}, r) :
                  bak' = [bak EXCEPT ![job.id] = @ \cup left]
             /\ \/ r = "ok" /\ Goto("value")
                \/ r = "err" /\ GiveUp
                \/ r = "crash" /\ Die(job.op, "crash")
  /\ UNCHANGED <<identity, version, recovery, recoverySum, meta, val, history>>

WriteValue ==
  /\ pc = "value"
  /\ \E r \in Outcomes :
       /\ LET new == [val |-> job.value, rec |-> LoadedRecipient] IN
          \E c \in Left(val[job.id], new, {Garbled}, r) :
            val' = [val EXCEPT ![job.id] = c]
       /\ \/ r = "ok" /\ Goto("meta")
          \/ r = "err" /\ GiveUp
          \/ r = "crash" /\ Die(job.op, "crash")
  /\ UNCHANGED <<identity, version, recovery, recoverySum, meta, bak, history>>

(* Mutation: the metadata is built anew and loses its peer. *)
WrittenAnew == [NewItem EXCEPT !.sum = job.value]
Written == [WorkItem EXCEPT !.sum = job.value]

(* The metadata is on disk: the map follows, and the client has its answer. *)
Stored ==
  /\ \/ /\ loaded
        /\ items' = MapWith(job.id, Written)
        /\ UNCHANGED <<identityKey, secret, loaded>>
        /\ \/ job.op = "set" /\ Answer("set", "ok")
           \/ job.op = "recover" /\ pc' = "reencrypt" /\ UNCHANGED <<job, reply>>
     \/ ~loaded /\ Die(job.op, "panic")
  /\ acked' = IF job.op = "set" THEN [acked EXCEPT ![job.id] = job.value]
                                ELSE acked

WriteMeta ==
  /\ pc = "meta"
  /\ \E r \in Outcomes :
       /\ \E m \in Left(meta[job.id], Written, TornMeta, r) :
            meta' = [meta EXCEPT ![job.id] = m]
       /\ \/ r = "ok" /\ Stored
          \/ r = "err" /\ GiveUp /\ UNCHANGED acked
          \/ r = "crash" /\ Die(job.op, "crash") /\ UNCHANGED acked
  /\ UNCHANGED <<identity, version, recovery, recoverySum, val, bak,
                 bound, born, gone, ackedRec>>

-----------------------------------------------------------------------------
(* SetRecoveryRecipient: write .recovery and its sum; when that fails put the
   old recipient back, in at most three tries; then re-encrypt every value
   whose metadata the directory holds. *)

SetRecoveryRecipient(r) ==
  /\ Idle /\ ~Locked
  /\ \/ ~secret /\ Die("recover", "panic") /\ UNCHANGED ackedRec
     \/ /\ secret /\ (LoadedRecipient = Garbled \/ ReadFails)
        /\ Answer("recover", "err") /\ UNCHANGED <<memory, ackedRec>>
     \/ /\ secret /\ LoadedRecipient # Garbled
        /\ Start([NoJob EXCEPT !.op = "recover", !.new = r,
                               !.old = LoadedRecipient], "recfile")
        /\ ackedRec' = Nil
  /\ UNCHANGED <<files, acked, bound, born, gone>>

(* The recipient writeRecoveryRecipient is called with. *)
Target == IF job.tries = 0 THEN job.new ELSE job.old

WriteRecovery ==
  /\ pc = "recfile"
  /\ \E r \in Outcomes :
       /\ recovery' \in Left(recovery, Target, {Garbled}, r)
       /\ \/ r = "ok" /\ Goto("recsum")
          \/ r = "err" /\ Goto("restore")
          \/ r = "crash" /\ Die(job.op, "crash")
  /\ UNCHANGED <<identity, version, recoverySum, meta, val, bak, history>>

WriteRecoverySum ==
  /\ pc = "recsum"
  /\ \E r \in Outcomes :
       /\ recoverySum' \in Left(recoverySum, Target, {Garbled}, r)
       /\ \/ r = "ok" /\ job.tries = 0 /\ Goto("list")
          \/ r = "ok" /\ job.tries > 0 /\ Return("err")
          \/ r = "err" /\ Goto("recundo")
          \/ r = "crash" /\ Die(job.op, "crash")
  /\ UNCHANGED <<identity, version, recovery, meta, val, bak, history>>

(* The sum was not written: .recovery goes too, if it can. *)
UndoRecovery ==
  /\ pc = "recundo"
  /\ \E r \in Outcomes :
       /\ recovery' \in Left(recovery, Nil, {}, r)
       /\ \/ r \in {"ok", "err"} /\ Goto("restore")
          \/ r = "crash" /\ Die(job.op, "crash")
  /\ UNCHANGED <<identity, version, recoverySum, meta, val, bak, history>>

(* Mutation: one more try than the loop allows. *)
FourTries == job.tries <= 3
TriesLeft == job.tries < 3

(* Mutation: the loop does not count. *)
RetryForever == [job EXCEPT !.tries = 1]
Retry == [job EXCEPT !.tries = @ + 1]

(* Mutation: the old recipient is not put back. *)
NoRestore ==
  /\ pc = "restore"
  /\ Return("err")
  /\ UNCHANGED <<files, history>>
RestoreRecovery ==
  /\ pc = "restore"
  /\ \/ job.old = Nil /\ Return("err")
     \/ job.old # Nil /\ ~TriesLeft /\ Die(job.op, "fatal")
     \/ job.old # Nil /\ TriesLeft /\ Start(Retry, "recfile")
  /\ UNCHANGED <<files, history>>

ListForRecovery ==
  /\ pc = "list"
  /\ \/ ReadFails /\ Return("err")
     \/ \E missed \in Missed :
          \/ ListPanics(missed) /\ Die(job.op, "panic")
          \/ /\ ~ListPanics(missed)
             /\ Start([job EXCEPT !.todo = {i \in Id : Listed(missed)[i] # Nil}],
                      "reencrypt")
  /\ UNCHANGED <<files, history>>

(* readItemValueUnsafe: how reading file c as the value of item m may end. *)
ReadResults(m, c) ==
  CASE m.sum = Nil /\ job.op # "recover" -> {"ok"}
    [] OTHER ->
         {IF c \in Cipher /\ c.val = m.sum THEN "ok"
          ELSE IF c = Garbled THEN "fatal" ELSE "err"}
         \cup (IF ReadFails THEN {"err", "fatal"} ELSE {})

(* One round of the loop, over a map and so in any order.  A value that cannot
   be read is skipped; one that does not decrypt ends the process. *)
Reencrypt(i) ==
  /\ pc = "reencrypt" /\ i \in job.todo
  /\ LET left == [job EXCEPT !.todo = @ \ {i}] IN
     \E res \in ReadResults(meta[i], val[i]) :
       \/ /\ res = "ok"
          /\ Start([left EXCEPT !.id = i, !.value = val[i].val],
                   IF NeedsBackup(meta[i]) THEN "backup" ELSE "value")
       \/ res = "err" /\ Start(left, "reencrypt")
       \/ res = "fatal" /\ Die(job.op, "fatal")
  /\ UNCHANGED <<files, history>>

(* Mutation: the loop is left before its last item. *)
FinishEarly ==
  /\ pc = "reencrypt"
  /\ Return("ok")
  /\ ackedRec' = job.new
  /\ UNCHANGED <<files, acked, bound, born, gone>>
FinishRecovery ==
  /\ pc = "reencrypt" /\ job.todo = {}
  /\ Return("ok")
  /\ ackedRec' = job.new
  /\ UNCHANGED <<files, acked, bound, born, gone>>

-----------------------------------------------------------------------------
(* DeleteItem: the map, the metadata, the value.  Errors are only logged. *)

(* Mutation: the metadata file is not removed. *)
MetaKept(i, r) == {meta[i]}
MetaRemoved(i, r) == Left(meta[i], Nil, {}, r)

DeleteItem(i) ==
  /\ Idle /\ ~Locked /\ i \in born
  /\ \/ /\ ~Present(i)
        /\ Answer("delete", "ok")
        /\ gone' = IF loaded THEN gone \cup {i} ELSE gone
        /\ UNCHANGED <<memory, meta, acked, bound>>
     \/ /\ Present(i)
        /\ acked' = [acked EXCEPT ![i] = Nil]
        /\ bound' = [bound EXCEPT ![i] = Nil]
        /\ \E r \in Outcomes :
             /\ \E m \in MetaRemoved(i, r) :
                  meta' = [meta EXCEPT ![i] = m]
             /\ \/ /\ r \in {"ok", "err"}
                   /\ items' = [items EXCEPT ![i] = Nil]
                   /\ Begin([NoJob EXCEPT !.op = "delete", !.id = i], "delval")
                   /\ UNCHANGED <<identityKey, secret, loaded>>
                \/ r = "crash" /\ Die("delete", "crash")
        /\ UNCHANGED gone
  /\ UNCHANGED <<identity, version, recovery, recoverySum, val, bak,
                 born, ackedRec>>

DeleteValue ==
  /\ pc = "delval"
  /\ \E r \in Outcomes :
       /\ \E c \in Left(val[job.id], Nil, {}, r) :
            val' = [val EXCEPT ![job.id] = c]
       /\ \/ r \in {"ok", "err"} /\ Return("ok") /\ gone' = gone \cup {job.id}
          \/ r = "crash" /\ Die(job.op, "crash") /\ UNCHANGED gone
  /\ UNCHANGED <<identity, version, recovery, recoverySum, meta, bak,
                 acked, bound, born, ackedRec>>

-----------------------------------------------------------------------------
(* GetItem and GetItemForPeer *)

GetItem(i) ==
  /\ Idle /\ ~Locked
  /\ \/ ~Present(i) /\ Answer("get", "err") /\ UNCHANGED memory
     \/ Present(i) /\ Start([NoJob EXCEPT !.op = "get", !.id = i], "read")
  /\ UNCHANGED <<files, history>>

(* verifyPeerUnsafe, then the value.  The first peer is written to the
   metadata before the map. *)
GetItemForPeer(i, p) ==
  /\ Idle /\ ~Locked
  /\ LET j == [NoJob EXCEPT !.op = "getForPeer", !.id = i] IN
     \/ /\ Present(i) => items[i].peer \notin {Nil, p}
        /\ Answer("getForPeer", "err") /\ UNCHANGED <<memory, meta, bound>>
     \/ /\ Present(i) /\ items[i].peer = p
        /\ Start(j, "read") /\ UNCHANGED <<meta, bound>>
     \/ /\ Present(i) /\ items[i].peer = Nil
        /\ LET new == [items[i] EXCEPT !.peer = p] IN
           \E r \in Outcomes :
             /\ \E m \in Left(meta[i], new, TornMeta, r) :
                  meta' = [meta EXCEPT ![i] = m]
             /\ \/ /\ r = "ok"
                   /\ items' = MapWith(i, new)
                   /\ bound' = [bound EXCEPT ![i] = p]
                   /\ Begin(j, "read")
                   /\ UNCHANGED <<identityKey, secret, loaded>>
                \/ /\ r = "err" /\ Answer("getForPeer", "err")
                   /\ UNCHANGED <<memory, bound>>
                \/ /\ r = "crash" /\ Die("getForPeer", "crash")
                   /\ UNCHANGED bound
  /\ UNCHANGED <<identity, version, recovery, recoverySum, val, bak,
                 acked, born, gone, ackedRec>>

ReadValue ==
  /\ pc = "read"
  /\ \E res \in ReadResults(items[job.id], val[job.id]) :
       \/ res \in {"ok", "err"} /\ Return(res)
       \/ res = "fatal" /\ Die(job.op, "fatal")
  /\ UNCHANGED <<files, history>>

-----------------------------------------------------------------------------
(* The process may die between any two steps. *)
Crash ==
  /\ "crash" \in Faults /\ (~Idle \/ ~Locked)
  /\ Die(job.op, "crash")
  /\ UNCHANGED <<files, history>>

(* A fresh directory, or one an earlier version left: locked, with or without
   a recovery recipient nobody vouches for. *)
Init ==
  /\ \/ identity = Nil /\ version = Nil /\ recovery = Nil
     \/ /\ identity \in Pass /\ version \in {Nil, "old"}
        /\ recovery \in Recipient \cup {Nil}
  /\ recoverySum = Nil
  /\ meta = [i \in Id |-> Nil]
  /\ val = [i \in Id |-> Nil]
  /\ bak = [i \in Id |-> {}]
  /\ identityKey = Nil /\ secret = FALSE /\ loaded = FALSE
  /\ items = [i \in Id |-> Nil]
  /\ pc = "idle" /\ job = NoJob /\ reply = NoReply
  /\ acked = [i \in Id |-> Nil] /\ bound = [i \in Id |-> Nil]
  /\ born = {} /\ gone = {} /\ ackedRec = Nil

(* What a caller may ask for. *)
Call ==
  \/ \E p \in Pass : \/ UnlockFirst(p) \/ UnlockExisting(p)
                     \/ UnlockRejected(p) \/ VerifyPassphrase(p)
  \/ UnlockAgain \/ Lock \/ Refused
  \/ \E i \in Id :
       \/ CreateItem(i) \/ DeleteItem(i) \/ GetItem(i)
       \/ \E v \in Value : SetItemValue(i, v)
       \/ \E p \in Peer : GetItemForPeer(i, p)
  \/ \E r \in Recipient : SetRecoveryRecipient(r)

(* The steps an operation takes until it answers. *)
Progress ==
  \/ UpgradeRecovery \/ UpgradeVersion \/ LoadItems
  \/ Backup \/ WriteValue \/ WriteMeta
  \/ WriteRecovery \/ WriteRecoverySum \/ UndoRecovery \/ RestoreRecovery
  \/ ListForRecovery \/ (\E i \in Id : Reencrypt(i)) \/ FinishRecovery
  \/ DeleteValue \/ ReadValue

Next == Call \/ Progress \/ Crash

Spec == Init /\ [][Next]_vars

(* The goroutine that holds the lock runs on: none of its steps waits for
   anything but the file system. *)
FairSpec == Spec /\ WF_vars(Progress)

-----------------------------------------------------------------------------
(* Properties *)

FilesTypeOK ==
  /\ identity \in Pass \cup {Nil, Short, Garbled}
  /\ version \in {Nil, "old", "new", Garbled}
  /\ recovery \in Recipient \cup {Nil, Garbled}
  /\ recoverySum \in Recipient \cup {Nil, Garbled}
  /\ meta \in [Id -> Meta \cup {Nil, Short, Garbled}]
  /\ val \in [Id -> Cipher \cup {Nil, Garbled}]
  /\ bak \in [Id -> SUBSET (Cipher \cup {Garbled})]
MemoryTypeOK ==
  /\ identityKey \in Pass \cup {Nil}
  /\ secret \in BOOLEAN /\ loaded \in BOOLEAN
  /\ items \in [Id -> Meta \cup {Nil}]
ControlTypeOK ==
  /\ pc \in Phases /\ job \in Jobs
  /\ reply \in [op : Ops, res : Endings]
HistoryTypeOK ==
  /\ acked \in [Id -> Value \cup {Nil}]
  /\ bound \in [Id -> Peer \cup {Nil}]
  /\ born \subseteq Id /\ gone \subseteq Id
  /\ ackedRec \in Recipient \cup {Nil}

(* Every variable stays within the states its file or field can have. *)
TypeOK ==
  /\ FilesTypeOK /\ MemoryTypeOK /\ ControlTypeOK /\ HistoryTypeOK

(* What the code has established at each phase of an operation; the other
   invariants rest on it. *)
Unlocking == pc \in {"upgrade", "version", "load"}
Writing == pc \in {"backup", "value", "meta"}
Recovering == pc \in {"recfile", "recsum", "recundo", "restore"}
PhaseOK ==
  /\ Idle => job = NoJob
  /\ Unlocking => /\ job.op = "unlock"
                  /\ identityKey \in Pass /\ identityKey = identity
  /\ loaded => identityKey \in Pass /\ identityKey = identity
  /\ Writing => /\ job.op \in {"set", "recover"}
                /\ job.id \in Id /\ job.value \in Value
                /\ WorkItem \in Meta
                /\ job.id \notin job.todo
                /\ LoadedRecipient # Garbled
  /\ Recovering => /\ job.op = "recover" /\ job.new \in Recipient
                   /\ job.todo = {}
                   /\ job.tries > 0 => job.old \in Recipient
  /\ pc = "recsum" => recovery = Target
  /\ pc \in {"list", "reencrypt"} \/ (Writing /\ job.op = "recover") =>
       /\ job.op = "recover" /\ job.new \in Recipient
       /\ LoadedRecipient = job.new
       /\ \A i \in job.todo : meta[i] \in Meta
  /\ pc = "delval" => job.op = "delete" /\ job.id \in Id
  /\ pc = "read" => /\ job.op \in {"get", "getForPeer"}
                    /\ job.id \in Id /\ items[job.id] \in Meta

(* A value SetItemValue accepted is on disk, in the value file or in a backup,
   until its item is deleted: no failed write, crash, later value or
   re-encryption (writeItemValueUnsafe) destroys the last good copy. *)
Holds(i, v) == \E c \in bak[i] \cup {val[i]} : c \in Cipher /\ c.val = v
NoValueLost == \A i \in Id : acked[i] # Nil => Holds(i, acked[i])

(* Once GetItemForPeer has handed an item to a peer, the map and any metadata
   that still verifies name that peer: no write from a stale copy of the item
   (verifyPeerUnsafe, writeItemValueUnsafe) unbinds it. *)
PeerBindingDurable ==
  \A i \in Id : bound[i] # Nil =>
    /\ meta[i] \in Meta => meta[i].peer = bound[i]
    /\ Present(i) => items[i].peer = bound[i]

(* What NoValueLost and PeerBindingDurable rest on: an accepted item was drawn
   by CreateItem and every copy of its metadata has a sum, so that the next
   write backs it up; by the time the value file is overwritten the backup
   holds the accepted value. *)
BackedUp(i, v) == \E c \in bak[i] : c \in Cipher /\ c.val = v
ValueOK ==
  /\ \A i \in Id : acked[i] # Nil =>
       /\ Holds(i, acked[i])
       /\ meta[i] \in Meta => meta[i].sum # Nil
       /\ Present(i) => items[i].sum # Nil
  /\ \A i \in Id : Present(i) \/ meta[i] \in Meta \/ acked[i] # Nil => i \in born
  /\ pc \in {"value", "meta"} /\ acked[job.id] # Nil => BackedUp(job.id, acked[job.id])
  /\ pc = "meta" => val[job.id] \in Cipher /\ val[job.id].val = job.value
  /\ pc = "delval" => acked[job.id] = Nil
PeerOK ==
  /\ PeerBindingDurable
  /\ \A i \in Id : bound[i] # Nil => i \in born

(* The items map is only ever filled with the key that opens .identity, even
   where a failed Unlock leaves its key in memory. *)
OpenedByOwner == loaded => identityKey = identity

(* Between operations the map agrees with the metadata that verifies, however
   often the process died: what the server lists is what a restart loads. *)
MemoryMirrorsDisk ==
  Idle /\ loaded =>
    \A i \in Id : items[i] = IF meta[i] \in Meta THEN meta[i] ELSE Nil

(* What DeleteItem of an open vault reported as deleted does not come back with
   the next Unlock or SetRecoveryRecipient, which read the directory again. *)
DeletedStaysDeleted ==
  \A i \in gone : ~Present(i) /\ meta[i] \notin Meta

(* After SetRecoveryRecipient succeeded, and while its recipient is in force,
   every value that can be read is readable by that recipient, those written
   before it and since. *)
RecoveryCoversAll ==
  Idle /\ ackedRec # Nil /\ LoadedRecipient = ackedRec =>
    \A i \in Id : meta[i] \in Meta /\ val[i] \in Cipher
                    /\ val[i].val = meta[i].sum => val[i].rec = ackedRec

(* A SetRecoveryRecipient that answers leaves the old recipient or the new one
   in force if there was an old one: a write that failed is undone before the
   answer, or there is no answer. *)
RecoveryChangeAtomic ==
  [][job.op = "recover" /\ job.old # Nil /\ Idle' /\ reply'.res \in {"ok", "err"}
       => LoadedRecipient' \in {job.old, job.new}]_vars

(* An Unlock that answered with an error leaves the vault locked. *)
FailedUnlockStaysLocked ==
  reply.op = "unlock" /\ reply.res = "err" => Locked

(* A damaged metadata or value file makes its item unreadable and nothing more:
   with its identity intact the vault unlocks, and reading that item fails
   while the server stays up. *)
DamageIsSurvived ==
  /\ reply.op = "unlock" /\ reply.res = "panic" => identity = Short
  /\ ~(reply.op = "get" /\ reply.res = "fatal")

(* Whoever holds the vault's lock gives it back: every operation answers or the
   process dies, and the retry and re-encryption loops end. *)
EveryCallEnds == ~Idle ~> Idle
=============================================================================
