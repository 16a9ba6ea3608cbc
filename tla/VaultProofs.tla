---------------------------- MODULE VaultProofs ----------------------------
(* Proofs about Vault, for every set of items, values, peers, recipients and
   passphrases and for every kind of fault. *)
EXTENDS Vault, TLAPS

-----------------------------------------------------------------------------
(* Lemmas about the ways an operation ends or goes on *)

(* A write leaves a file of the type of its old, new and torn contents. *)
LEMMA LeftType ==
  ASSUME NEW S, NEW old \in S, NEW new \in S, NEW torn \in SUBSET S, NEW r
  PROVE  Left(old, new, torn, r) \subseteq S
BY DEF Left

(* The marks of files that are missing or torn are no data. *)
LEMMA Marks ==
  /\ Nil \notin Value /\ Nil \notin Peer /\ Nil \notin Recipient
  /\ Nil \notin Pass /\ Nil \notin Id /\ Nil \notin Meta /\ Nil \notin Cipher
  /\ Garbled \notin Recipient /\ Garbled \notin Pass
  /\ Garbled \notin Meta /\ Garbled \notin Cipher
  /\ Short \notin Pass /\ Short \notin Meta
  /\ Nil # Short /\ Nil # Garbled /\ Short # Garbled
BY MarksAssumption

LEMMA NoJobType == NoJob \in Jobs
BY DEF NoJob, Jobs, Ops

(* An answer leaves the control state idle and well typed. *)
LEMMA AnswerType ==
  ASSUME NEW op \in Ops, NEW res \in Endings, Answer(op, res)
  PROVE  ControlTypeOK' /\ pc' = "idle"
BY NoJobType DEF Answer, ControlTypeOK, Phases

(* What a process that died leaves in memory is well typed and locked. *)
LEMMA ForgetType ==
  ASSUME Forget PROVE MemoryTypeOK' /\ ~loaded'
BY DEF Forget, MemoryTypeOK

(* The same for both at once. *)
LEMMA DieType ==
  ASSUME NEW op \in Ops, NEW how \in Endings, Die(op, how)
  PROVE  MemoryTypeOK' /\ ControlTypeOK' /\ pc' = "idle" /\ ~loaded'
BY AnswerType, ForgetType DEF Die

(* A step that begins or resumes an operation. *)
LEMMA BeginType ==
  ASSUME NEW j \in Jobs, NEW phase \in Phases, Begin(j, phase)
  PROVE  ControlTypeOK'
BY DEF Begin, ControlTypeOK, NoReply, Ops, Endings

(* A step to the next phase of the same operation. *)
LEMMA GotoType ==
  ASSUME TypeOK, NEW phase \in Phases, Goto(phase)
  PROVE  ControlTypeOK' /\ MemoryTypeOK'
BY DEF Goto, TypeOK, ControlTypeOK, MemoryTypeOK, memory

(* The map with one more item is still a map of items. *)
LEMMA MapType ==
  ASSUME MemoryTypeOK, NEW i \in Id, NEW m \in Meta
  PROVE  MapWith(i, m) \in [Id -> Meta \cup {Nil}]
BY DEF MapWith, MemoryTypeOK

-----------------------------------------------------------------------------
(* Type correctness and the phase facts *)

(* The job of an operation that has just begun. *)
LEMMA NewJobType ==
  /\ \A op \in Ops : [NoJob EXCEPT !.op = op] \in Jobs
  /\ \A op \in Ops, i \in Id : [NoJob EXCEPT !.op = op, !.id = i] \in Jobs
  /\ \A i \in Id, v \in Value :
       [NoJob EXCEPT !.op = "set", !.id = i, !.value = v] \in Jobs
  /\ \A r \in Recipient, o \in Recipient \cup {Nil} :
       [NoJob EXCEPT !.op = "recover", !.new = r, !.old = o] \in Jobs
<1>1. "set" \in Ops /\ "recover" \in Ops
  BY DEF Ops
<1>. QED BY <1>1, NoJobType DEF Jobs

(* loadRecoveryRecipient returns a recipient, nil or an error. *)
LEMMA LoadedType == LoadedRecipient \in Recipient \cup {Nil, Garbled}
BY DEF LoadedRecipient

(* Every way of unlocking keeps the types. *)
LEMMA UnlockType ==
  ASSUME TypeOK, NEW p \in Pass,
         UnlockFirst(p) \/ UnlockExisting(p) \/ UnlockRejected(p)
  PROVE  TypeOK'
<1>1. CASE UnlockFirst(p)
  <2>. PICK r \in Outcomes :
         /\ identity' \in Left(Nil, p, {Short, Garbled}, r)
         /\ \/ /\ r = "ok"
               /\ identityKey' = p /\ secret' = TRUE
               /\ Begin([NoJob EXCEPT !.op = "unlock"], "upgrade")
               /\ UNCHANGED <<loaded, items>>
            \/ /\ r = "err"
               /\ identityKey' = p
               /\ Answer("unlock", "err")
               /\ UNCHANGED <<secret, loaded, items>>
            \/ r = "crash" /\ Die("unlock", "crash")
    BY <1>1 DEF UnlockFirst
  <2>1. FilesTypeOK'
    BY <1>1, LeftType DEF UnlockFirst, TypeOK, FilesTypeOK, Left
  <2>2. HistoryTypeOK'
    BY <1>1 DEF UnlockFirst, TypeOK, HistoryTypeOK, history
  <2>3. MemoryTypeOK' /\ ControlTypeOK'
    <3>1. CASE Begin([NoJob EXCEPT !.op = "unlock"], "upgrade")
               /\ identityKey' = p /\ secret' = TRUE /\ UNCHANGED <<loaded, items>>
      BY <3>1, BeginType, NewJobType DEF TypeOK, MemoryTypeOK, Ops, Phases
    <3>2. CASE identityKey' = p /\ Answer("unlock", "err")
               /\ UNCHANGED <<secret, loaded, items>>
      BY <3>2, AnswerType DEF TypeOK, MemoryTypeOK, Ops, Endings
    <3>3. CASE Die("unlock", "crash")
      BY <3>3, DieType DEF Ops, Endings
    <3>. QED BY <3>1, <3>2, <3>3
  <2>. QED BY <2>1, <2>2, <2>3 DEF TypeOK
<1>2. CASE UnlockExisting(p)
  BY <1>2, BeginType, NewJobType
  DEF UnlockExisting, Opens, TypeOK, FilesTypeOK, MemoryTypeOK, HistoryTypeOK,
      files, history, Ops, Phases
<1>3. CASE UnlockRejected(p)
  BY <1>3, AnswerType
  DEF UnlockRejected, TypeOK, FilesTypeOK, MemoryTypeOK, HistoryTypeOK,
      files, memory, history, Ops, Endings
<1>. QED BY <1>1, <1>2, <1>3

(* The steps of Unlock after the key is set keep the types. *)
LEMMA UpgradeType ==
  ASSUME TypeOK, PhaseOK, UpgradeRecovery \/ UpgradeVersion \/ LoadItems
  PROVE  TypeOK'
<1>0. job.op \in Ops
  BY DEF TypeOK, ControlTypeOK, Jobs
<1>1. CASE UpgradeRecovery
  <2>1. FilesTypeOK' /\ HistoryTypeOK'
    <3>1. recoverySum' \in Recipient \cup {Nil, Garbled}
      BY <1>1 DEF UpgradeRecovery, Left, TypeOK, FilesTypeOK, UpgradeRefused
    <3>. QED BY <1>1, <3>1
             DEF UpgradeRecovery, TypeOK, FilesTypeOK, HistoryTypeOK, history
  <2>2. MemoryTypeOK' /\ ControlTypeOK'
    <3>1. CASE Return("err")
      BY <3>1, <1>0, AnswerType
      DEF Return, Endings, TypeOK, MemoryTypeOK, memory
    <3>2. CASE Goto("version")
      BY <3>2, GotoType DEF Phases
    <3>3. CASE Die(job.op, "crash")
      BY <3>3, <1>0, DieType DEF Endings
    <3>. QED BY <1>1, <3>1, <3>2, <3>3 DEF UpgradeRecovery
  <2>. QED BY <2>1, <2>2 DEF TypeOK
<1>2. CASE UpgradeVersion
  <2>1. FilesTypeOK' /\ HistoryTypeOK'
    BY <1>2, BuildAssumption
    DEF UpgradeVersion, Left, TypeOK, FilesTypeOK, HistoryTypeOK, history
  <2>2. MemoryTypeOK' /\ ControlTypeOK'
    <3>1. CASE Return("err")
      BY <3>1, <1>0, AnswerType
      DEF Return, Endings, TypeOK, MemoryTypeOK, memory
    <3>2. CASE Goto("load")
      BY <3>2, GotoType DEF Phases
    <3>3. CASE Die(job.op, "crash")
      BY <3>3, <1>0, DieType DEF Endings
    <3>. QED BY <1>2, <3>1, <3>2, <3>3 DEF UpgradeVersion
  <2>. QED BY <2>1, <2>2 DEF TypeOK
<1>3. CASE LoadItems
  <2>1. FilesTypeOK' /\ HistoryTypeOK'
    BY <1>3 DEF LoadItems, TypeOK, FilesTypeOK, HistoryTypeOK, files, history
  <2>2. MemoryTypeOK' /\ ControlTypeOK'
    <3>1. CASE Answer(job.op, "err") /\ Forget
      BY <3>1, <1>0, AnswerType, ForgetType DEF Endings
    <3>2. CASE Die(job.op, "panic")
      BY <3>2, <1>0, DieType DEF Endings
    <3>3. ASSUME NEW missed, items' = Listed(missed), loaded' = TRUE,
                 Answer(job.op, "ok"), UNCHANGED <<identityKey, secret>>
          PROVE  MemoryTypeOK' /\ ControlTypeOK'
      <4>1. ControlTypeOK'
        BY <3>3, <1>0, AnswerType DEF Endings
      <4>2. Listed(missed) \in [Id -> Meta \cup {Nil}]
        BY DEF Listed
      <4>. QED BY <3>3, <4>1, <4>2 DEF TypeOK, MemoryTypeOK
    <3>. QED BY <1>3, <3>1, <3>2, <3>3 DEF LoadItems
  <2>. QED BY <2>1, <2>2 DEF TypeOK
<1>. QED BY <1>1, <1>2, <1>3

(* Operations that answer at once keep the types. *)
LEMMA SimpleCallType ==
  ASSUME TypeOK,
         UnlockAgain \/ Lock \/ Refused \/ (\E p \in Pass : VerifyPassphrase(p))
  PROVE  TypeOK'
<1>1. \A op \in Ops, res \in Endings :
        Answer(op, res) /\ UNCHANGED <<files, memory, history>> => TypeOK'
  BY AnswerType
  DEF TypeOK, FilesTypeOK, MemoryTypeOK, HistoryTypeOK, files, memory, history
<1>2. CASE Lock
  BY <1>2, AnswerType, ForgetType
  DEF Lock, TypeOK, FilesTypeOK, HistoryTypeOK, files, history, Ops, Endings
<1>3. CASE UnlockAgain
  BY <1>1, <1>3 DEF UnlockAgain, Ops, Endings
<1>4. CASE Refused
  BY <1>1, <1>4 DEF Refused, Ops, Endings
<1>5. ASSUME NEW p \in Pass, VerifyPassphrase(p) PROVE TypeOK'
  BY <1>1, <1>5 DEF VerifyPassphrase, Ops, Endings
<1>. QED BY <1>2, <1>3, <1>4, <1>5

LEMMA NewItemType == NewItem \in Meta
BY DEF NewItem, Meta

(* A file write keeps meta, val and bak functions of the right type. *)
LEMMA MetaType ==
  ASSUME FilesTypeOK, NEW i \in Id, NEW m \in Meta \cup {Nil}, NEW r,
         NEW old \in Meta \cup {Nil, Short, Garbled},
         NEW left \in Left(old, m, TornMeta, r)
  PROVE  [meta EXCEPT ![i] = left] \in [Id -> Meta \cup {Nil, Short, Garbled}]
BY DEF FilesTypeOK, Left, TornMeta

(* CreateItem keeps the types. *)
LEMMA CreateType ==
  ASSUME TypeOK, NEW i \in Id, CreateItem(i)
  PROVE  TypeOK'
<1>1. HistoryTypeOK'
  BY DEF CreateItem, TypeOK, HistoryTypeOK
<1>2. FilesTypeOK'
  <2>1. meta' \in [Id -> Meta \cup {Nil, Short, Garbled}]
    <3>1. CASE UNCHANGED meta
      BY <3>1 DEF TypeOK, FilesTypeOK
    <3>2. CASE \E r \in Outcomes : \E m \in Left(Nil, NewItem, TornMeta, r) :
                 meta' = [meta EXCEPT ![i] = m]
      BY <3>2, NewItemType, MetaType DEF TypeOK
    <3>. QED BY <3>1, <3>2 DEF CreateItem
  <2>. QED BY <2>1 DEF CreateItem, TypeOK, FilesTypeOK
<1>3. MemoryTypeOK' /\ ControlTypeOK'
  <2>0. "create" \in Ops /\ {"ok", "err", "panic", "crash"} \subseteq Endings
    BY DEF Ops, Endings
  <2>1. CASE Die("create", "panic") \/ Die("create", "crash")
    BY <2>0, <2>1, DieType
  <2>2. CASE /\ items' = MapWith(i, NewItem) /\ Answer("create", "ok")
             /\ UNCHANGED <<identityKey, secret, loaded>>
    BY <2>0, <2>2, AnswerType, MapType, NewItemType DEF TypeOK, MemoryTypeOK
  <2>3. CASE Answer("create", "err") /\ UNCHANGED memory
    BY <2>0, <2>3, AnswerType DEF TypeOK, MemoryTypeOK, memory
  <2>. QED BY <2>1, <2>2, <2>3 DEF CreateItem
<1>. QED BY <1>1, <1>2, <1>3 DEF TypeOK

(* Giving up a write keeps the types of memory and control. *)
LEMMA GiveUpType ==
  ASSUME TypeOK, GiveUp
  PROVE  MemoryTypeOK' /\ ControlTypeOK'
<1>1. job.op \in Ops
  BY DEF TypeOK, ControlTypeOK, Jobs
<1>2. CASE Return("err")
  BY <1>1, <1>2, AnswerType DEF Return, Endings, TypeOK, MemoryTypeOK, memory
<1>3. CASE Goto("reencrypt")
  BY <1>3, GotoType DEF Phases
<1>. QED BY <1>2, <1>3 DEF GiveUp

(* SetItemValue and the steps of writeItemValueUnsafe keep the types. *)
LEMMA SetType ==
  ASSUME TypeOK, NEW i \in Id, NEW v \in Value, SetItemValue(i, v)
  PROVE  TypeOK'
<1>1. FilesTypeOK' /\ HistoryTypeOK'
  BY DEF SetItemValue, TypeOK, FilesTypeOK, HistoryTypeOK, files, history
<1>2. MemoryTypeOK' /\ ControlTypeOK'
  <2>0. "set" \in Ops /\ {"err", "fatal"} \subseteq Endings
        /\ {"backup", "value"} \subseteq Phases
    BY DEF Ops, Endings, Phases
  <2>1. CASE Answer("set", "err") /\ UNCHANGED memory
    BY <2>0, <2>1, AnswerType DEF TypeOK, MemoryTypeOK, memory
  <2>2. CASE Die("set", "fatal")
    BY <2>0, <2>2, DieType
  <2>3. CASE Start([NoJob EXCEPT !.op = "set", !.id = i, !.value = v],
                   IF NeedsBackup(items[i]) THEN "backup" ELSE "value")
    BY <2>0, <2>3, BeginType, NewJobType DEF Start, TypeOK, MemoryTypeOK, memory
  <2>. QED BY <2>1, <2>2, <2>3 DEF SetItemValue
<1>. QED BY <1>1, <1>2 DEF TypeOK

LEMMA BackupType ==
  ASSUME TypeOK, PhaseOK, Backup
  PROVE  TypeOK'
<1>0. job.id \in Id /\ job.op \in Ops
  BY DEF PhaseOK, Writing, Backup, Ops
<1>1. FilesTypeOK'
  <2>1. bak' \in [Id -> SUBSET (Cipher \cup {Garbled})]
    <3>1. CASE UNCHANGED bak
      BY <3>1 DEF TypeOK, FilesTypeOK
    <3>2. ASSUME val[job.id] # Nil, NEW r,
                 NEW left \in Left({}, {val[job.id]}, {{Garbled}}, r),
                 bak' = [bak EXCEPT ![job.id] = @ \cup left]
          PROVE  bak' \in [Id -> SUBSET (Cipher \cup {Garbled})]
      <4>1. val[job.id] \in Cipher \cup {Garbled}
        BY <1>0, <3>2 DEF TypeOK, FilesTypeOK
      <4>2. left \subseteq Cipher \cup {Garbled}
        BY <3>2, <4>1 DEF Left
      <4>. QED BY <1>0, <3>2, <4>2 DEF TypeOK, FilesTypeOK
    <3>. QED BY <3>1, <3>2 DEF Backup
  <2>. QED BY <2>1 DEF Backup, TypeOK, FilesTypeOK
<1>2. MemoryTypeOK' /\ ControlTypeOK'
  <2>1. CASE Goto("value")
    BY <2>1, GotoType DEF Phases
  <2>2. CASE Die(job.op, "crash")
    BY <1>0, <2>2, DieType DEF Endings
  <2>. QED BY <2>1, <2>2, GiveUpType DEF Backup
<1>3. HistoryTypeOK'
  BY DEF Backup, TypeOK, HistoryTypeOK, history
<1>. QED BY <1>1, <1>2, <1>3 DEF TypeOK

LEMMA WriteValueType ==
  ASSUME TypeOK, PhaseOK, WriteValue
  PROVE  TypeOK'
<1>0. /\ job.id \in Id /\ job.op \in Ops
      /\ [val |-> job.value, rec |-> LoadedRecipient] \in Cipher
  BY LoadedType DEF PhaseOK, Writing, WriteValue, Ops, Cipher
<1>1. FilesTypeOK'
  BY <1>0 DEF WriteValue, Left, TypeOK, FilesTypeOK
<1>2. MemoryTypeOK' /\ ControlTypeOK'
  <2>1. CASE Goto("meta")
    BY <2>1, GotoType DEF Phases
  <2>2. CASE Die(job.op, "crash")
    BY <1>0, <2>2, DieType DEF Endings
  <2>. QED BY <2>1, <2>2, GiveUpType DEF WriteValue
<1>3. HistoryTypeOK'
  BY DEF WriteValue, TypeOK, HistoryTypeOK, history
<1>. QED BY <1>1, <1>2, <1>3 DEF TypeOK

(* The metadata written back is that of the working copy with a new sum. *)
LEMMA WrittenType ==
  ASSUME PhaseOK, Writing
  PROVE  /\ Written \in Meta
         /\ Written.sum = job.value /\ Written.peer = WorkItem.peer
BY DEF PhaseOK, Written, Meta

LEMMA WriteMetaType ==
  ASSUME TypeOK, PhaseOK, WriteMeta
  PROVE  TypeOK'
<1>0. /\ job.id \in Id /\ job.op \in Ops /\ job.value \in Value
      /\ Written \in Meta
  BY WrittenType DEF PhaseOK, Writing, WriteMeta, Ops
<1>1. FilesTypeOK'
  <2>1. meta' \in [Id -> Meta \cup {Nil, Short, Garbled}]
    BY <1>0, MetaType DEF WriteMeta, TypeOK, FilesTypeOK
  <2>. QED BY <2>1 DEF WriteMeta, TypeOK, FilesTypeOK
<1>2. MemoryTypeOK' /\ ControlTypeOK'
  <2>0. {"ok", "panic", "crash"} \subseteq Endings /\ "reencrypt" \in Phases
    BY DEF Endings, Phases
  <2>1. CASE Die(job.op, "crash") \/ Die(job.op, "panic")
    BY <1>0, <2>0, <2>1, DieType
  <2>2. CASE /\ items' = MapWith(job.id, Written)
             /\ UNCHANGED <<identityKey, secret, loaded>>
             /\ \/ job.op = "set" /\ Answer("set", "ok")
                \/ job.op = "recover" /\ pc' = "reencrypt" /\ UNCHANGED <<job, reply>>
    <3>1. MemoryTypeOK'
      BY <1>0, <2>2, MapType DEF TypeOK, MemoryTypeOK
    <3>2. ControlTypeOK'
      BY <1>0, <2>0, <2>2, AnswerType DEF TypeOK, ControlTypeOK
    <3>. QED BY <3>1, <3>2
  <2>. QED BY <2>1, <2>2, GiveUpType DEF WriteMeta, Stored
<1>3. HistoryTypeOK'
  BY <1>0 DEF WriteMeta, Stored, TypeOK, HistoryTypeOK
<1>. QED BY <1>1, <1>2, <1>3 DEF TypeOK

(* SetRecoveryRecipient and its own steps keep the types. *)
LEMMA SetRecoveryType ==
  ASSUME TypeOK, NEW r \in Recipient, SetRecoveryRecipient(r)
  PROVE  TypeOK'
<1>1. FilesTypeOK' /\ HistoryTypeOK'
  BY DEF SetRecoveryRecipient, TypeOK, FilesTypeOK, HistoryTypeOK, files
<1>2. MemoryTypeOK' /\ ControlTypeOK'
  <2>0. "recover" \in Ops /\ {"err", "panic"} \subseteq Endings
        /\ "recfile" \in Phases
    BY DEF Ops, Endings, Phases
  <2>1. CASE Die("recover", "panic")
    BY <2>0, <2>1, DieType
  <2>2. CASE Answer("recover", "err") /\ UNCHANGED memory
    BY <2>0, <2>2, AnswerType DEF TypeOK, MemoryTypeOK, memory
  <2>3. CASE LoadedRecipient # Garbled
             /\ Start([NoJob EXCEPT !.op = "recover", !.new = r,
                                    !.old = LoadedRecipient], "recfile")
    <3>1. LoadedRecipient \in Recipient \cup {Nil}
      BY <2>3, LoadedType
    <3>. QED BY <2>0, <2>3, <3>1, BeginType, NewJobType
             DEF Start, TypeOK, MemoryTypeOK, memory
  <2>. QED BY <2>1, <2>2, <2>3 DEF SetRecoveryRecipient
<1>. QED BY <1>1, <1>2 DEF TypeOK

(* The recipient being written is one. *)
LEMMA TargetType ==
  ASSUME TypeOK, PhaseOK, Recovering
  PROVE  Target \in Recipient
BY DEF PhaseOK, Target, TypeOK, ControlTypeOK, Jobs

LEMMA RecoveryFilesType ==
  ASSUME TypeOK, PhaseOK, WriteRecovery \/ WriteRecoverySum \/ UndoRecovery
  PROVE  TypeOK'
<1>0. /\ job.op \in Ops /\ Target \in Recipient
      /\ {"err", "crash"} \subseteq Endings
      /\ {"recsum", "restore", "list", "recundo"} \subseteq Phases
  BY TargetType DEF Recovering, WriteRecovery, WriteRecoverySum, UndoRecovery,
                    TypeOK, ControlTypeOK, Jobs, Endings, Phases
<1>1. FilesTypeOK'
  BY <1>0 DEF WriteRecovery, WriteRecoverySum, UndoRecovery, Left,
              TypeOK, FilesTypeOK
<1>2. MemoryTypeOK' /\ ControlTypeOK'
  <2>1. CASE Return("err")
    BY <1>0, <2>1, AnswerType DEF Return, TypeOK, MemoryTypeOK, memory
  <2>2. CASE Die(job.op, "crash")
    BY <1>0, <2>2, DieType
  <2>3. CASE \E phase \in {"recsum", "restore", "list", "recundo"} : Goto(phase)
    BY <1>0, <2>3, GotoType
  <2>. QED BY <2>1, <2>2, <2>3 DEF WriteRecovery, WriteRecoverySum, UndoRecovery
<1>3. HistoryTypeOK'
  BY DEF WriteRecovery, WriteRecoverySum, UndoRecovery, TypeOK, HistoryTypeOK,
         history
<1>. QED BY <1>1, <1>2, <1>3 DEF TypeOK

LEMMA RestoreType ==
  ASSUME TypeOK, RestoreRecovery
  PROVE  TypeOK'
<1>0. /\ job \in Jobs /\ job.op \in Ops /\ {"err", "fatal"} \subseteq Endings
      /\ "recfile" \in Phases
  BY DEF TypeOK, ControlTypeOK, Jobs, Endings, Phases
<1>1. FilesTypeOK' /\ HistoryTypeOK'
  BY DEF RestoreRecovery, TypeOK, FilesTypeOK, HistoryTypeOK, files, history
<1>2. MemoryTypeOK' /\ ControlTypeOK'
  <2>1. CASE Return("err")
    BY <1>0, <2>1, AnswerType DEF Return, TypeOK, MemoryTypeOK, memory
  <2>2. CASE Die(job.op, "fatal")
    BY <1>0, <2>2, DieType
  <2>3. CASE TriesLeft /\ Start(Retry, "recfile")
    <3>1. Retry \in Jobs
      BY <1>0, <2>3 DEF Retry, TriesLeft, Jobs
    <3>. QED BY <1>0, <2>3, <3>1, BeginType
             DEF Start, TypeOK, MemoryTypeOK, memory
  <2>. QED BY <2>1, <2>2, <2>3 DEF RestoreRecovery
<1>. QED BY <1>1, <1>2 DEF TypeOK

LEMMA ListType ==
  ASSUME TypeOK, ListForRecovery
  PROVE  TypeOK'
<1>0. /\ job \in Jobs /\ job.op \in Ops /\ {"err", "panic"} \subseteq Endings
      /\ "reencrypt" \in Phases
  BY DEF TypeOK, ControlTypeOK, Jobs, Endings, Phases
<1>1. FilesTypeOK' /\ HistoryTypeOK'
  BY DEF ListForRecovery, TypeOK, FilesTypeOK, HistoryTypeOK, files, history
<1>2. MemoryTypeOK' /\ ControlTypeOK'
  <2>1. CASE Return("err")
    BY <1>0, <2>1, AnswerType DEF Return, TypeOK, MemoryTypeOK, memory
  <2>2. CASE Die(job.op, "panic")
    BY <1>0, <2>2, DieType
  <2>3. ASSUME NEW todo \in SUBSET Id,
               Start([job EXCEPT !.todo = todo], "reencrypt")
        PROVE  MemoryTypeOK' /\ ControlTypeOK'
    <3>1. [job EXCEPT !.todo = todo] \in Jobs
      BY <1>0 DEF Jobs
    <3>. QED BY <1>0, <2>3, <3>1, BeginType
             DEF Start, TypeOK, MemoryTypeOK, memory
  <2>. QED BY <2>1, <2>2, <2>3 DEF ListForRecovery
<1>. QED BY <1>1, <1>2 DEF TypeOK

(* A value that can be read is the one the metadata names. *)
LEMMA ReadOk ==
  ASSUME NEW m \in Meta, NEW c, "ok" \in ReadResults(m, c), job.op = "recover"
  PROVE  c \in Cipher /\ c.val = m.sum /\ m.sum \in Value
BY DEF ReadResults, Cipher

LEMMA ReencryptType ==
  ASSUME TypeOK, PhaseOK, NEW i \in Id, Reencrypt(i)
  PROVE  TypeOK'
<1>0. /\ job \in Jobs /\ job.op = "recover" /\ "recover" \in Ops
      /\ "fatal" \in Endings
      /\ {"reencrypt", "backup", "value"} \subseteq Phases
      /\ meta[i] \in Meta
  BY DEF TypeOK, ControlTypeOK, Endings, Phases, Ops, PhaseOK, Reencrypt
<1>1. FilesTypeOK' /\ HistoryTypeOK'
  BY DEF Reencrypt, TypeOK, FilesTypeOK, HistoryTypeOK, files, history
<1>2. MemoryTypeOK' /\ ControlTypeOK'
  <2>. DEFINE left == [job EXCEPT !.todo = @ \ {i}]
  <2>1. left \in Jobs
    BY <1>0 DEF Jobs
  <2>2. CASE Die(job.op, "fatal")
    BY <1>0, <2>2, DieType
  <2>3. CASE Start(left, "reencrypt")
    BY <1>0, <2>1, <2>3, BeginType DEF Start, TypeOK, MemoryTypeOK, memory
  <2>4. ASSUME "ok" \in ReadResults(meta[i], val[i]),
               NEW phase \in {"backup", "value"},
               Start([left EXCEPT !.id = i, !.value = val[i].val], phase)
        PROVE  MemoryTypeOK' /\ ControlTypeOK'
    <3>1. val[i].val \in Value
      BY <1>0, <2>4, ReadOk
    <3>2. [left EXCEPT !.id = i, !.value = val[i].val] \in Jobs
      BY <2>1, <3>1 DEF Jobs
    <3>. HIDE DEF left
    <3>. QED BY <1>0, <2>4, <3>2, BeginType
             DEF Start, TypeOK, MemoryTypeOK, memory
  <2>. QED BY <2>2, <2>3, <2>4 DEF Reencrypt
<1>. QED BY <1>1, <1>2 DEF TypeOK

LEMMA FinishType ==
  ASSUME TypeOK, PhaseOK, FinishRecovery
  PROVE  TypeOK'
<1>0. job.op \in Ops /\ "ok" \in Endings /\ job.new \in Recipient
  BY DEF TypeOK, ControlTypeOK, Jobs, Endings, PhaseOK, FinishRecovery
<1>. QED BY <1>0, AnswerType
         DEF FinishRecovery, Return, TypeOK, FilesTypeOK, MemoryTypeOK,
             HistoryTypeOK, files, memory

(* DeleteItem keeps the types. *)
LEMMA DeleteType ==
  ASSUME TypeOK, NEW i \in Id, DeleteItem(i)
  PROVE  TypeOK'
<1>0. "delete" \in Ops /\ {"ok", "crash"} \subseteq Endings /\ "delval" \in Phases
  BY DEF Ops, Endings, Phases
<1>1. FilesTypeOK'
  <2>1. meta' \in [Id -> Meta \cup {Nil, Short, Garbled}]
    BY DEF DeleteItem, MetaRemoved, Left, TypeOK, FilesTypeOK
  <2>. QED BY <2>1 DEF DeleteItem, TypeOK, FilesTypeOK
<1>2. MemoryTypeOK' /\ ControlTypeOK'
  <2>1. CASE Answer("delete", "ok") /\ UNCHANGED memory
    BY <1>0, <2>1, AnswerType DEF TypeOK, MemoryTypeOK, memory
  <2>2. CASE Die("delete", "crash")
    BY <1>0, <2>2, DieType
  <2>3. CASE /\ items' = [items EXCEPT ![i] = Nil]
             /\ Begin([NoJob EXCEPT !.op = "delete", !.id = i], "delval")
             /\ UNCHANGED <<identityKey, secret, loaded>>
    BY <1>0, <2>3, BeginType, NewJobType DEF TypeOK, MemoryTypeOK
  <2>. QED BY <2>1, <2>2, <2>3 DEF DeleteItem
<1>3. HistoryTypeOK'
  BY DEF DeleteItem, TypeOK, HistoryTypeOK
<1>. QED BY <1>1, <1>2, <1>3 DEF TypeOK

LEMMA DeleteValueType ==
  ASSUME TypeOK, PhaseOK, DeleteValue
  PROVE  TypeOK'
<1>0. job.op \in Ops /\ job.id \in Id /\ {"ok", "crash"} \subseteq Endings
  BY DEF PhaseOK, DeleteValue, Ops, Endings
<1>1. FilesTypeOK'
  BY <1>0 DEF DeleteValue, Left, TypeOK, FilesTypeOK
<1>2. MemoryTypeOK' /\ ControlTypeOK'
  <2>1. CASE Return("ok")
    BY <1>0, <2>1, AnswerType DEF Return, TypeOK, MemoryTypeOK, memory
  <2>2. CASE Die(job.op, "crash")
    BY <1>0, <2>2, DieType
  <2>. QED BY <2>1, <2>2 DEF DeleteValue
<1>3. HistoryTypeOK'
  BY <1>0 DEF DeleteValue, TypeOK, HistoryTypeOK
<1>. QED BY <1>1, <1>2, <1>3 DEF TypeOK

(* GetItem, GetItemForPeer and the read they share keep the types. *)
LEMMA GetType ==
  ASSUME TypeOK, NEW i \in Id, GetItem(i)
  PROVE  TypeOK'
<1>0. "get" \in Ops /\ "err" \in Endings /\ "read" \in Phases
  BY DEF Ops, Endings, Phases
<1>1. FilesTypeOK' /\ HistoryTypeOK'
  BY DEF GetItem, TypeOK, FilesTypeOK, HistoryTypeOK, files, history
<1>2. MemoryTypeOK' /\ ControlTypeOK'
  <2>1. CASE Answer("get", "err") /\ UNCHANGED memory
    BY <1>0, <2>1, AnswerType DEF TypeOK, MemoryTypeOK, memory
  <2>2. CASE Start([NoJob EXCEPT !.op = "get", !.id = i], "read")
    BY <1>0, <2>2, BeginType, NewJobType DEF Start, TypeOK, MemoryTypeOK, memory
  <2>. QED BY <2>1, <2>2 DEF GetItem
<1>. QED BY <1>1, <1>2 DEF TypeOK

(* An item bound to a peer differs from what it was in its peer only. *)
LEMMA BoundType ==
  ASSUME TypeOK, NEW i \in Id, NEW p \in Peer, Present(i)
  PROVE  /\ items[i] \in Meta
         /\ [items[i] EXCEPT !.peer = p] \in Meta
         /\ [items[i] EXCEPT !.peer = p].peer = p
         /\ [items[i] EXCEPT !.peer = p].sum = items[i].sum
<1>1. items[i] \in Meta
  BY DEF Present, TypeOK, MemoryTypeOK
<1>. QED BY <1>1 DEF Meta

LEMMA GetForPeerType ==
  ASSUME TypeOK, NEW i \in Id, NEW p \in Peer, GetItemForPeer(i, p)
  PROVE  TypeOK'
<1>0. "getForPeer" \in Ops /\ {"err", "crash"} \subseteq Endings
      /\ "read" \in Phases
  BY DEF Ops, Endings, Phases
<1>. DEFINE new == [items[i] EXCEPT !.peer = p]
<1>1. Present(i) => new \in Meta
  BY BoundType
<1>. HIDE DEF new
<1>2. FilesTypeOK'
  <2>1. meta' \in [Id -> Meta \cup {Nil, Short, Garbled}]
    BY <1>1, MetaType DEF GetItemForPeer, TypeOK, FilesTypeOK, new
  <2>. QED BY <2>1 DEF GetItemForPeer, TypeOK, FilesTypeOK
<1>3. MemoryTypeOK' /\ ControlTypeOK'
  <2>. DEFINE j == [NoJob EXCEPT !.op = "getForPeer", !.id = i]
  <2>0. j \in Jobs
    BY <1>0, NewJobType
  <2>. HIDE DEF j
  <2>1. CASE Answer("getForPeer", "err") /\ UNCHANGED memory
    BY <1>0, <2>1, AnswerType DEF TypeOK, MemoryTypeOK, memory
  <2>2. CASE Start(j, "read")
    BY <1>0, <2>0, <2>2, BeginType DEF Start, TypeOK, MemoryTypeOK, memory
  <2>3. CASE /\ Present(i) /\ items' = MapWith(i, new) /\ Begin(j, "read")
             /\ UNCHANGED <<identityKey, secret, loaded>>
    BY <1>0, <1>1, <2>0, <2>3, BeginType, MapType DEF TypeOK, MemoryTypeOK
  <2>4. CASE Die("getForPeer", "crash")
    BY <1>0, <2>4, DieType
  <2>. QED BY <2>1, <2>2, <2>3, <2>4 DEF GetItemForPeer, j, new
<1>4. HistoryTypeOK'
  BY DEF GetItemForPeer, TypeOK, HistoryTypeOK
<1>. QED BY <1>2, <1>3, <1>4 DEF TypeOK

LEMMA ReadValueType ==
  ASSUME TypeOK, ReadValue
  PROVE  TypeOK'
<1>0. job.op \in Ops /\ {"ok", "err", "fatal"} \subseteq Endings
  BY DEF TypeOK, ControlTypeOK, Jobs, Endings
<1>1. FilesTypeOK' /\ HistoryTypeOK'
  BY DEF ReadValue, TypeOK, FilesTypeOK, HistoryTypeOK, files, history
<1>2. MemoryTypeOK' /\ ControlTypeOK'
  <2>1. CASE \E res \in {"ok", "err"} : Return(res)
    BY <1>0, <2>1, AnswerType DEF Return, TypeOK, MemoryTypeOK, memory
  <2>2. CASE Die(job.op, "fatal")
    BY <1>0, <2>2, DieType
  <2>. QED BY <2>1, <2>2 DEF ReadValue
<1>. QED BY <1>1, <1>2 DEF TypeOK

LEMMA CrashType ==
  ASSUME TypeOK, Crash
  PROVE  TypeOK'
<1>0. job.op \in Ops /\ "crash" \in Endings
  BY DEF TypeOK, ControlTypeOK, Jobs, Endings
<1>. QED BY <1>0, DieType
         DEF Crash, TypeOK, FilesTypeOK, HistoryTypeOK, files, history

(* Every step keeps the types. *)
LEMMA TypeStep ==
  ASSUME TypeOK, PhaseOK, [Next]_vars
  PROVE  TypeOK'
<1>1. CASE Call
  BY <1>1, UnlockType, SimpleCallType, CreateType, DeleteType, GetType, SetType,
     GetForPeerType, SetRecoveryType DEF Call
<1>2. CASE Progress
  BY <1>2, UpgradeType, BackupType, WriteValueType, WriteMetaType,
     RecoveryFilesType, RestoreType, ListType, ReencryptType, FinishType,
     DeleteValueType, ReadValueType DEF Progress
<1>3. CASE UNCHANGED vars
  BY <1>3 DEF vars, files, memory, control, history, TypeOK, FilesTypeOK,
              MemoryTypeOK, ControlTypeOK, HistoryTypeOK
<1>. QED BY <1>1, <1>2, <1>3, CrashType DEF Next

(* Nothing is asked of an idle vault but that its map has its owner's key. *)
LEMMA IdlePhase ==
  ASSUME pc' = "idle", job' = NoJob, loaded' => identityKey' \in Pass /\ identityKey' = identity'
  PROVE  PhaseOK'
BY DEF PhaseOK, Unlocking, Writing, Recovering, Idle

LEMMA AnsweredPhase ==
  ASSUME PhaseOK, NEW op, NEW res, Answer(op, res), UNCHANGED <<memory, identity>>
  PROVE  PhaseOK'
BY IdlePhase DEF Answer, memory, PhaseOK

LEMMA DiedPhase ==
  ASSUME NEW op, NEW how, Die(op, how)
  PROVE  PhaseOK'
BY IdlePhase DEF Die, Answer, Forget

(* Calls. *)
LEMMA UnlockPhase ==
  ASSUME TypeOK, PhaseOK, NEW p \in Pass,
         UnlockFirst(p) \/ UnlockExisting(p) \/ UnlockRejected(p)
  PROVE  PhaseOK'
<1>1. CASE UnlockFirst(p)
  <2>0. ~loaded
    BY <1>1, Marks DEF UnlockFirst, PhaseOK, Locked
  <2>1. CASE Begin([NoJob EXCEPT !.op = "unlock"], "upgrade")
             /\ identityKey' = p /\ identity' = p /\ UNCHANGED loaded
    BY <2>0, <2>1, NoJobType
    DEF Begin, Jobs, PhaseOK, Unlocking, Writing, Recovering, Idle
  <2>2. CASE Answer("unlock", "err") /\ UNCHANGED loaded
    BY <2>0, <2>2, IdlePhase DEF Answer
  <2>3. CASE Die("unlock", "crash")
    BY <2>3, DiedPhase
  <2>. QED BY <1>1, <2>1, <2>2, <2>3 DEF UnlockFirst, Left
<1>2. CASE UnlockExisting(p)
  BY <1>2, NoJobType
  DEF UnlockExisting, Opens, Begin, Jobs, files, PhaseOK, Unlocking, Writing,
      Recovering, Idle
<1>3. CASE UnlockRejected(p)
  BY <1>3, AnsweredPhase DEF UnlockRejected, files
<1>. QED BY <1>1, <1>2, <1>3

LEMMA SimpleCallPhase ==
  ASSUME TypeOK, PhaseOK,
         UnlockAgain \/ Lock \/ Refused \/ (\E p \in Pass : VerifyPassphrase(p))
  PROVE  PhaseOK'
BY AnsweredPhase, IdlePhase
DEF UnlockAgain, Lock, Refused, VerifyPassphrase, files, Forget, Answer

LEMMA CreatePhase ==
  ASSUME TypeOK, PhaseOK, NEW i \in Id, CreateItem(i)
  PROVE  PhaseOK'
<1>1. CASE Die("create", "panic") \/ Die("create", "crash")
  BY <1>1, DiedPhase
<1>2. CASE \E res : Answer("create", res) /\ UNCHANGED <<identityKey, loaded, identity>>
  BY <1>2, IdlePhase DEF Answer, PhaseOK
<1>. QED BY <1>1, <1>2 DEF CreateItem, memory

(* A step that begins an operation while the vault is open. *)
LEMMA SetPhase ==
  ASSUME TypeOK, PhaseOK, NEW i \in Id, NEW v \in Value, SetItemValue(i, v)
  PROVE  PhaseOK'
<1>1. CASE Answer("set", "err") /\ UNCHANGED memory
  BY <1>1, AnsweredPhase DEF SetItemValue, files
<1>2. CASE Die("set", "fatal")
  BY <1>2, DiedPhase
<1>. DEFINE j == [NoJob EXCEPT !.op = "set", !.id = i, !.value = v]
<1>3. ASSUME Present(i), LoadedRecipient # Garbled, NEW phase \in {"backup", "value"},
             Start(j, phase)
      PROVE  PhaseOK'
  <2>1. /\ j.op = "set" /\ j.id = i /\ j.value = v /\ j.todo = {}
    BY DEF NoJob
  <2>. HIDE DEF j
  <2>2. /\ job' = j /\ pc' \in {"backup", "value"}
        /\ UNCHANGED <<files, identityKey, loaded, items>>
    BY <1>3 DEF Start, Begin, memory, SetItemValue
  <2>3. items[i] \in Meta
    BY <1>3 DEF Present, TypeOK, MemoryTypeOK
  <2>4. WorkItem' \in Meta
    BY <2>1, <2>2, <2>3 DEF WorkItem
  <2>5. LoadedRecipient' # Garbled
    BY <1>3, <2>2 DEF LoadedRecipient, files
  <2>. QED BY <2>1, <2>2, <2>4, <2>5
           DEF PhaseOK, Unlocking, Writing, Recovering, Idle, files
<1>. QED BY <1>1, <1>2, <1>3 DEF SetItemValue

LEMMA SetRecoveryPhase ==
  ASSUME TypeOK, PhaseOK, NEW r \in Recipient, SetRecoveryRecipient(r)
  PROVE  PhaseOK'
<1>1. CASE Die("recover", "panic")
  BY <1>1, DiedPhase
<1>2. CASE Answer("recover", "err") /\ UNCHANGED memory
  BY <1>2, AnsweredPhase DEF SetRecoveryRecipient, files
<1>3. CASE Start([NoJob EXCEPT !.op = "recover", !.new = r,
                              !.old = LoadedRecipient], "recfile")
  <2>1. /\ pc' = "recfile" /\ job'.op = "recover" /\ job'.new = r /\ job'.tries = 0
        /\ job'.todo = {}
        /\ UNCHANGED <<identity, identityKey, loaded>>
    BY <1>3 DEF Start, Begin, memory, SetRecoveryRecipient, files, NoJob
  <2>. QED BY <2>1 DEF PhaseOK, Unlocking, Writing, Recovering, Idle
<1>. QED BY <1>1, <1>2, <1>3 DEF SetRecoveryRecipient

LEMMA DeletePhase ==
  ASSUME TypeOK, PhaseOK, NEW i \in Id, DeleteItem(i)
  PROVE  PhaseOK'
<1>1. CASE Answer("delete", "ok") /\ UNCHANGED memory
  BY <1>1, AnsweredPhase DEF DeleteItem
<1>2. CASE Die("delete", "crash")
  BY <1>2, DiedPhase
<1>3. CASE /\ Begin([NoJob EXCEPT !.op = "delete", !.id = i], "delval")
           /\ UNCHANGED <<identityKey, loaded>>
  <2>1. /\ pc' = "delval" /\ job'.op = "delete" /\ job'.id = i
        /\ UNCHANGED <<identity, identityKey, loaded>>
    BY <1>3 DEF Begin, DeleteItem, NoJob
  <2>. QED BY <2>1 DEF PhaseOK, Unlocking, Writing, Recovering, Idle
<1>. QED BY <1>1, <1>2, <1>3 DEF DeleteItem

(* A read that has found its item. *)
LEMMA ReadPhase ==
  ASSUME PhaseOK, NEW i \in Id, NEW op \in {"get", "getForPeer"},
         Begin([NoJob EXCEPT !.op = op, !.id = i], "read"),
         items'[i] \in Meta, UNCHANGED <<identity, identityKey, loaded>>
  PROVE  PhaseOK'
<1>1. pc' = "read" /\ job'.op = op /\ job'.id = i
  BY DEF Begin, NoJob
<1>. QED BY <1>1 DEF PhaseOK, Unlocking, Writing, Recovering, Idle

LEMMA GetPhase ==
  ASSUME TypeOK, PhaseOK, NEW i \in Id, GetItem(i)
  PROVE  PhaseOK'
<1>1. CASE Answer("get", "err") /\ UNCHANGED memory
  BY <1>1, AnsweredPhase DEF GetItem, files
<1>2. CASE Present(i) /\ Start([NoJob EXCEPT !.op = "get", !.id = i], "read")
  BY <1>2, ReadPhase
  DEF Start, GetItem, files, memory, Present, TypeOK, MemoryTypeOK
<1>. QED BY <1>1, <1>2 DEF GetItem

LEMMA GetForPeerPhase ==
  ASSUME TypeOK, PhaseOK, NEW i \in Id, NEW p \in Peer, GetItemForPeer(i, p)
  PROVE  PhaseOK'
<1>. DEFINE j == [NoJob EXCEPT !.op = "getForPeer", !.id = i]
            new == [items[i] EXCEPT !.peer = p]
<1>0. UNCHANGED identity
  BY DEF GetItemForPeer
<1>1. CASE Answer("getForPeer", "err") /\ UNCHANGED memory
  BY <1>0, <1>1, AnsweredPhase
<1>2. CASE Die("getForPeer", "crash")
  BY <1>2, DiedPhase
<1>3. CASE Present(i) /\ Start(j, "read")
  BY <1>0, <1>3, ReadPhase DEF Start, memory, Present, TypeOK, MemoryTypeOK
<1>4. CASE /\ Present(i) /\ items' = MapWith(i, new) /\ Begin(j, "read")
           /\ UNCHANGED <<identityKey, loaded>>
  <2>1. items'[i] \in Meta
    BY <1>4, BoundType DEF MapWith, TypeOK, MemoryTypeOK
  <2>. QED BY <1>0, <1>4, <2>1, ReadPhase
<1>. QED BY <1>1, <1>2, <1>3, <1>4 DEF GetItemForPeer

(* Steps of an operation in progress. *)
LEMMA ReturnPhase ==
  ASSUME PhaseOK, NEW res, Return(res), UNCHANGED identity
  PROVE  PhaseOK'
BY AnsweredPhase DEF Return

LEMMA UpgradePhase ==
  ASSUME TypeOK, PhaseOK, UpgradeRecovery \/ UpgradeVersion \/ LoadItems
  PROVE  PhaseOK'
<1>0. Unlocking /\ UNCHANGED identity
  BY DEF Unlocking, UpgradeRecovery, UpgradeVersion, LoadItems, files
<1>1. CASE Return("err")
  BY <1>0, <1>1, ReturnPhase
<1>2. CASE Goto("version") \/ Goto("load")
  BY <1>0, <1>2
  DEF Goto, memory, PhaseOK, Unlocking, Writing, Recovering, Idle
<1>3. CASE Die(job.op, "crash") \/ Die(job.op, "panic")
  BY <1>3, DiedPhase
<1>4. CASE Forget /\ Answer(job.op, "err")
  BY <1>4, IdlePhase DEF Forget, Answer
<1>5. CASE Answer(job.op, "ok") /\ UNCHANGED <<identityKey, secret>>
  BY <1>0, <1>5, IdlePhase DEF Answer, PhaseOK
<1>. QED BY <1>1, <1>2, <1>3, <1>4, <1>5
         DEF UpgradeRecovery, UpgradeVersion, LoadItems

(* Giving up leads back to the loop only where the loop goes on. *)
LEMMA GiveUpPhase ==
  ASSUME TypeOK, PhaseOK, Writing, GiveUp,
         UNCHANGED <<identity, recovery, recoverySum>>,
         \A i \in Id \ {job.id} : meta'[i] = meta[i]
  PROVE  PhaseOK'
<1>1. CASE Return("err")
  BY <1>1, ReturnPhase
<1>2. CASE job.op = "recover" /\ Goto("reencrypt")
  <2>1. /\ pc' = "reencrypt" /\ UNCHANGED <<job, identityKey, loaded>>
        /\ LoadedRecipient' = LoadedRecipient
    BY <1>2 DEF Goto, memory, LoadedRecipient
  <2>2. job.todo \subseteq Id
    BY DEF TypeOK, ControlTypeOK, Jobs
  <2>. QED BY <1>2, <2>1, <2>2
           DEF PhaseOK, Unlocking, Writing, Recovering, Idle
<1>. QED BY <1>1, <1>2 DEF GiveUp

LEMMA WritePhase ==
  ASSUME TypeOK, PhaseOK, Backup \/ WriteValue
  PROVE  PhaseOK'
<1>0. Writing /\ UNCHANGED <<identity, recovery, recoverySum, meta>>
  BY DEF Backup, WriteValue, Writing
<1>1. CASE GiveUp
  BY <1>0, <1>1, GiveUpPhase
<1>2. CASE Die(job.op, "crash")
  BY <1>2, DiedPhase
<1>3. CASE Goto("value") \/ Goto("meta")
  <2>1. /\ pc' \in {"value", "meta"} /\ UNCHANGED <<job, identityKey, loaded, items>>
    BY <1>3 DEF Goto, memory
  <2>2. WorkItem' = WorkItem /\ LoadedRecipient' = LoadedRecipient
    BY <1>0, <2>1 DEF WorkItem, LoadedRecipient
  <2>. QED BY <1>0, <2>1, <2>2
           DEF PhaseOK, Unlocking, Writing, Recovering, Idle
<1>. QED BY <1>1, <1>2, <1>3 DEF Backup, WriteValue

LEMMA WriteMetaPhase ==
  ASSUME TypeOK, PhaseOK, WriteMeta
  PROVE  PhaseOK'
<1>0. /\ Writing /\ UNCHANGED <<identity, recovery, recoverySum>>
      /\ \A i \in Id \ {job.id} : meta'[i] = meta[i]
  BY DEF WriteMeta, Writing, TypeOK, FilesTypeOK
<1>1. CASE GiveUp
  BY <1>0, <1>1, GiveUpPhase
<1>2. CASE Die(job.op, "crash") \/ Die(job.op, "panic")
  BY <1>2, DiedPhase
<1>3. CASE Answer("set", "ok") /\ UNCHANGED <<identityKey, loaded>>
  BY <1>0, <1>3, IdlePhase DEF Answer, PhaseOK
<1>4. CASE /\ job.op = "recover" /\ pc' = "reencrypt"
           /\ UNCHANGED <<job, identityKey, loaded>>
  <2>1. LoadedRecipient' = LoadedRecipient
    BY <1>0 DEF LoadedRecipient
  <2>2. job.todo \subseteq Id
    BY DEF TypeOK, ControlTypeOK, Jobs
  <2>. QED BY <1>0, <1>4, <2>1, <2>2
           DEF PhaseOK, Unlocking, Writing, Recovering, Idle
<1>. QED BY <1>1, <1>2, <1>3, <1>4 DEF WriteMeta, Stored

LEMMA RecoveryFilesPhase ==
  ASSUME TypeOK, PhaseOK, WriteRecovery \/ WriteRecoverySum \/ UndoRecovery
  PROVE  PhaseOK'
<1>0. /\ Recovering /\ Target \in Recipient /\ UNCHANGED identity
  BY TargetType DEF Recovering, WriteRecovery, WriteRecoverySum, UndoRecovery
<1>1. CASE Return("err")
  BY <1>0, <1>1, ReturnPhase
<1>2. CASE Die(job.op, "crash")
  BY <1>2, DiedPhase
<1>3. CASE Goto("restore") \/ Goto("recundo")
  BY <1>0, <1>3
  DEF Goto, memory, PhaseOK, Unlocking, Writing, Recovering, Idle
<1>4. CASE WriteRecovery /\ recovery' = Target /\ Goto("recsum")
  BY <1>0, <1>4
  DEF Goto, memory, PhaseOK, Unlocking, Writing, Recovering, Idle, Target
<1>5. CASE /\ WriteRecoverySum /\ recoverySum' = Target
           /\ job.tries = 0 /\ Goto("list")
  <2>1. /\ pc = "recsum" /\ pc' = "list" /\ UNCHANGED <<job, recovery, identityKey, loaded>>
        /\ Target = job.new
    BY <1>5 DEF Goto, memory, WriteRecoverySum, Target
  <2>2. LoadedRecipient' = job.new
    BY <1>0, <1>5, <2>1, Marks DEF LoadedRecipient, PhaseOK
  <2>3. job.todo = {}
    BY <1>0 DEF PhaseOK
  <2>. QED BY <1>0, <2>1, <2>2, <2>3
           DEF PhaseOK, Unlocking, Writing, Recovering, Idle
<1>. QED BY <1>1, <1>2, <1>3, <1>4, <1>5
         DEF WriteRecovery, WriteRecoverySum, UndoRecovery, Left

LEMMA RestorePhase ==
  ASSUME TypeOK, PhaseOK, RestoreRecovery
  PROVE  PhaseOK'
<1>0. Recovering /\ job \in Jobs /\ UNCHANGED identity
  BY DEF Recovering, RestoreRecovery, files, TypeOK, ControlTypeOK
<1>1. CASE Return("err")
  BY <1>0, <1>1, ReturnPhase
<1>2. CASE Die(job.op, "fatal")
  BY <1>2, DiedPhase
<1>3. CASE job.old # Nil /\ Start(Retry, "recfile")
  <2>1. /\ pc' = "recfile" /\ UNCHANGED <<identityKey, loaded>>
        /\ job'.op = job.op /\ job'.new = job.new /\ job'.old = job.old
        /\ job'.todo = job.todo
    BY <1>0, <1>3 DEF Start, Begin, memory, Retry, Jobs
  <2>2. job.old \in Recipient
    BY <1>0, <1>3 DEF Jobs
  <2>. QED BY <1>0, <2>1, <2>2
           DEF PhaseOK, Unlocking, Writing, Recovering, Idle
<1>. QED BY <1>1, <1>2, <1>3 DEF RestoreRecovery

LEMMA ListPhase ==
  ASSUME TypeOK, PhaseOK, ListForRecovery
  PROVE  PhaseOK'
<1>0. pc = "list" /\ job \in Jobs /\ UNCHANGED files
  BY DEF ListForRecovery, TypeOK, ControlTypeOK
<1>1. CASE Return("err")
  BY <1>0, <1>1, ReturnPhase DEF files
<1>2. CASE Die(job.op, "panic")
  BY <1>2, DiedPhase
<1>3. ASSUME NEW missed,
             Start([job EXCEPT !.todo = {i \in Id : Listed(missed)[i] # Nil}],
                   "reencrypt")
      PROVE  PhaseOK'
  <2>. DEFINE todo == {i \in Id : Listed(missed)[i] # Nil}
  <2>1. \A i \in todo : meta[i] \in Meta
    BY DEF Listed
  <2>. HIDE DEF todo
  <2>2. /\ pc' = "reencrypt" /\ UNCHANGED <<identityKey, loaded>>
        /\ job'.op = job.op /\ job'.new = job.new /\ job'.todo = todo
    BY <1>0, <1>3 DEF Start, Begin, memory, Jobs, todo
  <2>3. LoadedRecipient' = LoadedRecipient
    BY <1>0 DEF LoadedRecipient, files
  <2>. QED BY <1>0, <2>1, <2>2, <2>3
           DEF PhaseOK, Unlocking, Writing, Recovering, Idle, files
<1>. QED BY <1>1, <1>2, <1>3 DEF ListForRecovery

LEMMA ReencryptPhase ==
  ASSUME TypeOK, PhaseOK, NEW i \in Id, Reencrypt(i)
  PROVE  PhaseOK'
<1>0. /\ pc = "reencrypt" /\ job \in Jobs /\ job.op = "recover"
      /\ i \in job.todo /\ meta[i] \in Meta /\ UNCHANGED files
      /\ LoadedRecipient = job.new /\ job.new \in Recipient
  BY DEF Reencrypt, PhaseOK, TypeOK, ControlTypeOK
<1>. DEFINE left == [job EXCEPT !.todo = @ \ {i}]
<1>1. /\ left \in Jobs /\ left.op = "recover" /\ left.new = job.new
      /\ left.todo = job.todo \ {i}
  BY <1>0 DEF Jobs
<1>. HIDE DEF left
<1>2. LoadedRecipient' = LoadedRecipient
  BY <1>0 DEF LoadedRecipient, files
<1>3. CASE Die(job.op, "fatal")
  BY <1>3, DiedPhase
<1>4. CASE Start(left, "reencrypt")
  <2>1. pc' = "reencrypt" /\ job' = left /\ UNCHANGED <<identityKey, loaded>>
    BY <1>4 DEF Start, Begin, memory
  <2>. QED BY <1>0, <1>1, <1>2, <2>1
           DEF PhaseOK, Unlocking, Writing, Recovering, Idle, files
<1>5. ASSUME "ok" \in ReadResults(meta[i], val[i]),
             NEW phase \in {"backup", "value"},
             Start([left EXCEPT !.id = i, !.value = val[i].val], phase)
      PROVE  PhaseOK'
  <2>1. val[i].val \in Value
    BY <1>0, <1>5, ReadOk
  <2>2. /\ pc' = phase /\ UNCHANGED <<identityKey, loaded>>
        /\ job'.op = "recover" /\ job'.new = job.new
        /\ job'.todo = job.todo \ {i}
        /\ job'.id = i /\ job'.value = val[i].val
    BY <1>1, <1>5, <2>1 DEF Start, Begin, memory, Jobs
  <2>3. WorkItem' \in Meta
    BY <1>0, <2>2 DEF WorkItem, files
  <2>. QED BY <1>0, <1>2, <1>5, <2>1, <2>2, <2>3, Marks
           DEF PhaseOK, Unlocking, Writing, Recovering, Idle, files
<1>. QED BY <1>3, <1>4, <1>5 DEF Reencrypt, left

LEMMA LastStepPhase ==
  ASSUME PhaseOK, FinishRecovery \/ DeleteValue \/ ReadValue \/ Crash
  PROVE  PhaseOK'
BY ReturnPhase, DiedPhase
DEF FinishRecovery, DeleteValue, ReadValue, Crash, files

(* Every step keeps the phase facts. *)
LEMMA PhaseStep ==
  ASSUME TypeOK, PhaseOK, [Next]_vars
  PROVE  PhaseOK'
<1>1. CASE Call
  BY <1>1, UnlockPhase, SimpleCallPhase, CreatePhase, DeletePhase, GetPhase,
     SetPhase, GetForPeerPhase, SetRecoveryPhase DEF Call
<1>2. CASE Progress
  BY <1>2, UpgradePhase, WritePhase, WriteMetaPhase, RecoveryFilesPhase,
     RestorePhase, ListPhase, ReencryptPhase, LastStepPhase DEF Progress
<1>3. CASE UNCHANGED vars
  BY <1>3 DEF vars, files, memory, control, PhaseOK, Unlocking, Writing,
              Recovering, Idle, WorkItem, LoadedRecipient, Target
<1>. QED BY <1>1, <1>2, <1>3, LastStepPhase DEF Next

LEMMA InitPhase == Init => TypeOK /\ PhaseOK
<1>. SUFFICES ASSUME Init PROVE TypeOK /\ PhaseOK
  OBVIOUS
<1>1. TypeOK
  BY NoJobType DEF Init, TypeOK, FilesTypeOK, MemoryTypeOK, ControlTypeOK,
     HistoryTypeOK, NoReply, Ops, Endings, Phases
<1>2. PhaseOK
  BY DEF Init, PhaseOK, Unlocking, Writing, Recovering, Idle
<1>. QED BY <1>1, <1>2

(* Every variable of the vault stays within its type, whatever fails. *)
THEOREM TypeCorrect == Spec => [](TypeOK /\ PhaseOK)
<1>1. TypeOK /\ PhaseOK /\ [Next]_vars => (TypeOK /\ PhaseOK)'
  BY TypeStep, PhaseStep
<1>. QED BY <1>1, InitPhase, PTL DEF Spec

(* Whatever fails, a loaded items map goes with the key .identity is sealed
   with (Unlock). *)
THEOREM OwnerHasKey == Spec => []OpenedByOwner
<1>1. PhaseOK => OpenedByOwner
  BY DEF PhaseOK, OpenedByOwner
<1>. QED BY <1>1, TypeCorrect, PTL

-----------------------------------------------------------------------------
(* No accepted value is lost *)

(* Steps that write no value file, that leave metadata alone or tear it, and
   that fill the map from the directory or empty it. *)
LEMMA ValueFrame ==
  ASSUME ValueOK, UNCHANGED <<val, bak, acked>>, born \subseteq born',
         \A i \in Id : meta'[i] \in Meta => meta'[i] = meta[i],
         \A i \in Id : \/ items'[i] \in {items[i], Nil}
                       \/ items'[i] = meta[i] /\ meta[i] \in Meta,
         pc' \notin {"value", "meta", "delval"}
  PROVE  ValueOK'
<1>1. \A i \in Id : Holds(i, acked[i])' <=> Holds(i, acked[i])
  BY DEF Holds
<1>2. \A i \in Id : Present(i)' =>
        \/ Present(i) /\ items'[i] = items[i]
        \/ meta[i] \in Meta /\ items'[i] = meta[i]
  BY DEF Present
<1>3. \A i \in Id : acked'[i] # Nil =>
        /\ Holds(i, acked[i])'
        /\ meta'[i] \in Meta => meta'[i].sum # Nil
        /\ Present(i)' => items'[i].sum # Nil
  BY <1>1, <1>2 DEF ValueOK
<1>4. \A i \in Id : Present(i)' \/ meta'[i] \in Meta \/ acked'[i] # Nil => i \in born'
  BY <1>2 DEF ValueOK
<1>. QED BY <1>3, <1>4 DEF ValueOK

(* The same where nothing but the control state changes. *)
LEMMA ValueSame ==
  ASSUME ValueOK, UNCHANGED <<meta, val, bak, items, acked, born>>,
         pc' \notin {"value", "meta", "delval"}
  PROVE  ValueOK'
BY ValueFrame

(* A process that dies forgets its map and touches no value. *)
LEMMA ValueDied ==
  ASSUME ValueOK, UNCHANGED <<val, bak, acked>>, born \subseteq born',
         \A i \in Id : meta'[i] \in Meta => meta'[i] = meta[i],
         NEW op, NEW how, Die(op, how)
  PROVE  ValueOK'
BY ValueFrame DEF Die, Forget, Answer

LEMMA UnlockValue ==
  ASSUME TypeOK, PhaseOK, ValueOK, NEW p \in Pass,
         UnlockFirst(p) \/ UnlockExisting(p) \/ UnlockRejected(p)
  PROVE  ValueOK'
<1>1. CASE UnlockFirst(p)
  <2>1. CASE Die("unlock", "crash")
    BY <1>1, <2>1, ValueDied DEF UnlockFirst, history
  <2>2. CASE UNCHANGED items /\ pc' \in {"upgrade", "idle"}
    BY <1>1, <2>2, ValueSame DEF UnlockFirst, history
  <2>. QED BY <1>1, <2>1, <2>2 DEF UnlockFirst, Begin, Answer
<1>2. CASE UnlockExisting(p)
  BY <1>2, ValueSame DEF UnlockExisting, Begin, files, history
<1>3. CASE UnlockRejected(p)
  BY <1>3, ValueSame DEF UnlockRejected, Answer, files, memory, history
<1>. QED BY <1>1, <1>2, <1>3

LEMMA SimpleCallValue ==
  ASSUME ValueOK,
         UnlockAgain \/ Lock \/ Refused \/ (\E p \in Pass : VerifyPassphrase(p))
  PROVE  ValueOK'
BY ValueFrame
DEF UnlockAgain, Lock, Refused, VerifyPassphrase, Forget, Answer, files, memory,
    history

LEMMA UpgradeValue ==
  ASSUME TypeOK, ValueOK, UpgradeRecovery \/ UpgradeVersion \/ LoadItems
  PROVE  ValueOK'
<1>0. UNCHANGED <<meta, val, bak, acked, born>>
  BY DEF UpgradeRecovery, UpgradeVersion, LoadItems, files, history
<1>1. CASE Return("err") \/ Goto("version") \/ Goto("load")
  BY <1>0, <1>1, ValueSame DEF Return, Answer, Goto, memory
<1>2. CASE Die(job.op, "crash") \/ Die(job.op, "panic")
  BY <1>0, <1>2, ValueDied
<1>3. CASE Answer(job.op, "err") /\ Forget
  BY <1>0, <1>3, ValueFrame DEF Answer, Forget
<1>4. ASSUME NEW missed, items' = Listed(missed), Answer(job.op, "ok")
      PROVE  ValueOK'
  <2>1. \A i \in Id : items'[i] = Nil \/ (items'[i] = meta[i] /\ meta[i] \in Meta)
    BY <1>4 DEF Listed
  <2>. QED BY <1>0, <1>4, <2>1, ValueFrame DEF Answer
<1>. QED BY <1>1, <1>2, <1>3, <1>4 DEF UpgradeRecovery, UpgradeVersion, LoadItems

(* A new item has no value yet, and its id has none from before. *)
LEMMA CreateValue ==
  ASSUME TypeOK, PhaseOK, ValueOK, NEW i \in Id, CreateItem(i)
  PROVE  ValueOK'
<1>0. /\ acked[i] = Nil /\ i \in born' /\ born \subseteq born' /\ pc' = "idle"
      /\ UNCHANGED <<val, bak, acked>>
  BY DEF CreateItem, ValueOK, Answer, Die
<1>1. \A k \in Id \ {i} : meta'[k] = meta[k]
  BY DEF CreateItem, TypeOK, FilesTypeOK
<1>2. \A k \in Id \ {i} : items'[k] \in {items[k], Nil}
  BY DEF CreateItem, MapWith, Die, Forget, memory, TypeOK, MemoryTypeOK
<1>3. \A k \in Id : Holds(k, acked[k])' <=> Holds(k, acked[k])
  BY <1>0 DEF Holds
<1>. QED BY <1>0, <1>1, <1>2, <1>3 DEF ValueOK, Present

(* The value of an accepted item is backed up before it is overwritten. *)
LEMMA SetValue ==
  ASSUME TypeOK, PhaseOK, ValueOK, NEW i \in Id, NEW v \in Value, SetItemValue(i, v)
  PROVE  ValueOK'
<1>0. UNCHANGED <<meta, val, bak, acked, born>>
  BY DEF SetItemValue, files, history
<1>1. CASE Answer("set", "err") /\ UNCHANGED memory
  BY <1>0, <1>1, ValueSame DEF Answer, memory
<1>2. CASE Die("set", "fatal")
  BY <1>0, <1>2, ValueDied
<1>. DEFINE j == [NoJob EXCEPT !.op = "set", !.id = i, !.value = v]
<1>3. CASE Present(i) /\ Start(j, IF NeedsBackup(items[i]) THEN "backup" ELSE "value")
  <2>1. j.id = i
    BY DEF NoJob
  <2>. HIDE DEF j
  <2>2. CASE NeedsBackup(items[i])
    BY <1>0, <1>3, <2>2, ValueSame DEF Start, Begin, memory
  <2>3. CASE ~NeedsBackup(items[i])
    <3>1. /\ pc' = "value" /\ job' = j /\ items' = items
      BY <1>3, <2>3 DEF Start, Begin, memory
    <3>2. acked[i] = Nil
      BY <1>3, <2>3 DEF NeedsBackup, ValueOK
    <3>3. \A k \in Id : Holds(k, acked[k])' <=> Holds(k, acked[k])
      BY <1>0 DEF Holds
    <3>. QED BY <1>0, <2>1, <3>1, <3>2, <3>3 DEF ValueOK, Present
  <2>. QED BY <2>2, <2>3
<1>. QED BY <1>1, <1>2, <1>3 DEF SetItemValue

LEMMA GiveUpValue ==
  ASSUME ValueOK, GiveUp, UNCHANGED <<acked, born>>,
         \A i \in Id : Holds(i, acked[i]) => Holds(i, acked[i])',
         \A i \in Id : meta'[i] \in Meta => meta'[i] = meta[i]
  PROVE  ValueOK'
<1>1. items' = items /\ pc' \in {"idle", "reencrypt"}
  BY DEF GiveUp, Return, Answer, Goto, memory
<1>. QED BY <1>1 DEF ValueOK, Present

LEMMA BackupValue ==
  ASSUME TypeOK, PhaseOK, ValueOK, Backup
  PROVE  ValueOK'
<1>0. /\ pc = "backup" /\ job.id \in Id
      /\ UNCHANGED <<meta, val, acked, born>>
      /\ \A i \in Id : bak[i] \subseteq bak'[i]
  BY DEF Backup, PhaseOK, Writing, history, TypeOK, FilesTypeOK
<1>1. \A i \in Id : Holds(i, acked[i]) => Holds(i, acked[i])'
  BY <1>0 DEF Holds
<1>2. CASE GiveUp
  BY <1>0, <1>1, <1>2, GiveUpValue
<1>3. CASE Die(job.op, "crash")
  BY <1>0, <1>1, <1>3 DEF Die, Forget, Answer, ValueOK, Present
<1>4. CASE Goto("value") /\ bak' = [bak EXCEPT ![job.id] = @ \cup {val[job.id]}]
  <2>1. val[job.id] \in bak'[job.id] /\ bak[job.id] \subseteq bak'[job.id]
    BY <1>0, <1>4 DEF TypeOK, FilesTypeOK
  <2>2. acked[job.id] # Nil => BackedUp(job.id, acked[job.id])'
    BY <1>0, <1>4, <2>1 DEF ValueOK, Holds, BackedUp, Goto
  <2>. QED BY <1>0, <1>1, <1>4, <2>2 DEF Goto, memory, ValueOK, Present
<1>. QED BY <1>2, <1>3, <1>4 DEF Backup, Left

(* The value file is overwritten only where the accepted value is backed up. *)
LEMMA WriteValueValue ==
  ASSUME TypeOK, PhaseOK, ValueOK, WriteValue
  PROVE  ValueOK'
<1>0. /\ pc = "value" /\ job.id \in Id
      /\ UNCHANGED <<meta, bak, acked, born>>
      /\ \A i \in Id \ {job.id} : val'[i] = val[i]
  BY DEF WriteValue, PhaseOK, Writing, history, TypeOK, FilesTypeOK
<1>1. acked[job.id] # Nil => BackedUp(job.id, acked[job.id])
  BY <1>0 DEF ValueOK
<1>2. \A i \in Id : acked[i] # Nil => Holds(i, acked[i])'
  BY <1>0, <1>1 DEF Holds, BackedUp, ValueOK
<1>3. CASE GiveUp
  <2>1. items' = items /\ pc' \in {"idle", "reencrypt"}
    BY <1>3 DEF GiveUp, Return, Answer, Goto, memory
  <2>. QED BY <1>0, <1>2, <2>1 DEF ValueOK, Present
<1>4. CASE Die(job.op, "crash")
  BY <1>0, <1>2, <1>4 DEF Die, Forget, Answer, ValueOK, Present
<1>5. CASE Goto("meta") /\ val' = [val EXCEPT ![job.id] =
                               [val |-> job.value, rec |-> LoadedRecipient]]
  <2>1. /\ pc' = "meta" /\ UNCHANGED <<job, items>>
    BY <1>5 DEF Goto, memory
  <2>2. val'[job.id] \in Cipher /\ val'[job.id].val = job.value
    BY <1>0, <1>5, LoadedType DEF TypeOK, FilesTypeOK, PhaseOK, Writing, Cipher
  <2>3. acked[job.id] # Nil => BackedUp(job.id, acked[job.id])'
    BY <1>0, <1>1, <2>1 DEF BackedUp
  <2>. QED BY <1>0, <1>2, <2>1, <2>2, <2>3 DEF ValueOK, Present
<1>. QED BY <1>3, <1>4, <1>5 DEF WriteValue, Left

(* The metadata is written when the value file holds what it names. *)
LEMMA WriteMetaValue ==
  ASSUME TypeOK, PhaseOK, ValueOK, WriteMeta
  PROVE  ValueOK'
<1>0. /\ pc = "meta" /\ job.id \in Id /\ job.id \in born
      /\ job.value \in Value
      /\ Written \in Meta /\ Written.sum = job.value
      /\ UNCHANGED <<val, bak, born>>
  BY WrittenType, Marks
  DEF WriteMeta, PhaseOK, Writing, ValueOK, WorkItem, Present
<1>1. \A i \in Id \ {job.id} : meta'[i] = meta[i] /\ acked'[i] = acked[i]
  BY <1>0 DEF WriteMeta, Stored, TypeOK, FilesTypeOK, HistoryTypeOK
<1>2. meta'[job.id] \in {meta[job.id], Written, Short, Garbled}
  BY <1>0 DEF WriteMeta, Left, TornMeta, TypeOK, FilesTypeOK
<1>3. acked'[job.id] \in {acked[job.id], job.value}
  BY <1>0 DEF WriteMeta, Stored, TypeOK, HistoryTypeOK
<1>4. \A i \in Id : acked'[i] # Nil => Holds(i, acked'[i])
  BY <1>0, <1>1, <1>3 DEF ValueOK, Holds
<1>5. \A i \in Id : acked'[i] # Nil => Holds(i, acked[i])'
  BY <1>0, <1>4 DEF Holds
<1>6. pc' \in {"idle", "reencrypt"}
  BY DEF WriteMeta, Stored, GiveUp, Return, Answer, Goto, Die
<1>7. CASE /\ items' = MapWith(job.id, Written) /\ meta'[job.id] = Written
  <2>1. items'[job.id] = Written /\ \A i \in Id \ {job.id} : items'[i] = items[i]
    BY <1>0, <1>7 DEF MapWith, TypeOK, MemoryTypeOK
  <2>. QED BY <1>0, <1>1, <1>5, <1>6, <1>7, <2>1, Marks DEF ValueOK, Present
<1>8. CASE acked' = acked /\ \A i \in Id : items'[i] \in {items[i], Nil}
  BY <1>0, <1>1, <1>2, <1>5, <1>6, <1>8, Marks DEF ValueOK, Present
<1>9. CASE Forget /\ meta'[job.id] = Written
  BY <1>0, <1>1, <1>5, <1>6, <1>9, Marks DEF ValueOK, Present, Forget
<1>. QED
  <2>1. CASE GiveUp /\ UNCHANGED acked
    BY <1>8, <2>1 DEF GiveUp, Return, Goto, memory
  <2>2. CASE Die(job.op, "crash") /\ UNCHANGED acked
    BY <1>8, <2>2 DEF Die, Forget
  <2>3. CASE Stored /\ meta' = [meta EXCEPT ![job.id] = Written]
    <3>1. meta'[job.id] = Written
      BY <1>0, <2>3 DEF TypeOK, FilesTypeOK
    <3>. QED BY <1>7, <1>9, <2>3, <3>1 DEF Stored, Die
  <2>. QED BY <2>1, <2>2, <2>3 DEF WriteMeta, Left

LEMMA RecoverValue ==
  ASSUME ValueOK,
         \/ \E r \in Recipient : SetRecoveryRecipient(r)
         \/ WriteRecovery \/ WriteRecoverySum \/ UndoRecovery \/ RestoreRecovery
         \/ ListForRecovery \/ FinishRecovery
  PROVE  ValueOK'
<1>0. UNCHANGED <<meta, val, bak, acked, born>>
  BY DEF SetRecoveryRecipient, WriteRecovery, WriteRecoverySum, UndoRecovery,
         RestoreRecovery, ListForRecovery, FinishRecovery, files, history
<1>1. CASE \E op, how : Die(op, how)
  BY <1>0, <1>1, ValueDied
<1>2. CASE UNCHANGED memory /\ pc' \notin {"value", "meta", "delval"}
  BY <1>0, <1>2, ValueSame DEF memory
<1>. QED BY <1>1, <1>2
         DEF SetRecoveryRecipient, WriteRecovery, WriteRecoverySum, UndoRecovery,
             RestoreRecovery, ListForRecovery, FinishRecovery, Return, Answer,
             Goto, Start, Begin

(* A value that can be read has a sum and so is always backed up. *)
LEMMA ReencryptValue ==
  ASSUME TypeOK, PhaseOK, ValueOK, NEW i \in Id, Reencrypt(i)
  PROVE  ValueOK'
<1>0. /\ job.op = "recover" /\ meta[i] \in Meta
      /\ UNCHANGED <<meta, val, bak, acked, born>>
  BY DEF Reencrypt, PhaseOK, files, history
<1>1. CASE Die(job.op, "fatal")
  BY <1>0, <1>1, ValueDied
<1>2. CASE UNCHANGED memory /\ pc' \in {"reencrypt", "backup"}
  BY <1>0, <1>2, ValueSame DEF memory
<1>3. "ok" \in ReadResults(meta[i], val[i]) => NeedsBackup(meta[i])
  BY <1>0, ReadOk, Marks DEF NeedsBackup
<1>. QED BY <1>1, <1>2, <1>3 DEF Reencrypt, Start, Begin

(* A deleted item is no longer promised. *)
LEMMA DeleteValueOK ==
  ASSUME TypeOK, PhaseOK, ValueOK, (\E i \in Id : DeleteItem(i)) \/ DeleteValue
  PROVE  ValueOK'
<1>1. ASSUME NEW i \in Id, DeleteItem(i) PROVE ValueOK'
  <2>1. CASE Answer("delete", "ok") /\ UNCHANGED <<memory, meta, acked>>
    BY <1>1, <2>1, ValueSame DEF Answer, memory, DeleteItem
  <2>2. CASE Present(i) /\ acked' = [acked EXCEPT ![i] = Nil]
    <3>1. /\ acked'[i] = Nil /\ \A k \in Id \ {i} : acked'[k] = acked[k]
          /\ UNCHANGED <<val, bak, born>>
      BY <1>1, <2>2 DEF TypeOK, HistoryTypeOK, DeleteItem
    <3>2. /\ meta'[i] \in {meta[i], Nil}
          /\ \A k \in Id \ {i} : meta'[k] = meta[k]
      BY <1>1, <2>2 DEF DeleteItem, MetaRemoved, Left, TypeOK, FilesTypeOK
    <3>3. /\ \A k \in Id : items'[k] \in {items[k], Nil}
          /\ pc' = "idle" \/ (pc' = "delval" /\ job'.id = i)
      BY <1>1, <2>2 DEF DeleteItem, Die, Forget, Answer, Begin, NoJob, TypeOK,
                        MemoryTypeOK, Present
    <3>4. \A k \in Id : acked'[k] # Nil => Holds(k, acked[k])'
      BY <3>1 DEF ValueOK, Holds
    <3>. QED BY <3>1, <3>2, <3>3, <3>4, Marks DEF ValueOK, Present
  <2>. QED BY <1>1, <2>1, <2>2 DEF DeleteItem
<1>2. CASE DeleteValue
  <2>1. /\ job.id \in Id /\ acked[job.id] = Nil /\ pc' = "idle"
        /\ UNCHANGED <<meta, bak, acked, born>>
        /\ \A k \in Id : items'[k] \in {items[k], Nil}
    BY <1>2 DEF DeleteValue, PhaseOK, ValueOK, Return, Answer, Die, Forget, memory
  <2>2. \A k \in Id \ {job.id} : val'[k] = val[k]
    BY <1>2, <2>1 DEF DeleteValue, TypeOK, FilesTypeOK
  <2>3. \A k \in Id : acked'[k] # Nil => Holds(k, acked[k])'
    BY <2>1, <2>2 DEF ValueOK, Holds
  <2>. QED BY <2>1, <2>3 DEF ValueOK, Present
<1>. QED BY <1>1, <1>2

(* Reading changes no value; binding an item to a peer keeps its sum. *)
LEMMA ReadValueOK ==
  ASSUME TypeOK, ValueOK, (\E i \in Id : GetItem(i)) \/ ReadValue \/ Crash
  PROVE  ValueOK'
<1>0. UNCHANGED <<meta, val, bak, acked, born>>
  BY DEF GetItem, ReadValue, Crash, files, history
<1>1. CASE \E op, how : Die(op, how)
  BY <1>0, <1>1, ValueDied
<1>2. CASE UNCHANGED memory /\ pc' \in {"idle", "read"}
  BY <1>0, <1>2, ValueSame DEF memory
<1>. QED BY <1>1, <1>2 DEF GetItem, ReadValue, Crash, Return, Answer, Start, Begin

LEMMA GetForPeerValue ==
  ASSUME TypeOK, PhaseOK, ValueOK, NEW i \in Id, NEW p \in Peer, GetItemForPeer(i, p)
  PROVE  ValueOK'
<1>. DEFINE new == [items[i] EXCEPT !.peer = p]
<1>0. /\ UNCHANGED <<val, bak, acked, born>> /\ pc' \in {"idle", "read"}
  BY DEF GetItemForPeer, Answer, Start, Begin, Die
<1>1. CASE UNCHANGED <<memory, meta>>
  BY <1>0, <1>1, ValueSame DEF memory
<1>2. CASE /\ Present(i)
           /\ \E r \in Outcomes : \E m \in Left(meta[i], new, TornMeta, r) :
                meta' = [meta EXCEPT ![i] = m]
           /\ \/ items' = MapWith(i, new)
              \/ Forget
              \/ UNCHANGED memory
  <2>1. /\ new \in Meta /\ new.sum = items[i].sum /\ i \in born
    BY <1>2, BoundType DEF ValueOK
  <2>. HIDE DEF new
  <2>2. /\ meta'[i] \in {meta[i], new, Short, Garbled}
        /\ \A k \in Id \ {i} : meta'[k] = meta[k]
    BY <1>2 DEF Left, TornMeta, TypeOK, FilesTypeOK
  <2>3. \A k \in Id : acked'[k] # Nil => Holds(k, acked[k])'
    BY <1>0 DEF ValueOK, Holds
  <2>4. \A k \in Id : \/ items'[k] \in {items[k], Nil}
                      \/ k = i /\ items'[k] = new
    BY <1>2 DEF MapWith, Forget, memory, TypeOK, MemoryTypeOK
  <2>. QED BY <1>0, <1>2, <2>1, <2>2, <2>3, <2>4, Marks DEF ValueOK, Present
<1>. QED BY <1>1, <1>2 DEF GetItemForPeer, Start, Die

(* Every step keeps the accepted values. *)
LEMMA ValueStep ==
  ASSUME TypeOK, PhaseOK, ValueOK, [Next]_vars
  PROVE  ValueOK'
<1>1. CASE Call
  BY <1>1, UnlockValue, SimpleCallValue, CreateValue, DeleteValueOK, ReadValueOK,
     SetValue, GetForPeerValue, RecoverValue DEF Call
<1>2. CASE Progress
  BY <1>2, UpgradeValue, BackupValue, WriteValueValue, WriteMetaValue,
     RecoverValue, ReencryptValue, DeleteValueOK, ReadValueOK DEF Progress
<1>3. CASE UNCHANGED vars
  BY <1>3 DEF vars, files, memory, control, history, ValueOK, Present, Holds,
              BackedUp
<1>. QED BY <1>1, <1>2, <1>3, ReadValueOK DEF Next

(* Whatever fails or crashes, the last value accepted for an item stays on disk
   until the item is deleted. *)
THEOREM NoValueIsLost == Spec => []NoValueLost
<1>1. Init => ValueOK
  BY Marks DEF Init, ValueOK, Present
<1>2. TypeOK /\ PhaseOK /\ ValueOK /\ [Next]_vars => ValueOK'
  BY ValueStep
<1>3. ValueOK => NoValueLost
  BY DEF ValueOK, NoValueLost
<1>. QED BY <1>1, <1>2, <1>3, TypeCorrect, PTL DEF Spec

-----------------------------------------------------------------------------
(* An item stays bound to its first peer *)

(* Copies of an item's metadata that a step leaves behind were copies before,
   with their peer, or copies of an item that is not bound. *)
CopyOf(m, i) ==
  \/ bound[i] = Nil
  \/ meta[i] \in Meta /\ m.peer = meta[i].peer
  \/ Present(i) /\ m.peer = items[i].peer

LEMMA PeerFrame ==
  ASSUME PeerOK, UNCHANGED bound, born \subseteq born',
         \A i \in Id : meta'[i] \in Meta => CopyOf(meta'[i], i),
         \A i \in Id : items'[i] # Nil => CopyOf(items'[i], i)
  PROVE  PeerOK'
BY DEF PeerOK, PeerBindingDurable, CopyOf, Present

(* Steps that write no metadata and only fill or empty the map. *)
LEMMA PeerSame ==
  ASSUME PeerOK, UNCHANGED <<meta, bound, born>>,
         \A i \in Id : \/ items'[i] \in {items[i], Nil}
                       \/ items'[i] = meta[i] /\ meta[i] \in Meta
  PROVE  PeerOK'
BY PeerFrame DEF CopyOf, Present

LEMMA OtherPeer ==
  ASSUME PeerOK,
         \/ \E p \in Pass : \/ UnlockFirst(p) \/ UnlockExisting(p)
                            \/ UnlockRejected(p) \/ VerifyPassphrase(p)
         \/ UnlockAgain \/ Lock \/ Refused
         \/ UpgradeRecovery \/ UpgradeVersion
  PROVE  PeerOK'
<1>1. UNCHANGED <<meta, bound, born>>
  BY DEF UnlockFirst, UnlockExisting, UnlockRejected, VerifyPassphrase,
         UnlockAgain, Lock, Refused, UpgradeRecovery, UpgradeVersion, files, history
<1>2. items' = items \/ Forget
  BY DEF UnlockFirst, UnlockExisting, UnlockRejected, VerifyPassphrase,
         UnlockAgain, Lock, Refused, UpgradeRecovery, UpgradeVersion, memory,
         Return, Goto, Die
<1>. QED BY <1>1, <1>2, PeerSame DEF Forget

LEMMA LoadPeer ==
  ASSUME PeerOK, LoadItems
  PROVE  PeerOK'
<1>1. UNCHANGED <<meta, bound, born>>
  BY DEF LoadItems, files, history
<1>2. \A i \in Id : \/ items'[i] \in {items[i], Nil}
                    \/ items'[i] = meta[i] /\ meta[i] \in Meta
  BY DEF LoadItems, Listed, Die, Forget
<1>. QED BY <1>1, <1>2, PeerSame

LEMMA QuietPeer ==
  ASSUME PeerOK,
         \/ \E i \in Id, v \in Value : SetItemValue(i, v)
         \/ \E i \in Id : GetItem(i) \/ Reencrypt(i)
         \/ \E r \in Recipient : SetRecoveryRecipient(r)
         \/ Backup \/ WriteValue
         \/ WriteRecovery \/ WriteRecoverySum \/ UndoRecovery \/ RestoreRecovery
         \/ ListForRecovery \/ FinishRecovery
         \/ DeleteValue \/ ReadValue \/ Crash
  PROVE  PeerOK'
<1>1. UNCHANGED <<meta, bound, born>>
  BY DEF SetItemValue, GetItem, Reencrypt, SetRecoveryRecipient, Backup,
         WriteValue, WriteRecovery, WriteRecoverySum, UndoRecovery,
         RestoreRecovery, ListForRecovery, FinishRecovery, DeleteValue,
         ReadValue, Crash, files, history
<1>2. items' = items \/ Forget
  BY DEF SetItemValue, GetItem, Reencrypt, SetRecoveryRecipient, Backup,
         WriteValue, WriteRecovery, WriteRecoverySum, UndoRecovery,
         RestoreRecovery, ListForRecovery, FinishRecovery, DeleteValue,
         ReadValue, Crash, Return, Goto, Start, Die, GiveUp, memory
<1>. QED BY <1>1, <1>2, PeerSame DEF Forget

(* A new item cannot have been bound before. *)
LEMMA CreatePeer ==
  ASSUME TypeOK, PeerOK, NEW i \in Id, CreateItem(i)
  PROVE  PeerOK'
<1>1. bound[i] = Nil /\ UNCHANGED bound /\ born \subseteq born'
  BY DEF CreateItem, PeerOK
<1>2. \A k \in Id \ {i} : meta'[k] = meta[k] /\ items'[k] \in {items[k], Nil}
  BY DEF CreateItem, MapWith, Die, Forget, memory, TypeOK, FilesTypeOK, MemoryTypeOK
<1>. QED BY <1>1, <1>2, PeerFrame DEF CopyOf, Present

(* Writing a value writes back the peer of the working copy. *)
LEMMA WriteMetaPeer ==
  ASSUME TypeOK, PhaseOK, PeerOK, WriteMeta
  PROVE  PeerOK'
<1>0. /\ job.id \in Id /\ Written \in Meta /\ CopyOf(Written, job.id)
      /\ UNCHANGED <<bound, born>>
  BY WrittenType, Marks
  DEF WriteMeta, PhaseOK, Writing, WorkItem, CopyOf, Present
<1>1. /\ meta'[job.id] \in {meta[job.id], Written, Short, Garbled}
      /\ \A i \in Id \ {job.id} : meta'[i] = meta[i]
  BY <1>0 DEF WriteMeta, Left, TornMeta, TypeOK, FilesTypeOK
<1>2. /\ items'[job.id] \in {items[job.id], Written, Nil}
      /\ \A i \in Id \ {job.id} : items'[i] \in {items[i], Nil}
  BY <1>0 DEF WriteMeta, Stored, MapWith, GiveUp, Return, Goto, Die, Forget,
              memory, TypeOK, MemoryTypeOK
<1>3. \A i \in Id : meta'[i] \in Meta => CopyOf(meta'[i], i)
  BY <1>0, <1>1, Marks DEF CopyOf
<1>4. \A i \in Id : items'[i] # Nil => CopyOf(items'[i], i)
  BY <1>0, <1>2 DEF CopyOf, Present
<1>. QED BY <1>0, <1>3, <1>4, PeerFrame

(* A deleted item is no longer bound. *)
LEMMA DeletePeer ==
  ASSUME TypeOK, PeerOK, NEW i \in Id, DeleteItem(i)
  PROVE  PeerOK'
<1>0. UNCHANGED born
  BY DEF DeleteItem
<1>1. CASE UNCHANGED <<memory, meta, bound>>
  BY <1>0, <1>1, PeerSame DEF memory
<1>2. CASE /\ bound' = [bound EXCEPT ![i] = Nil]
           /\ \E r \in Outcomes : \E m \in MetaRemoved(i, r) :
                meta' = [meta EXCEPT ![i] = m]
           /\ items' = [items EXCEPT ![i] = Nil] \/ Forget
  <2>1. bound'[i] = Nil /\ \A k \in Id \ {i} : bound'[k] = bound[k]
    BY <1>2 DEF TypeOK, HistoryTypeOK
  <2>2. \A k \in Id \ {i} : meta'[k] = meta[k] /\ items'[k] \in {items[k], Nil}
    BY <1>2 DEF Forget, TypeOK, FilesTypeOK, MemoryTypeOK
  <2>. QED BY <1>0, <2>1, <2>2 DEF PeerOK, PeerBindingDurable, Present
<1>. QED BY <1>1, <1>2 DEF DeleteItem, Die

(* Only an unbound item is bound, on disk before it is in the map. *)
LEMMA GetForPeerPeer ==
  ASSUME TypeOK, ValueOK, PeerOK, NEW i \in Id, NEW p \in Peer, GetItemForPeer(i, p)
  PROVE  PeerOK'
<1>. DEFINE new == [items[i] EXCEPT !.peer = p]
<1>0. UNCHANGED born
  BY DEF GetItemForPeer
<1>1. CASE UNCHANGED <<memory, meta, bound>>
  BY <1>0, <1>1, PeerSame DEF memory
<1>2. CASE /\ Present(i) /\ items[i].peer = Nil
           /\ \E r \in Outcomes :
                /\ \E m \in Left(meta[i], new, TornMeta, r) :
                     meta' = [meta EXCEPT ![i] = m]
                /\ \/ /\ r = "ok" /\ items' = MapWith(i, new)
                      /\ bound' = [bound EXCEPT ![i] = p]
                   \/ (Forget \/ UNCHANGED memory) /\ UNCHANGED bound
  <2>0. bound[i] = Nil /\ i \in born /\ new \in Meta /\ new.peer = p
    BY <1>2, BoundType DEF PeerOK, PeerBindingDurable, ValueOK
  <2>. HIDE DEF new
  <2>1. \A k \in Id \ {i} : meta'[k] = meta[k]
    BY <1>2 DEF TypeOK, FilesTypeOK
  <2>2. \A k \in Id \ {i} : items'[k] \in {items[k], Nil} /\ bound'[k] = bound[k]
    BY <1>2 DEF MapWith, Forget, memory, TypeOK, MemoryTypeOK, HistoryTypeOK
  <2>3. \/ bound'[i] = Nil
        \/ bound'[i] = p /\ items'[i] = new /\ meta'[i] = new
    BY <1>2, <2>0 DEF MapWith, Left, TypeOK, FilesTypeOK, MemoryTypeOK, HistoryTypeOK
  <2>. QED BY <1>0, <2>0, <2>1, <2>2, <2>3 DEF PeerOK, PeerBindingDurable, Present
<1>. QED BY <1>1, <1>2 DEF GetItemForPeer, Start, Die

LEMMA PeerStep ==
  ASSUME TypeOK, PhaseOK, ValueOK, PeerOK, [Next]_vars
  PROVE  PeerOK'
<1>1. CASE Call
  BY <1>1, OtherPeer, QuietPeer, CreatePeer, DeletePeer, GetForPeerPeer DEF Call
<1>2. CASE Progress
  BY <1>2, OtherPeer, LoadPeer, QuietPeer, WriteMetaPeer DEF Progress
<1>3. CASE UNCHANGED vars
  BY <1>3 DEF vars, files, memory, history, PeerOK, PeerBindingDurable, Present
<1>. QED BY <1>1, <1>2, <1>3, QuietPeer DEF Next

(* Whatever fails or crashes, an item handed to a peer names that peer in the
   map and in every metadata file that verifies, until it is deleted. *)
THEOREM PeerStaysBound == Spec => []PeerBindingDurable
<1>1. Init => ValueOK /\ PeerOK
  BY Marks DEF Init, ValueOK, PeerOK, PeerBindingDurable, Present
<1>2. TypeOK /\ PhaseOK /\ ValueOK /\ PeerOK /\ [Next]_vars => (ValueOK /\ PeerOK)'
  BY ValueStep, PeerStep
<1>3. PeerOK => PeerBindingDurable
  BY DEF PeerOK
<1>. QED BY <1>1, <1>2, <1>3, TypeCorrect, PTL DEF Spec

-----------------------------------------------------------------------------
(* Changing the recovery recipient *)

(* SetRecoveryRecipient answers from three places, and each leaves a recipient
   in force when one was: the old one written back, or the new one. *)
LEMMA RecoveryAnswer ==
  ASSUME TypeOK, PhaseOK, [Next]_vars, job.op = "recover", job.old # Nil,
         Idle', reply'.res \in {"ok", "err"}, ~Idle
  PROVE  LoadedRecipient' \in {job.old, job.new}
<1>0. job.old \in Recipient /\ job \in Jobs
  BY DEF TypeOK, ControlTypeOK, Jobs
<1>1. CASE WriteRecoverySum
  <2>1. job.tries > 0 /\ recoverySum' = Target /\ recovery' = recovery
    BY <1>1, <1>0 DEF WriteRecoverySum, Left, Goto, Idle, Die, Answer, Jobs
  <2>2. Target = job.old /\ recovery = Target
    BY <1>1, <2>1, <1>0 DEF Target, PhaseOK, WriteRecoverySum, Jobs
  <2>. QED BY <1>0, <2>1, <2>2, Marks DEF LoadedRecipient
<1>2. CASE ListForRecovery \/ FinishRecovery \/ \E i \in Id : Reencrypt(i)
  <2>1. LoadedRecipient = job.new /\ UNCHANGED files
    BY <1>2 DEF ListForRecovery, FinishRecovery, Reencrypt, PhaseOK
  <2>. QED BY <2>1 DEF LoadedRecipient, files
<1>3. CASE Backup \/ WriteValue \/ WriteMeta
  <2>1. /\ Writing /\ UNCHANGED <<recovery, recoverySum>>
    BY <1>3 DEF Backup, WriteValue, WriteMeta, Writing
  <2>. QED BY <2>1 DEF LoadedRecipient, PhaseOK
<1>4. CASE WriteRecovery \/ UndoRecovery \/ RestoreRecovery \/ Crash
  <2>1. reply'.res \notin {"ok", "err"} \/ ~Idle'
    BY <1>4 DEF WriteRecovery, UndoRecovery, RestoreRecovery, Crash, Goto, Die,
                Start, Begin, Answer, Idle
  <2>. QED BY <2>1
<1>5. CASE UpgradeRecovery \/ UpgradeVersion \/ LoadItems \/ DeleteValue \/ ReadValue
  BY <1>5 DEF UpgradeRecovery, UpgradeVersion, LoadItems, DeleteValue, ReadValue,
              PhaseOK, Unlocking, Idle
<1>6. ~Call
  BY DEF Call, Idle, UnlockFirst, UnlockExisting, UnlockRejected,
         VerifyPassphrase, UnlockAgain, Lock, Refused, CreateItem, DeleteItem,
         GetItem, SetItemValue, GetItemForPeer, SetRecoveryRecipient
<1>7. CASE UNCHANGED vars
  BY <1>7 DEF vars, control, Idle
<1>. QED BY <1>1, <1>2, <1>3, <1>4, <1>5, <1>6, <1>7 DEF Next, Progress

(* A SetRecoveryRecipient that answers, well or not, leaves the old recipient
   or the new one in force where there was an old one. *)
THEOREM RecoveryStaysInForce == Spec => RecoveryChangeAtomic
<1>1. TypeOK /\ PhaseOK /\ [Next]_vars =>
        [job.op = "recover" /\ job.old # Nil /\ Idle' /\ reply'.res \in {"ok", "err"}
           => LoadedRecipient' \in {job.old, job.new}]_vars
  <2>. SUFFICES ASSUME TypeOK, PhaseOK, [Next]_vars, ~(UNCHANGED vars),
                       job.op = "recover", job.old # Nil, Idle',
                       reply'.res \in {"ok", "err"}
                PROVE  LoadedRecipient' \in {job.old, job.new}
    OBVIOUS
  <2>1. ~Idle
    BY DEF PhaseOK, Idle, NoJob
  <2>. QED BY <2>1, RecoveryAnswer
<1>. QED BY <1>1, TypeCorrect, PTL DEF Spec, RecoveryChangeAtomic

-----------------------------------------------------------------------------
(* An open vault, and what is left of it *)

(* Operations that write no metadata, and do not fill the map. *)
Quiet ==
  \/ \E p \in Pass : \/ UnlockFirst(p) \/ UnlockExisting(p)
                     \/ UnlockRejected(p) \/ VerifyPassphrase(p)
  \/ UnlockAgain \/ Lock \/ Refused
  \/ UpgradeRecovery \/ UpgradeVersion
  \/ \E i \in Id, v \in Value : SetItemValue(i, v)
  \/ \E i \in Id : GetItem(i) \/ Reencrypt(i)
  \/ \E r \in Recipient : SetRecoveryRecipient(r)
  \/ Backup \/ WriteValue
  \/ WriteRecovery \/ WriteRecoverySum \/ UndoRecovery \/ RestoreRecovery
  \/ ListForRecovery \/ FinishRecovery
  \/ DeleteValue \/ ReadValue \/ Crash

LEMMA QuietStep ==
  ASSUME Quiet
  PROVE  /\ UNCHANGED <<meta, born>>
         /\ \/ UNCHANGED <<items, loaded>>
            \/ Forget
<1>1. UNCHANGED <<meta, born>>
  BY DEF Quiet, UnlockFirst, UnlockExisting, UnlockRejected, VerifyPassphrase,
         UnlockAgain, Lock, Refused, UpgradeRecovery, UpgradeVersion,
         SetItemValue, GetItem, Reencrypt, SetRecoveryRecipient, Backup,
         WriteValue, WriteRecovery, WriteRecoverySum, UndoRecovery,
         RestoreRecovery, ListForRecovery, FinishRecovery, DeleteValue,
         ReadValue, Crash, files, history
<1>2. UNCHANGED <<items, loaded>> \/ Forget
  BY DEF Quiet, UnlockFirst, UnlockExisting, UnlockRejected, VerifyPassphrase,
         UnlockAgain, Lock, Refused, UpgradeRecovery, UpgradeVersion,
         SetItemValue, GetItem, Reencrypt, SetRecoveryRecipient, Backup,
         WriteValue, WriteRecovery, WriteRecoverySum, UndoRecovery,
         RestoreRecovery, ListForRecovery, FinishRecovery, DeleteValue,
         ReadValue, Crash, Return, Goto, Start, Die, GiveUp, memory
<1>. QED BY <1>1, <1>2

(* The steps that are left. *)
LEMMA NextCases ==
  ASSUME Next
  PROVE  \/ Quiet \/ LoadItems \/ WriteMeta
         \/ \E i \in Id : CreateItem(i) \/ DeleteItem(i)
         \/ \E i \in Id, p \in Peer : GetItemForPeer(i, p)
BY DEF Next, Call, Progress, Quiet

(* The operation that a step begins or ends. *)
LEMMA BegunOp ==
  ASSUME NEW op, NEW i, NEW v, NEW phase
  PROVE  /\ Begin([NoJob EXCEPT !.op = op], phase) => job'.op = op
         /\ Begin([NoJob EXCEPT !.op = op, !.id = i], phase) => job'.op = op
         /\ Begin([NoJob EXCEPT !.op = op, !.id = i, !.value = v], phase) => job'.op = op
BY DEF Begin, NoJob

LEMMA EndedOp ==
  ASSUME NEW op, NEW res
  PROVE  /\ Answer(op, res) => job'.op = "none"
         /\ Die(op, res) => job'.op = "none"
         /\ Return(res) => job'.op = "none"
BY DEF Answer, Die, Return, NoJob

(* Without a map there are no items, whoever is at work has the key, and an
   Unlock fills the map once. *)
OpenOK ==
  /\ ~loaded => items = [i \in Id |-> Nil]
  /\ ~Idle => ~Locked
  /\ Unlocking => ~loaded

LEMMA ForgottenOpen ==
  ASSUME Forget, pc' = "idle"
  PROVE  OpenOK'
BY DEF Forget, OpenOK, Idle, Unlocking

LEMMA DiedOpen ==
  ASSUME NEW op, NEW how, Die(op, how)
  PROVE  OpenOK'
BY ForgottenOpen DEF Die, Answer

LEMMA AnsweredOpen ==
  ASSUME OpenOK, NEW op, NEW res, Answer(op, res), UNCHANGED <<items, loaded>>
  PROVE  OpenOK'
BY DEF Answer, OpenOK, Idle, Unlocking

LEMMA FilledOpen ==
  ASSUME loaded', ~Idle' => ~Locked', ~Unlocking'
  PROVE  OpenOK'
BY DEF OpenOK

(* An operation goes on with the memory it had. *)
LEMMA SameOpen ==
  ASSUME OpenOK, UNCHANGED memory, Unlocking' => Unlocking, ~Idle' => ~Locked
  PROVE  OpenOK'
BY DEF OpenOK, memory, Locked

LEMMA UnlockOpen ==
  ASSUME PhaseOK, OpenOK, NEW p \in Pass,
         UnlockFirst(p) \/ UnlockExisting(p) \/ UnlockRejected(p)
  PROVE  OpenOK'
<1>0. ~loaded
  BY Marks DEF UnlockFirst, UnlockExisting, UnlockRejected, Locked, PhaseOK
<1>1. CASE \E j, phase : Begin(j, phase) /\ identityKey' = p /\ UNCHANGED <<items, loaded>>
  BY <1>0, <1>1, Marks DEF Begin, OpenOK, Locked
<1>. QED BY <1>1, DiedOpen, AnsweredOpen
         DEF UnlockFirst, UnlockExisting, UnlockRejected, memory

LEMMA QuietOpen ==
  ASSUME PhaseOK, OpenOK, Quiet
  PROVE  OpenOK'
<1>1. CASE \E p \in Pass : \/ UnlockFirst(p) \/ UnlockExisting(p)
                           \/ UnlockRejected(p) \/ VerifyPassphrase(p)
  BY <1>1, UnlockOpen, AnsweredOpen DEF VerifyPassphrase, memory
<1>2. CASE UnlockAgain \/ Lock \/ Refused
  BY <1>2, AnsweredOpen
  DEF UnlockAgain, Lock, Refused, memory, Forget, Answer, OpenOK, Idle, Unlocking
<1>3. CASE UpgradeRecovery \/ UpgradeVersion
  <2>1. Unlocking /\ ~Idle
    BY <1>3 DEF UpgradeRecovery, UpgradeVersion, Unlocking, Idle
  <2>2. CASE Goto("version") \/ Goto("load")
    BY <2>1, <2>2, SameOpen DEF Goto, OpenOK
  <2>. QED BY <1>3, <2>2, DiedOpen, AnsweredOpen
           DEF UpgradeRecovery, UpgradeVersion, Return, memory
<1>4. CASE \/ \E i \in Id, v \in Value : SetItemValue(i, v)
           \/ \E i \in Id : GetItem(i) \/ Reencrypt(i)
           \/ \E r \in Recipient : SetRecoveryRecipient(r)
           \/ Backup \/ WriteValue \/ WriteRecovery \/ WriteRecoverySum
           \/ UndoRecovery \/ RestoreRecovery \/ ListForRecovery
           \/ FinishRecovery \/ DeleteValue \/ ReadValue \/ Crash
  <2>1. pc' \notin {"upgrade", "version", "load"}
    BY <1>4 DEF SetItemValue, GetItem, Reencrypt, SetRecoveryRecipient, Backup,
       WriteValue, WriteRecovery, WriteRecoverySum, UndoRecovery,
       RestoreRecovery, ListForRecovery, FinishRecovery, DeleteValue, ReadValue,
       Crash, GiveUp, Return, Answer, Goto, Start, Begin, Die
  <2>2. UNCHANGED memory \/ (Forget /\ pc' = "idle")
    BY <1>4 DEF SetItemValue, GetItem, Reencrypt, SetRecoveryRecipient, Backup,
       WriteValue, WriteRecovery, WriteRecoverySum, UndoRecovery,
       RestoreRecovery, ListForRecovery, FinishRecovery, DeleteValue, ReadValue,
       Crash, GiveUp, Return, Answer, Goto, Start, Die
  <2>3. ~Locked \/ Crash
    BY <1>4 DEF SetItemValue, GetItem, Reencrypt, SetRecoveryRecipient, Backup,
       WriteValue, WriteRecovery, WriteRecoverySum, UndoRecovery,
       RestoreRecovery, ListForRecovery, FinishRecovery, DeleteValue, ReadValue,
       OpenOK, Idle
  <2>. QED BY <2>1, <2>2, <2>3, SameOpen, ForgottenOpen, DiedOpen
           DEF Unlocking, Crash
<1>. QED BY <1>1, <1>2, <1>3, <1>4 DEF Quiet

LEMMA LoadOpen ==
  ASSUME OpenOK, LoadItems
  PROVE  OpenOK'
<1>1. CASE Answer(job.op, "err") /\ Forget
  BY <1>1, DiedOpen DEF Die
<1>2. CASE Answer(job.op, "ok") /\ loaded'
  BY <1>2, FilledOpen DEF Answer, Idle, Unlocking
<1>. QED BY <1>1, <1>2, DiedOpen DEF LoadItems

(* An item is found in a map, so there is one. *)
LEMMA WriteOpen ==
  ASSUME TypeOK, PhaseOK, OpenOK,
         \/ WriteMeta
         \/ \E i \in Id : CreateItem(i) \/ DeleteItem(i)
         \/ \E i \in Id, p \in Peer : GetItemForPeer(i, p)
  PROVE  OpenOK'
<1>1. ~Locked
  BY DEF WriteMeta, CreateItem, DeleteItem, GetItemForPeer, OpenOK, Idle
<1>2. \A i \in Id : Present(i) => loaded
  BY DEF Present, OpenOK
<1>3. \A phase : Goto(phase) /\ phase = "reencrypt" => OpenOK'
  BY <1>1, SameOpen DEF Goto, Unlocking
<1>4. \A j : Start(j, "read") => OpenOK'
  BY <1>1, SameOpen DEF Start, Begin, Unlocking
<1>5. CASE WriteMeta
  <2>1. CASE loaded /\ UNCHANGED <<identityKey, loaded>>
             /\ (pc' = "idle" \/ pc' = "reencrypt")
    BY <1>1, <2>1, FilledOpen DEF Idle, Locked, Unlocking
  <2>2. \A op, res : Answer(op, res) => pc' = "idle"
    BY DEF Answer
  <2>. QED BY <1>3, <1>5, <2>1, <2>2, DiedOpen, AnsweredOpen
           DEF WriteMeta, Stored, GiveUp, Return, memory
<1>6. ASSUME NEW i \in Id, CreateItem(i) PROVE OpenOK'
  <2>1. CASE loaded /\ UNCHANGED <<identityKey, loaded>> /\ Answer("create", "ok")
    BY <1>1, <2>1, FilledOpen DEF Answer, Idle, Unlocking
  <2>. QED BY <1>6, <2>1, DiedOpen, AnsweredOpen DEF CreateItem, memory
<1>7. ASSUME NEW i \in Id, DeleteItem(i) PROVE OpenOK'
  <2>1. CASE Present(i) /\ UNCHANGED <<identityKey, loaded>>
             /\ Begin([NoJob EXCEPT !.op = "delete", !.id = i], "delval")
    BY <1>1, <1>2, <2>1, FilledOpen DEF Begin, Locked, Unlocking
  <2>. QED BY <1>7, <2>1, DiedOpen, AnsweredOpen DEF DeleteItem, memory
<1>8. ASSUME NEW i \in Id, NEW p \in Peer, GetItemForPeer(i, p) PROVE OpenOK'
  <2>. DEFINE j == [NoJob EXCEPT !.op = "getForPeer", !.id = i]
  <2>1. CASE Present(i) /\ UNCHANGED <<identityKey, loaded>> /\ Begin(j, "read")
    BY <1>1, <1>2, <2>1, FilledOpen DEF Begin, Locked, Unlocking
  <2>. HIDE DEF j
  <2>. QED BY <1>4, <1>8, <2>1, DiedOpen, AnsweredOpen DEF GetItemForPeer, memory, j
<1>. QED BY <1>5, <1>6, <1>7, <1>8

LEMMA OpenStep ==
  ASSUME TypeOK, PhaseOK, OpenOK, [Next]_vars
  PROVE  OpenOK'
<1>1. CASE UNCHANGED vars
  BY <1>1 DEF vars, memory, control, OpenOK, Idle, Locked, Unlocking
<1>. QED BY <1>1, NextCases, QuietOpen, LoadOpen, WriteOpen

LEMMA InitOpen == Init => OpenOK
BY DEF Init, OpenOK, Idle, Unlocking
=============================================================================
