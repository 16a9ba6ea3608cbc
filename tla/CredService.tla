---------------------------- MODULE CredService ----------------------------
(***************************************************************************)
(* The credstore server (internal/store/service behind                     *)
(* internal/store/server): every RPC runs in a goroutine of its own and    *)
(* makes several calls of the vault, which it holds the lock for one at a  *)
(* time.  Between two of them other RPCs run: the vault may be locked,     *)
(* locked and unlocked again, and the item at hand deleted or read.        *)
(* A panic in any of them ends the process, and with it every other RPC:   *)
(* no interceptor recovers it.                                             *)
(***************************************************************************)
EXTENDS AtomicVault, Naturals, FiniteSets

CONSTANTS
  Proc    \* the RPCs that may be in flight together

ASSUME NilAssumption == Nil \notin Proc \cup Value \cup Peer \cup Meta

VARIABLES
  pc, job,        \* of each RPC: where it is, and with what
  lock,           \* who holds v.lock from one step to the next, or Nil
  (* What clients know and an observer remembers. *)
  made,           \* the ids that creations have answered with, until removed
  removed,        \* the ids a DeleteVaultItems has deleted
  fresh,          \* the ids CreateVaultItem has drawn since the last Lock
  readers,        \* the addresses that have read an item as clients
  seen, calm,     \* per RPC in flight: the ids a list must name, or a read must
                  \* not return, when it was called; whether the vault has been
                  \* open since a list was asked for
  reply           \* the answer the last step gave, with what its RPC had seen

control  == <<pc, job, lock>>
ids      == <<made, removed, fresh>>
history  == <<ids, readers>>
observed == <<seen, calm, reply>>
vars     == <<vault, control, history, observed>>

Creations == {"createItem", "createCredentials"}
Reads == {"readAsAdmin", "readAsClient"}
Ops == Creations \cup Reads
         \cup {"listItems", "deleteItems", "setRecipient", "lock", "unlock", "info"}
Phases == {"idle", "verify", "authenticate", "create", "set", "undo", "fetch",
           "list", "delete", "send", "read", "value", "recover", "reencrypt",
           "lock", "unlock", "load", "info"}
Results == {"none", "ok", "err", "died", "locked", "unlocked"}

Jobs == [op : Ops \cup {"none"}, pass : Pass \cup {Nil}, id : Id \cup {Nil},
         cid : Id \cup {Nil}, addr : Peer \cup {Nil},
         todo : SUBSET Id, done : SUBSET Id]
NoJob == [op |-> "none", pass |-> Nil, id |-> Nil, cid |-> Nil, addr |-> Nil,
          todo |-> {}, done |-> {}]
Replies == [op : Ops \cup {"none"}, res : Results, ids : SUBSET Id,
            seen : SUBSET Id, calm : BOOLEAN]
NoReply == [op |-> "none", res |-> "none", ids |-> {}, seen |-> {}, calm |-> FALSE]

-----------------------------------------------------------------------------
(* How an RPC goes on or ends *)

Free == lock = Nil
Idle(p) == pc[p] = "idle"
At(p, phase) == pc[p] = phase /\ (Free \/ lock = p)

Become(p, j, phase) ==
  /\ pc' = [pc EXCEPT ![p] = phase]
  /\ job' = [job EXCEPT ![p] = j]
  /\ reply' = NoReply
Goto(p, phase) == Become(p, job[p], phase)
Answer(p, res, is) ==
  /\ pc' = [pc EXCEPT ![p] = "idle"]
  /\ job' = [job EXCEPT ![p] = NoJob]
  /\ reply' = [op |-> job[p].op, res |-> res, ids |-> is,
               seen |-> seen[p], calm |-> calm[p]]

Release == lock' = Nil
Hold(p) == lock' = p

(* The process ends, in an RPC of this kind: all in flight go unanswered. *)
AllEnd(op) ==
  /\ pc' = [p \in Proc |-> "idle"]
  /\ job' = [p \in Proc |-> NoJob]
  /\ reply' = [NoReply EXCEPT !.op = op, !.res = "died"]
  /\ Release
Unsettle == fresh' = {}
Dies(op) ==
  /\ Close \/ (key = Nil /\ UNCHANGED vault)
  /\ AllEnd(op) /\ Unsettle
  /\ UNCHANGED <<made, removed, readers>>

(* After a call of the vault that failed: either it answered, and the RPC goes
   on with it, or the process died in it. *)
DiesIn(p) == key' = Nil /\ AllEnd(job[p].op) /\ Unsettle
Survives == key' # Nil /\ UNCHANGED fresh

Quiet == UNCHANGED <<made, removed, readers>>
Still == UNCHANGED history

-----------------------------------------------------------------------------
(* VerifyPassphrase; ReadVaultItem overwrites the result with that of parsing
   the item's id, for an admin and for a client alike. *)

Matches(p) == key # Nil /\ key = job[p].pass

AfterVerify(op) ==
  CASE op \in Creations -> "create"
    [] op = "listItems" -> "list"
    [] op = "deleteItems" -> "delete"
    [] op = "setRecipient" -> "recover"
    [] op = "readAsAdmin" -> "read"

Verify(p) ==
  /\ At(p, "verify")
  /\ IF Matches(p) \/ job[p].op = "readAsAdmin"
     THEN Goto(p, AfterVerify(job[p].op))
     ELSE Answer(p, "err", {})
  /\ UNCHANGED <<vault, lock, history>>

(* verifyClientCredentials reads the item the credentials name.  An item that
   has no value yet is a nil buffer, and using that a panic. *)
Authenticate(p) ==
  /\ At(p, "authenticate")
  /\ LET i == job[p].cid IN
     \/ /\ Has(i) => items[i].sum # Nil
        /\ Goto(p, "read") /\ UNCHANGED <<vault, lock, history>>
     \/ Has(i) /\ (items[i].sum = Nil \/ MayFail) /\ Dies(job[p].op)

-----------------------------------------------------------------------------
(* CreateVaultItem and CreateClientCredentials: CreateItem, SetItemValue; the
   first deletes an item it could not fill, the second reads the value back. *)

CreateItem(p) ==
  /\ At(p, "create")
  /\ \/ key = Nil /\ Answer(p, "err", {}) /\ UNCHANGED <<vault, lock, history>>
     \/ \E i \in Id :
          \/ /\ Create(i)
             /\ Become(p, [job[p] EXCEPT !.id = i], "set")
             /\ fresh' = IF job[p].op = "createItem" THEN fresh \cup {i} ELSE fresh
             /\ UNCHANGED lock /\ Quiet
          \/ /\ CreateFails(i) /\ Quiet
             /\ DiesIn(p) \/ (Survives /\ Answer(p, "err", {}) /\ UNCHANGED lock)

(* Mutation: the item stays when its value could not be set. *)
NoUndo(p) == Answer(p, "err", {})
Unset(p) ==
  \/ job[p].op = "createItem" /\ Goto(p, "undo")
  \/ job[p].op = "createCredentials" /\ Answer(p, "err", {})

(* The client learns the id. *)
Made(p) ==
  /\ Answer(p, "ok", {job[p].id})
  /\ made' = made \cup ({job[p].id} \ removed)
  /\ UNCHANGED <<removed, fresh, readers>>

(* It fails for an item that is gone, and for the empty value a client may send;
   the secret of client credentials is made here and not empty. *)
SetItemValue(p) ==
  /\ At(p, "set")
  /\ LET i == job[p].id IN
     \/ /\ Has(i) => job[p].op = "createItem"
        /\ Unset(p) /\ UNCHANGED <<vault, lock, history>>
     \/ \E v \in Value :
          \/ /\ Store(i, v) /\ UNCHANGED lock
             /\ \/ job[p].op = "createItem" /\ Made(p)
                \/ job[p].op = "createCredentials" /\ Goto(p, "fetch") /\ Still
          \/ /\ StoreFails(i, v) /\ Quiet
             /\ DiesIn(p) \/ (Survives /\ Unset(p) /\ UNCHANGED lock)

(* The error is dropped, if DeleteItem finds the vault locked. *)
Undo(p) ==
  /\ At(p, "undo")
  /\ LET i == job[p].id IN
     \/ ~Has(i) /\ Answer(p, "err", {}) /\ UNCHANGED <<vault, lock, history>>
     \/ Delete(i) /\ Answer(p, "err", {}) /\ UNCHANGED <<lock, history>>
     \/ DeleteFails(i) /\ DiesIn(p) /\ Quiet

Fetch(p) ==
  /\ At(p, "fetch")
  /\ LET i == job[p].id IN
     \/ Has(i) /\ items[i].sum # Nil /\ Made(p) /\ UNCHANGED <<vault, lock>>
     \/ (~Has(i) \/ MayFail) /\ Answer(p, "err", {})
        /\ UNCHANGED <<vault, lock, history>>
     \/ Has(i) /\ (items[i].sum = Nil \/ MayFail) /\ Dies(job[p].op)

-----------------------------------------------------------------------------
(* ListVaultItems and DeleteVaultItems stream their answers once the vault's
   lock is free again. *)

ListItems(p) ==
  /\ At(p, "list")
  /\ Become(p, [job[p] EXCEPT !.done = {i \in Id : Has(i)}], "send")
  /\ UNCHANGED <<vault, lock, history>>

(* One id of the request.  One that is not there is answered as deleted. *)
DeleteItem(p) ==
  /\ At(p, "delete")
  /\ \E i \in job[p].todo :
     LET left == [job[p] EXCEPT !.todo = @ \ {i}, !.done = @ \cup {i}]
         Deleted == Become(p, left, IF left.todo = {} THEN "send" ELSE "delete")
         Note == removed' = removed \cup {i} /\ made' = made \ {i}
     IN \/ key = Nil /\ Answer(p, "err", {}) /\ UNCHANGED <<vault, lock, history>>
        \/ /\ key # Nil /\ ~Has(i)
           /\ Deleted /\ UNCHANGED <<vault, lock>>
           /\ IF open THEN Note ELSE UNCHANGED <<made, removed>>
           /\ UNCHANGED <<fresh, readers>>
        \/ /\ Delete(i) /\ Deleted /\ Note
           /\ UNCHANGED <<lock, fresh, readers>>
        \/ DeleteFails(i) /\ DiesIn(p) /\ Quiet

Send(p) ==
  /\ pc[p] = "send"
  /\ Answer(p, "ok", job[p].done) \/ (MayFail /\ Answer(p, "err", {}))
  /\ UNCHANGED <<vault, lock, history>>

-----------------------------------------------------------------------------
(* ReadVaultItem: GetItem for an admin, GetItemForPeer for a client, which is
   turned away from an item bound to another address. *)

ReadItem(p) ==
  /\ At(p, "read")
  /\ LET i == job[p].id  a == job[p].addr IN
     \/ /\ Has(i) => a # Nil /\ items[i].peer \notin {Nil, a}
        /\ Answer(p, "err", {}) /\ UNCHANGED <<vault, lock, history>>
     \/ /\ Has(i) /\ (a # Nil => items[i].peer = a)
        /\ Goto(p, "value") /\ Hold(p)
        /\ UNCHANGED <<vault, history>>
     \/ /\ a # Nil /\ Bind(i, a)
        /\ Goto(p, "value") /\ Hold(p)
        /\ Still
     \/ /\ a # Nil /\ BindFails(i, a) /\ Quiet
        /\ DiesIn(p) \/ (Survives /\ Answer(p, "err", {}) /\ UNCHANGED lock)

(* Again, the value of an item without one is nil, and destroying it a panic. *)
ReadItemValue(p) ==
  /\ pc[p] = "value" /\ lock = p
  /\ LET i == job[p].id IN
     \/ /\ items[i].sum # Nil
        /\ Answer(p, "ok", {i}) /\ Release
        /\ readers' = IF job[p].op = "readAsClient"
                      THEN [readers EXCEPT ![i] = @ \cup {job[p].addr}]
                      ELSE readers
        /\ UNCHANGED <<vault, ids>>
     \/ /\ MayFail /\ items[i].sum # Nil
        /\ Answer(p, "err", {}) /\ Release
        /\ UNCHANGED <<vault, history>>
     \/ (items[i].sum = Nil \/ MayFail) /\ Dies(job[p].op)

-----------------------------------------------------------------------------
(* SetRecoveryRecipient *)

SetRecoveryRecipient(p) ==
  /\ At(p, "recover")
  /\ \/ (key = Nil \/ MayFail) /\ Answer(p, "err", {})
        /\ UNCHANGED <<vault, lock, history>>
     \/ /\ open
        /\ Become(p, [job[p] EXCEPT !.todo = {i \in Id : disk[i] # Nil}], "reencrypt")
        /\ Hold(p)
        /\ UNCHANGED <<vault, history>>
     \/ key # Nil /\ (~open \/ MayFail) /\ Dies(job[p].op)

(* An item that cannot be read or written is skipped. *)
Reencrypt(p) ==
  /\ pc[p] = "reencrypt" /\ lock = p
  /\ \/ /\ job[p].todo = {}
        /\ Answer(p, "ok", {}) /\ Release
        /\ UNCHANGED <<vault, history>>
     \/ \E i \in job[p].todo :
          LET Done == Become(p, [job[p] EXCEPT !.todo = @ \ {i}], "reencrypt")
                        /\ UNCHANGED lock
          IN \/ disk[i].sum # Nil /\ Refresh({i}) /\ Done /\ Still
             \/ /\ RefreshFails(i) /\ Quiet
                /\ DiesIn(p) \/ (Survives /\ Done)
             \/ (disk[i].sum = Nil \/ MayFail) /\ Done /\ UNCHANGED <<vault, history>>

-----------------------------------------------------------------------------
(* LockVault, UnlockVault, GetInfo *)

LockVault(p) ==
  /\ At(p, "lock")
  /\ Answer(p, "ok", {}) /\ UNCHANGED lock
  /\ \/ key = Nil /\ UNCHANGED <<vault, history>>
     \/ Close /\ Unsettle /\ Quiet

UnlockVault(p) ==
  /\ At(p, "unlock")
  /\ LET k == job[p].pass IN
     \/ key # Nil /\ Answer(p, "ok", {}) /\ UNCHANGED <<vault, lock, history>>
     \/ /\ key = Nil /\ (owner \notin {Nil, k} \/ MayFail)
        /\ Answer(p, "err", {}) /\ UNCHANGED <<vault, lock, history>>
     \/ key = Nil /\ owner = Torn /\ Dies(job[p].op)
     \/ /\ TakeKey(k) /\ Goto(p, "load") /\ Hold(p) /\ Still
     \/ /\ SealFails(k) /\ Quiet
        /\ DiesIn(p) \/ (Survives /\ Answer(p, "err", {}) /\ UNCHANGED lock)

(* The rest of Unlock, under the same lock: the upgrade, which may fail and
   leave the key, and the list of the items, which may fail and lock again. *)

(* Mutation: Unlock returns without releasing the lock. *)
KeepLock == UNCHANGED lock
GiveBack == Release

LoadItems(p) ==
  /\ pc[p] = "load" /\ lock = p
  /\ \/ /\ \E missed \in SUBSET Id : Load(missed)
        /\ Answer(p, "ok", {}) /\ GiveBack /\ Still
     \/ /\ MayFail
        /\ Answer(p, "err", {}) /\ GiveBack
        /\ UNCHANGED <<vault, history>>
     \/ /\ MayFail /\ Close /\ Unsettle /\ Quiet
        /\ Answer(p, "err", {}) /\ GiveBack
     \/ MayFail /\ Dies(job[p].op)

(* GetInfo looks at the key without taking the lock: during an Unlock it may
   find it set before the items are there. *)
GetInfo(p) ==
  /\ pc[p] = "info"
  /\ Answer(p, IF key = Nil THEN "locked" ELSE "unlocked", {})
  /\ UNCHANGED <<vault, lock, history>>

-----------------------------------------------------------------------------
(* What clients may ask for: nothing that waits for an id while all are drawn
   (the bound on Id), only ids that exist. *)

Pending == {p \in Proc : pc[p] = "create" \/ (pc[p] = "verify" /\ job[p].op \in Creations)}

Signed(op, k) == [NoJob EXCEPT !.op = op, !.pass = k]
Deletion(k, S) == [NoJob EXCEPT !.op = "deleteItems", !.pass = k, !.todo = S]
AdminRead(k, i) == [NoJob EXCEPT !.op = "readAsAdmin", !.pass = k, !.id = i]
ClientRead(c, i, a) ==
  [NoJob EXCEPT !.op = "readAsClient", !.cid = c, !.id = i, !.addr = a]
Plain(op) == [NoJob EXCEPT !.op = op]
Requests ==
  {Signed(op, k) : op \in Creations \cup {"listItems", "setRecipient", "unlock"},
                   k \in Pass}
  \cup {Deletion(k, S) : k \in Pass, S \in (SUBSET born) \ {{}}}
  \cup {AdminRead(k, i) : k \in Pass, i \in born}
  \cup {ClientRead(c, i, a) : c \in born, i \in born, a \in Peer}
  \cup {Plain(op) : op \in {"lock", "info"}}

FirstPhase(op) ==
  CASE op \in {"lock", "unlock", "info"} -> op
    [] op = "readAsClient" -> "authenticate"
    [] OTHER -> "verify"

Call(p) ==
  /\ Idle(p)
  /\ \E r \in Requests :
       /\ r.op \in Creations => Cardinality(Pending) < Cardinality(Id \ born)
       /\ pc' = [pc EXCEPT ![p] = FirstPhase(r.op)]
       /\ job' = [job EXCEPT ![p] = r]
  /\ reply' = NoReply
  /\ UNCHANGED <<vault, lock, history>>

Crash == "crash" \in Faults /\ Dies("none")

Serve(p) ==
  \/ Verify(p) \/ Authenticate(p)
  \/ CreateItem(p) \/ SetItemValue(p) \/ Undo(p) \/ Fetch(p)
  \/ ListItems(p) \/ DeleteItem(p) \/ Send(p)
  \/ ReadItem(p) \/ ReadItemValue(p)
  \/ SetRecoveryRecipient(p) \/ Reencrypt(p)
  \/ LockVault(p) \/ UnlockVault(p) \/ LoadItems(p) \/ GetInfo(p)

Init ==
  /\ VaultInit
  /\ pc = [p \in Proc |-> "idle"] /\ job = [p \in Proc |-> NoJob]
  /\ lock = Nil
  /\ made = {} /\ removed = {} /\ fresh = {}
  /\ readers = [i \in Id |-> {}]
  /\ seen = [p \in Proc |-> {}] /\ calm = [p \in Proc |-> FALSE]
  /\ reply = NoReply

(* What the observer remembers of an RPC, from its call to its answer. *)
Seen(op) ==
  CASE op = "listItems" -> made
    [] op \in Reads -> removed
    [] OTHER -> {}
Observe ==
  /\ seen' = [p \in Proc |-> IF pc'[p] = "idle" THEN {}
                             ELSE IF Idle(p) THEN Seen(job'[p].op) ELSE seen[p]]
  /\ calm' = [p \in Proc |-> /\ job'[p].op = "listItems" /\ open /\ open'
                             /\ Idle(p) \/ calm[p]]

Next == (Crash \/ \E p \in Proc : Call(p) \/ Serve(p)) /\ Observe

Spec == Init /\ [][Next]_vars

(* Goroutines are scheduled, and a sync.RWMutex starves none that waits for it:
   one that can take the lock again and again does take it. *)
FairSpec == Spec /\ \A p \in Proc : SF_control(Serve(p))

-----------------------------------------------------------------------------
(* Properties *)

(* Every variable stays within the states its field or file can have. *)
TypeOK ==
  /\ owner \in Pass \cup {Nil, Torn} /\ key \in Pass \cup {Nil} /\ open \in BOOLEAN
  /\ items \in [Id -> Meta \cup {Nil}] /\ disk \in [Id -> Meta \cup {Nil}]
  /\ acked \in [Id -> Value \cup {Nil}] /\ bound \in [Id -> Peer \cup {Nil}]
  /\ pc \in [Proc -> Phases] /\ job \in [Proc -> Jobs]
  /\ lock \in Proc \cup {Nil}
  /\ born \subseteq Id /\ made \subseteq Id /\ removed \subseteq Id /\ fresh \subseteq Id
  /\ readers \in [Id -> SUBSET Peer]
  /\ seen \in [Proc -> SUBSET Id] /\ calm \in [Proc -> BOOLEAN] /\ reply \in Replies

(* An item whose creation was answered is complete on disk, with the value that
   was stored, until a client deletes it: no Lock, Unlock, panic or other RPC
   between the calls of CreateVaultItem or CreateClientCredentials makes them
   answer for an item that is not. *)
CreatedIsComplete ==
  \A i \in made :
    disk[i] \in Meta /\ disk[i].sum # Nil /\ disk[i].sum = acked[i]

(* A read called after DeleteVaultItems has deleted its item does not get the
   item, through whatever Lock and Unlock since. *)
DeletedIsGone ==
  reply.op \in Reads /\ reply.res = "ok" => reply.ids \cap reply.seen = {}

(* A list taken while the vault stays open names every item whose creation had
   been answered before it was asked for, but for those deleted meanwhile; a
   Lock between VerifyPassphrase and Items makes it an empty one instead. *)
ListIsComplete ==
  reply.op = "listItems" /\ reply.res = "ok" /\ reply.calm =>
    reply.seen \ removed \subseteq reply.ids

(* As long as the vault is not locked in between, CreateVaultItem leaves no
   item without a value behind, whichever of its calls fails. *)
NoLeftovers ==
  \A i \in fresh : Has(i) /\ items[i].sum = Nil =>
    \E p \in Proc : pc[p] \in {"set", "undo"} /\ job[p].id = i

(* However clients race for an item, lock it away or crash the server, one
   address alone reads it. *)
OneReader == \A i \in Id : \A a, b \in readers[i] : a = b

(* A read of an item that has no value yet is answered like GetItem answers
   it, and does not end the process (no file operation fails here). *)
EmptyReadAnswers ==
  reply.op \in Reads => reply.res # "died"

(* Every RPC is answered, or the process ends. *)
EveryRpcEnds == \A p \in Proc : ~Idle(p) ~> Idle(p)
=============================================================================
