------------------------- MODULE CredServiceProofs -------------------------
(***************************************************************************)
(* Proofs about CredService, for any number of RPCs, items, addresses and  *)
(* passphrases.  Nothing is assumed of Faults but where a theorem says so. *)
(*                                                                         *)
(* The service touches the vault by the vault's operations alone, so what  *)
(* these keep is shown once, of VaultNext.  Of the RPCs, each step is put  *)
(* in one of three forms: one RPC answers, one goes on, or the process     *)
(* ends and all RPCs with it.                                              *)
(***************************************************************************)
EXTENDS CredService, TLAPS

-----------------------------------------------------------------------------
(* The inductive invariant *)

VaultTyped ==
  /\ owner \in Pass \cup {Nil, Torn} /\ key \in Pass \cup {Nil} /\ open \in BOOLEAN
  /\ items \in [Id -> Meta \cup {Nil}] /\ disk \in [Id -> Meta \cup {Nil}]
  /\ acked \in [Id -> Value \cup {Nil}] /\ bound \in [Id -> Peer \cup {Nil}]
  /\ born \subseteq Id
RpcsTyped ==
  pc \in [Proc -> Phases] /\ job \in [Proc -> Jobs] /\ lock \in Proc \cup {Nil}
HistoryTyped ==
  /\ made \subseteq Id /\ removed \subseteq Id /\ fresh \subseteq Id
  /\ readers \in [Id -> SUBSET Peer]
ObserverTyped ==
  seen \in [Proc -> SUBSET Id] /\ calm \in [Proc -> BOOLEAN] /\ reply \in Replies

(* An RPC is where its kind can be, with the arguments of its kind. *)
Making(p) == pc[p] \in {"set", "undo", "fetch"}
JobFits(p) ==
  /\ pc[p] = "idle" => job[p].op = "none"
  /\ pc[p] = "verify" => job[p].op \in Creations
       \cup {"listItems", "deleteItems", "setRecipient", "readAsAdmin"}
  /\ pc[p] = "authenticate" => job[p].op = "readAsClient" /\ job[p].cid \in born
  /\ pc[p] \in {"create", "set"} => job[p].op \in Creations
  /\ pc[p] = "undo" => job[p].op = "createItem"
  /\ pc[p] = "fetch" => job[p].op = "createCredentials"
  /\ Making(p) => job[p].id \in born
  /\ pc[p] = "list" => job[p].op = "listItems"
  /\ pc[p] = "delete" => job[p].op = "deleteItems"
  /\ pc[p] = "send" => job[p].op \in {"listItems", "deleteItems"}
  /\ pc[p] \in {"read", "value"} => job[p].op \in Reads
  /\ pc[p] \in {"recover", "reencrypt"} => job[p].op = "setRecipient"
  /\ pc[p] = "lock" => job[p].op = "lock"
  /\ pc[p] = "info" => job[p].op = "info"
  /\ pc[p] \in {"unlock", "load"} => job[p].op = "unlock" /\ job[p].pass \in Pass
  /\ job[p].op = "readAsClient" => job[p].id \in born /\ job[p].addr \in Peer
  /\ job[p].op = "readAsAdmin" => job[p].id \in born /\ job[p].addr = Nil
  /\ job[p].op = "deleteItems" => job[p].todo \subseteq born
JobsFit == \A p \in Proc : JobFits(p)

(* The lock is held from step to step in these phases. *)
Within == {"value", "reencrypt", "load"}
LockFits == \A p \in Proc : pc[p] \in Within <=> lock = p

ControlOK == RpcsTyped /\ JobsFit /\ LockFits

-----------------------------------------------------------------------------
(* The vault's operations *)

LEMMA NewItemIsMeta == NewItem \in Meta /\ NewItem # Nil /\ NewItem.sum = Nil
                         /\ NewItem.peer = Nil
  BY NilAssumption DEF NewItem, Meta

LEMMA FilledIsMeta ==
  ASSUME VaultTyped, NEW i \in Id, Has(i), NEW v \in Value
  PROVE  /\ Filled(i, v) \in Meta /\ Filled(i, v) # Nil
         /\ Filled(i, v).sum = v /\ Filled(i, v).peer = items[i].peer
  <1>1. items[i] \in Meta
    BY DEF VaultTyped, Has
  <1>2. Filled(i, v) \in Meta
    BY <1>1 DEF Filled, Meta
  <1> QED
    BY <1>1, <1>2, NilAssumption DEF Filled, Meta

LEMMA ClaimedIsMeta ==
  ASSUME VaultTyped, NEW i \in Id, Has(i), NEW a \in Peer
  PROVE  /\ Claimed(i, a) \in Meta /\ Claimed(i, a) # Nil
         /\ Claimed(i, a).sum = items[i].sum /\ Claimed(i, a).peer = a
  <1>1. items[i] \in Meta
    BY DEF VaultTyped, Has
  <1>2. Claimed(i, a) \in Meta
    BY <1>1 DEF Claimed, Meta
  <1> QED
    BY <1>1, <1>2, NilAssumption DEF Claimed, Meta

(* A write leaves all of the vault but one item alone. *)
LEMMA CommitTyped ==
  ASSUME VaultTyped, NEW i \in Id, NEW m \in Meta \cup {Nil}, Commit(i, m)
  PROVE  /\ items' \in [Id -> Meta \cup {Nil}] /\ disk' \in [Id -> Meta \cup {Nil}]
         /\ owner' = owner /\ key' = key /\ open' = open
  BY DEF VaultTyped, Commit

LEMMA BotchTyped ==
  ASSUME VaultTyped, NEW i \in Id, NEW m \in Meta \cup {Nil}, Botch(i, m)
  PROVE  /\ items' \in [Id -> Meta \cup {Nil}] /\ disk' \in [Id -> Meta \cup {Nil}]
         /\ owner' = owner /\ key' \in {key, Nil} /\ open' \in BOOLEAN
  <1>1. disk' \in [Id -> Meta \cup {Nil}] /\ owner' = owner
    BY DEF VaultTyped, Botch
  <1>2. CASE Keep
    BY <1>1, <1>2 DEF VaultTyped, Keep, mind
  <1>3. CASE Forget
    BY <1>1, <1>3 DEF Forget
  <1> QED
    BY <1>2, <1>3 DEF Botch

LEMMA VaultStaysTyped ==
  ASSUME VaultTyped, VaultNext
  PROVE  VaultTyped'
  <1>1. ASSUME NEW p \in Pass, TakeKey(p) \/ SealFails(p)
        PROVE  VaultTyped'
    BY <1>1 DEF VaultTyped, TakeKey, SealFails, told
  <1>2. ASSUME NEW S \in SUBSET Id, Load(S) \/ Refresh(S)
        PROVE  VaultTyped'
    BY <1>2 DEF VaultTyped, Load, Refresh, told, disks
  <1>3. ASSUME Close
        PROVE  VaultTyped'
    BY <1>3 DEF VaultTyped, Close, Forget, told, disks
  <1>4. ASSUME NEW i \in Id, Create(i) \/ CreateFails(i)
        PROVE  VaultTyped'
    <2>1. NewItem \in Meta \cup {Nil}
      BY NewItemIsMeta
    <2>2. CASE Create(i)
      BY <2>1, <2>2, CommitTyped DEF VaultTyped, Create, told
    <2>3. CASE CreateFails(i)
      BY <2>1, <2>3, BotchTyped DEF VaultTyped, CreateFails, told
    <2> QED
      BY <1>4, <2>2, <2>3
  <1>5. ASSUME NEW i \in Id, Delete(i) \/ DeleteFails(i)
        PROVE  VaultTyped'
    BY <1>5 DEF VaultTyped, Delete, DeleteFails, Commit, Forget, Untold, disks
  <1>6. ASSUME NEW i \in Id, RefreshFails(i)
        PROVE  VaultTyped'
    <2>1. disk[i] \in Meta \cup {Nil}
      BY DEF VaultTyped
    <2> QED
      BY <1>6, <2>1, BotchTyped DEF VaultTyped, RefreshFails, told
  <1>7. ASSUME NEW i \in Id, NEW v \in Value, Store(i, v) \/ StoreFails(i, v)
        PROVE  VaultTyped'
    <2>1. Filled(i, v) \in Meta
      BY <1>7, FilledIsMeta DEF Store, StoreFails
    <2> QED
      BY <1>7, <2>1, CommitTyped, BotchTyped DEF VaultTyped, Store, StoreFails, told
  <1>8. ASSUME NEW i \in Id, NEW a \in Peer, Bind(i, a) \/ BindFails(i, a)
        PROVE  VaultTyped'
    <2>1. Claimed(i, a) \in Meta
      BY <1>8, ClaimedIsMeta DEF Bind, BindFails
    <2> QED
      BY <1>8, <2>1, CommitTyped, BotchTyped DEF VaultTyped, Bind, BindFails, told
  <1> QED
    BY <1>1, <1>2, <1>3, <1>4, <1>5, <1>6, <1>7, <1>8 DEF VaultNext

-----------------------------------------------------------------------------
(* What a step does to the RPCs *)

StateTyped == VaultTyped /\ ControlOK /\ HistoryTyped /\ ObserverTyped

Turns(p, j, phase) ==
  pc' = [pc EXCEPT ![p] = phase] /\ job' = [job EXCEPT ![p] = j]
Quits(p) ==
  Turns(p, NoJob, "idle") /\ lock' = IF lock = p THEN Nil ELSE lock
Goes(p, j, phase) ==
  /\ Turns(p, j, phase)
  /\ phase \in Within => lock \in {Nil, p}
  /\ lock' = IF phase \in Within THEN p ELSE lock
AllQuit ==
  /\ pc' = [p \in Proc |-> "idle"] /\ job' = [p \in Proc |-> NoJob]
  /\ lock' = Nil
  /\ fresh' = {} /\ UNCHANGED <<made, removed, readers>>

(* Where an RPC that is not answered goes. *)
GoesOn(p) ==
  \/ pc[p] = "verify" /\ Goes(p, job[p], AfterVerify(job[p].op))
  \/ pc[p] = "authenticate" /\ Goes(p, job[p], "read")
  \/ /\ pc[p] = "create"
     /\ \E i \in Id : i \in born' /\ Goes(p, [job[p] EXCEPT !.id = i], "set")
  \/ pc[p] = "set" /\ job[p].op = "createItem" /\ Goes(p, job[p], "undo")
  \/ pc[p] = "set" /\ job[p].op = "createCredentials" /\ Goes(p, job[p], "fetch")
  \/ /\ pc[p] = "list"
     /\ Goes(p, [job[p] EXCEPT !.done = {i \in Id : Has(i)}], "send")
  \/ /\ pc[p] = "delete"
     /\ \E i \in job[p].todo, phase \in {"delete", "send"} :
          Goes(p, [job[p] EXCEPT !.todo = @ \ {i}, !.done = @ \cup {i}], phase)
  \/ pc[p] = "read" /\ Goes(p, job[p], "value")
  \/ /\ pc[p] \in {"recover", "reencrypt"}
     /\ \E S \in SUBSET Id : Goes(p, [job[p] EXCEPT !.todo = S], "reencrypt")
  \/ pc[p] = "unlock" /\ Goes(p, job[p], "load")

(* Of each action: it is a step of the vault or leaves that alone, has one of
   the three forms, and keeps the types of what is observed. *)
Proper(p) ==
  /\ VaultNext \/ UNCHANGED vault
  /\ AllQuit \/ Quits(p) \/ GoesOn(p)
  /\ HistoryTyped' /\ reply' \in Replies

LEMMA AnswerQuits ==
  ASSUME StateTyped, NEW p \in Proc, NEW res \in Results, NEW is \in SUBSET Id,
         Answer(p, res, is),
         (pc[p] \notin Within /\ lock' = lock) \/ (lock = p /\ lock' = Nil)
  PROVE  Quits(p) /\ reply' \in Replies
  <1>1. Quits(p)
    BY DEF StateTyped, ControlOK, LockFits, Answer, Quits, Turns
  <1>2. job[p].op \in Ops \cup {"none"} /\ seen[p] \in SUBSET Id /\ calm[p] \in BOOLEAN
    BY DEF StateTyped, ControlOK, RpcsTyped, ObserverTyped, Jobs
  <1> QED
    BY <1>1, <1>2 DEF Answer, Replies

LEMMA NoReplyTyped == NoReply \in Replies
  BY DEF NoReply, Replies, Results

LEMMA AllEndQuits ==
  ASSUME NEW op \in Ops \cup {"none"}, AllEnd(op), Unsettle, Quiet
  PROVE  AllQuit /\ reply' \in Replies
  BY DEF AllEnd, AllQuit, Release, Unsettle, Quiet, NoReply, Replies, Results

LEMMA BecomeGoes ==
  ASSUME StateTyped, NEW p \in Proc, NEW j, NEW phase, Become(p, j, phase),
         (phase \in Within /\ lock \in {Nil, p} /\ lock' = p)
           \/ (phase \notin Within /\ lock' = lock)
  PROVE  Goes(p, j, phase) /\ reply' \in Replies
  BY NoReplyTyped DEF Become, Goes, Turns

LEMMA DiesIsProper ==
  ASSUME StateTyped, NEW p \in Proc, NEW op \in Ops \cup {"none"}, Dies(op)
  PROVE  Proper(p)
  <1>1. AllQuit /\ reply' \in Replies
    BY AllEndQuits DEF Dies, Quiet
  <1>2. VaultNext \/ UNCHANGED vault
    BY DEF Dies, VaultNext
  <1>3. HistoryTyped'
    BY DEF Dies, Unsettle, StateTyped, HistoryTyped
  <1> QED
    BY <1>1, <1>2, <1>3 DEF Proper

LEMMA JobTyped ==
  ASSUME StateTyped, NEW p \in Proc
  PROVE  /\ pc[p] \in Phases /\ job[p] \in Jobs /\ JobFits(p) /\ job[p].op \in Ops \cup {"none"}
         /\ job[p].todo \in SUBSET Id /\ job[p].done \in SUBSET Id
         /\ born \subseteq Id /\ (pc[p] \in Within <=> lock = p)
  BY DEF StateTyped, ControlOK, RpcsTyped, JobsFit, LockFits, VaultTyped, Jobs

LEMMA QuietTyped ==
  ASSUME StateTyped, Quiet, fresh' = fresh \/ fresh' = {}
  PROVE  HistoryTyped'
  BY DEF Quiet, StateTyped, HistoryTyped

LEMMA StillTyped ==
  ASSUME StateTyped, Still
  PROVE  HistoryTyped'
  BY DEF Still, history, ids, StateTyped, HistoryTyped

(* A call of the vault that failed: the process ended, or the RPC is answered. *)
LEMMA FailedIsProper ==
  ASSUME StateTyped, NEW p \in Proc, pc[p] \notin Within, VaultNext, Quiet,
         DiesIn(p) \/ (Survives /\ Answer(p, "err", {}) /\ UNCHANGED lock)
  PROVE  Proper(p)
  <1>1. CASE DiesIn(p)
    BY <1>1, JobTyped, AllEndQuits, QuietTyped DEF DiesIn, Unsettle, Proper
  <1>2. CASE Survives /\ Answer(p, "err", {}) /\ UNCHANGED lock
    BY <1>2, AnswerQuits, QuietTyped DEF Survives, Proper, Results
  <1> QED
    BY <1>1, <1>2

(* An answer that leaves the vault and the history alone. *)
LEMMA PlainAnswerIsProper ==
  ASSUME StateTyped, NEW p \in Proc, NEW res \in Results, NEW is \in SUBSET Id,
         Answer(p, res, is), UNCHANGED vault, Still,
         (pc[p] \notin Within /\ lock' = lock) \/ (lock = p /\ lock' = Nil)
  PROVE  Proper(p)
  BY AnswerQuits, StillTyped DEF Proper

-----------------------------------------------------------------------------
(* Each action is proper *)

LEMMA VerifyIsProper ==
  ASSUME StateTyped, NEW p \in Proc, Verify(p)
  PROVE  Proper(p)
  <1>1. pc[p] = "verify" /\ UNCHANGED vault /\ lock' = lock /\ Still
    BY DEF Verify, At, Still
  <1>2. CASE Answer(p, "err", {})
    BY <1>1, <1>2, PlainAnswerIsProper DEF Results, Within
  <1>3. CASE Goto(p, AfterVerify(job[p].op))
    <2>1. AfterVerify(job[p].op) \in {"create", "list", "delete", "recover", "read"}
      BY <1>1, JobTyped DEF JobFits, AfterVerify, Creations
    <2>2. Goes(p, job[p], AfterVerify(job[p].op)) /\ reply' \in Replies
      BY <1>1, <1>3, <2>1, BecomeGoes DEF Goto, Within
    <2> QED
      BY <1>1, <2>2, StillTyped DEF Proper, GoesOn
  <1> QED
    BY <1>2, <1>3 DEF Verify

LEMMA AuthenticateIsProper ==
  ASSUME StateTyped, NEW p \in Proc, Authenticate(p)
  PROVE  Proper(p)
  <1>1. pc[p] = "authenticate"
    BY DEF Authenticate, At
  <1>2. CASE Dies(job[p].op)
    BY <1>2, JobTyped, DiesIsProper
  <1>3. CASE Goto(p, "read") /\ UNCHANGED <<vault, lock, history>>
    BY <1>1, <1>3, BecomeGoes, StillTyped DEF Goto, Within, Proper, GoesOn, Still
  <1> QED
    BY <1>2, <1>3 DEF Authenticate

LEMMA CreateItemIsProper ==
  ASSUME StateTyped, NEW p \in Proc, CreateItem(p)
  PROVE  Proper(p)
  <1>1. pc[p] = "create" /\ pc[p] \notin Within
    BY DEF CreateItem, At, Within
  <1>2. CASE Answer(p, "err", {}) /\ UNCHANGED <<vault, lock, history>>
    BY <1>1, <1>2, PlainAnswerIsProper DEF Results, Still
  <1>3. ASSUME NEW i \in Id, Create(i), Become(p, [job[p] EXCEPT !.id = i], "set"),
               fresh' = IF job[p].op = "createItem" THEN fresh \cup {i} ELSE fresh,
               UNCHANGED lock, Quiet
        PROVE  Proper(p)
    <2>1. VaultNext /\ i \in born'
      BY <1>3 DEF VaultNext, Create
    <2>2. Goes(p, [job[p] EXCEPT !.id = i], "set") /\ reply' \in Replies
      BY <1>3, BecomeGoes DEF Within
    <2>3. HistoryTyped'
      BY <1>3 DEF Quiet, StateTyped, HistoryTyped
    <2> QED
      BY <1>1, <2>1, <2>2, <2>3 DEF Proper, GoesOn
  <1>4. ASSUME NEW i \in Id, CreateFails(i), Quiet,
               DiesIn(p) \/ (Survives /\ Answer(p, "err", {}) /\ UNCHANGED lock)
        PROVE  Proper(p)
    <2>1. VaultNext
      BY <1>4 DEF VaultNext
    <2> QED
      BY <1>1, <1>4, <2>1, FailedIsProper
  <1> QED
    BY <1>2, <1>3, <1>4 DEF CreateItem

LEMMA MadeTyped ==
  ASSUME StateTyped, NEW p \in Proc, Made(p), job[p].id \in Id, pc[p] \notin Within,
         lock' = lock
  PROVE  Quits(p) /\ HistoryTyped' /\ reply' \in Replies
  <1>1. Quits(p) /\ reply' \in Replies
    BY AnswerQuits DEF Made, Results
  <1> QED
    BY <1>1 DEF Made, StateTyped, HistoryTyped

LEMMA SetItemValueIsProper ==
  ASSUME StateTyped, NEW p \in Proc, SetItemValue(p)
  PROVE  Proper(p)
  <1> DEFINE i == job[p].id
  <1>1. pc[p] = "set" /\ pc[p] \notin Within
    BY DEF SetItemValue, At, Within
  <1>2. i \in Id
    BY <1>1, JobTyped DEF JobFits, Making
  <1> HIDE DEF i
  <1>3. ASSUME VaultNext \/ UNCHANGED vault, HistoryTyped', Unset(p), UNCHANGED lock
        PROVE  Proper(p)
    <2>1. CASE job[p].op = "createItem" /\ Goto(p, "undo")
      BY <1>1, <1>3, <2>1, BecomeGoes DEF Goto, Within, Proper, GoesOn
    <2>2. CASE Answer(p, "err", {})
      BY <1>1, <1>3, <2>2, AnswerQuits DEF Proper, Results
    <2> QED
      BY <1>3, <2>1, <2>2 DEF Unset
  <1>4. CASE Unset(p) /\ UNCHANGED <<vault, lock, history>>
    BY <1>3, <1>4, StillTyped DEF Still
  <1>5. ASSUME NEW v \in Value, Store(i, v), UNCHANGED lock,
               job[p].op = "createItem", Made(p)
        PROVE  Proper(p)
    <2>1. VaultNext
      BY <1>2, <1>5 DEF VaultNext
    <2> QED
      BY <1>1, <1>2, <1>5, <2>1, MadeTyped DEF i, Proper
  <1>6. ASSUME NEW v \in Value, Store(i, v), UNCHANGED lock,
               job[p].op = "createCredentials", Goto(p, "fetch"), Still
        PROVE  Proper(p)
    <2>1. VaultNext
      BY <1>2, <1>6 DEF VaultNext
    <2> QED
      BY <1>1, <1>6, <2>1, BecomeGoes, StillTyped DEF Goto, Within, Proper, GoesOn
  <1>7. ASSUME NEW v \in Value, StoreFails(i, v), Quiet,
               DiesIn(p) \/ (Survives /\ Unset(p) /\ UNCHANGED lock)
        PROVE  Proper(p)
    <2>1. VaultNext
      BY <1>2, <1>7 DEF VaultNext
    <2>2. CASE DiesIn(p)
      BY <1>1, <1>7, <2>1, <2>2, FailedIsProper
    <2>3. CASE Survives /\ Unset(p) /\ UNCHANGED lock
      BY <1>3, <1>7, <2>1, <2>3, QuietTyped DEF Survives
    <2> QED
      BY <1>7, <2>2, <2>3
  <1> QED
    BY <1>4, <1>5, <1>6, <1>7 DEF SetItemValue, i

LEMMA UndoIsProper ==
  ASSUME StateTyped, NEW p \in Proc, Undo(p)
  PROVE  Proper(p)
  <1> DEFINE i == job[p].id
  <1>1. pc[p] = "undo" /\ pc[p] \notin Within
    BY DEF Undo, At, Within
  <1>2. i \in Id
    BY <1>1, JobTyped DEF JobFits, Making
  <1> HIDE DEF i
  <1>3. CASE Answer(p, "err", {}) /\ UNCHANGED <<vault, lock, history>>
    BY <1>1, <1>3, PlainAnswerIsProper DEF Results, Still
  <1>4. CASE Delete(i) /\ Answer(p, "err", {}) /\ UNCHANGED <<lock, history>>
    <2>1. VaultNext
      BY <1>2, <1>4 DEF VaultNext
    <2> QED
      BY <1>1, <1>4, <2>1, AnswerQuits, StillTyped DEF Proper, Results, Still
  <1>5. CASE DeleteFails(i) /\ DiesIn(p) /\ Quiet
    <2>1. VaultNext
      BY <1>2, <1>5 DEF VaultNext
    <2> QED
      BY <1>1, <1>5, <2>1, FailedIsProper
  <1> QED
    BY <1>3, <1>4, <1>5 DEF Undo, i

LEMMA FetchIsProper ==
  ASSUME StateTyped, NEW p \in Proc, Fetch(p)
  PROVE  Proper(p)
  <1>1. pc[p] = "fetch" /\ pc[p] \notin Within
    BY DEF Fetch, At, Within
  <1>2. job[p].id \in Id
    BY <1>1, JobTyped DEF JobFits, Making
  <1>3. CASE Made(p) /\ UNCHANGED <<vault, lock>>
    BY <1>1, <1>2, <1>3, MadeTyped DEF Proper
  <1>4. CASE Answer(p, "err", {}) /\ UNCHANGED <<vault, lock, history>>
    BY <1>1, <1>4, PlainAnswerIsProper DEF Results, Still
  <1>5. CASE Dies(job[p].op)
    BY <1>5, JobTyped, DiesIsProper
  <1> QED
    BY <1>3, <1>4, <1>5 DEF Fetch

LEMMA ListItemsIsProper ==
  ASSUME StateTyped, NEW p \in Proc, ListItems(p)
  PROVE  Proper(p)
  <1> DEFINE j == [job[p] EXCEPT !.done = {i \in Id : Has(i)}]
  <1>1. pc[p] = "list" /\ Become(p, j, "send") /\ lock' = lock /\ Still /\ UNCHANGED vault
    BY DEF ListItems, At, Still
  <1> HIDE DEF j
  <1>2. Goes(p, j, "send") /\ reply' \in Replies
    BY <1>1, BecomeGoes DEF Within
  <1> QED
    BY <1>1, <1>2, StillTyped DEF Proper, GoesOn, j

LEMMA DeleteItemIsProper ==
  ASSUME StateTyped, NEW p \in Proc, DeleteItem(p)
  PROVE  Proper(p)
  <1>1. pc[p] = "delete" /\ pc[p] \notin Within
    BY DEF DeleteItem, At, Within
  <1>2. job[p].todo \in SUBSET Id
    BY JobTyped
  <1>3. CASE Answer(p, "err", {}) /\ UNCHANGED <<vault, lock, history>>
    BY <1>1, <1>3, PlainAnswerIsProper DEF Results, Still
  <1>4. ASSUME NEW i \in job[p].todo, NEW phase \in {"delete", "send"},
               Become(p, [job[p] EXCEPT !.todo = @ \ {i}, !.done = @ \cup {i}], phase),
               UNCHANGED vault \/ Delete(i), UNCHANGED <<lock, fresh, readers>>,
               \/ removed' = removed \cup {i} /\ made' = made \ {i}
               \/ UNCHANGED <<made, removed>>
        PROVE  Proper(p)
    <2> DEFINE j == [job[p] EXCEPT !.todo = @ \ {i}, !.done = @ \cup {i}]
    <2>1. i \in Id
      BY <1>2
    <2>2. VaultNext \/ UNCHANGED vault
      BY <1>4, <2>1 DEF VaultNext
    <2>3. HistoryTyped'
      BY <1>4, <2>1 DEF StateTyped, HistoryTyped
    <2>4. Become(p, j, phase)
      BY <1>4
    <2> HIDE DEF j
    <2>5. Goes(p, j, phase) /\ reply' \in Replies
      BY <1>4, <2>4, BecomeGoes DEF Within
    <2>6. GoesOn(p)
      BY <1>1, <1>4, <2>5 DEF GoesOn, j
    <2> QED
      BY <2>2, <2>3, <2>5, <2>6 DEF Proper
  <1>5. ASSUME NEW i \in job[p].todo, DeleteFails(i), DiesIn(p), Quiet
        PROVE  Proper(p)
    <2>1. VaultNext
      BY <1>2, <1>5 DEF VaultNext
    <2> QED
      BY <1>1, <1>5, <2>1, FailedIsProper
  <1>6. PICK i \in job[p].todo :
          \/ Answer(p, "err", {}) /\ UNCHANGED <<vault, lock, history>>
          \/ /\ \E phase \in {"delete", "send"} :
                  Become(p, [job[p] EXCEPT !.todo = @ \ {i}, !.done = @ \cup {i}], phase)
             /\ UNCHANGED vault \/ Delete(i)
             /\ UNCHANGED <<lock, fresh, readers>>
             /\ \/ removed' = removed \cup {i} /\ made' = made \ {i}
                \/ UNCHANGED <<made, removed>>
          \/ DeleteFails(i) /\ DiesIn(p) /\ Quiet
    BY DEF DeleteItem
  <1> QED
    BY <1>3, <1>4, <1>5, <1>6

LEMMA SendIsProper ==
  ASSUME StateTyped, NEW p \in Proc, Send(p)
  PROVE  Proper(p)
  <1>1. pc[p] = "send" /\ pc[p] \notin Within /\ lock' = lock /\ UNCHANGED vault /\ Still
    BY DEF Send, Within, Still
  <1>2. job[p].done \in SUBSET Id
    BY JobTyped
  <1>3. CASE Answer(p, "ok", job[p].done)
    BY <1>1, <1>2, <1>3, PlainAnswerIsProper DEF Results
  <1>4. CASE Answer(p, "err", {})
    BY <1>1, <1>4, PlainAnswerIsProper DEF Results
  <1> QED
    BY <1>3, <1>4 DEF Send

LEMMA ReadItemIsProper ==
  ASSUME StateTyped, NEW p \in Proc, ReadItem(p)
  PROVE  Proper(p)
  <1> DEFINE i == job[p].id
             a == job[p].addr
  <1>1. pc[p] = "read" /\ pc[p] \notin Within /\ lock \in {Nil, p}
    BY DEF ReadItem, At, Free, Within
  <1>2. i \in Id /\ (a # Nil => a \in Peer)
    BY <1>1, JobTyped DEF JobFits, Reads
  <1> HIDE DEF i, a
  <1>3. CASE Answer(p, "err", {}) /\ UNCHANGED <<vault, lock, history>>
    BY <1>1, <1>3, PlainAnswerIsProper DEF Results, Still
  <1>4. CASE /\ Goto(p, "value") /\ Hold(p) /\ Still
             /\ UNCHANGED vault \/ (a # Nil /\ Bind(i, a))
    <2>1. VaultNext \/ UNCHANGED vault
      BY <1>2, <1>4 DEF VaultNext
    <2> QED
      BY <1>1, <1>4, <2>1, BecomeGoes, StillTyped
         DEF Goto, Hold, Within, Proper, GoesOn
  <1>5. CASE /\ a # Nil /\ BindFails(i, a) /\ Quiet
             /\ DiesIn(p) \/ (Survives /\ Answer(p, "err", {}) /\ UNCHANGED lock)
    <2>1. VaultNext
      BY <1>2, <1>5 DEF VaultNext
    <2> QED
      BY <1>1, <1>5, <2>1, FailedIsProper
  <1> QED
    BY <1>3, <1>4, <1>5 DEF ReadItem, i, a, Still

LEMMA ReadItemValueIsProper ==
  ASSUME StateTyped, NEW p \in Proc, ReadItemValue(p)
  PROVE  Proper(p)
  <1> DEFINE i == job[p].id
  <1>1. pc[p] = "value" /\ lock = p
    BY DEF ReadItemValue
  <1>2. i \in Id /\ (job[p].op = "readAsClient" => job[p].addr \in Peer)
    BY <1>1, JobTyped DEF JobFits, Reads
  <1> HIDE DEF i
  <1>3. CASE /\ Answer(p, "ok", {i}) /\ Release /\ UNCHANGED <<vault, ids>>
             /\ readers' = IF job[p].op = "readAsClient"
                           THEN [readers EXCEPT ![i] = @ \cup {job[p].addr}]
                           ELSE readers
    <2>1. HistoryTyped'
      BY <1>2, <1>3 DEF StateTyped, HistoryTyped, ids
    <2> QED
      BY <1>1, <1>2, <1>3, <2>1, AnswerQuits DEF Release, Proper, Results
  <1>4. CASE Answer(p, "err", {}) /\ Release /\ UNCHANGED <<vault, history>>
    BY <1>1, <1>4, PlainAnswerIsProper DEF Results, Release, Still
  <1>5. CASE Dies(job[p].op)
    BY <1>5, JobTyped, DiesIsProper
  <1> QED
    BY <1>3, <1>4, <1>5 DEF ReadItemValue, i

LEMMA SetRecoveryRecipientIsProper ==
  ASSUME StateTyped, NEW p \in Proc, SetRecoveryRecipient(p)
  PROVE  Proper(p)
  <1> DEFINE S == {i \in Id : disk[i] # Nil}
             j == [job[p] EXCEPT !.todo = S]
  <1>1. pc[p] = "recover" /\ pc[p] \notin Within /\ lock \in {Nil, p}
    BY DEF SetRecoveryRecipient, At, Free, Within
  <1>2. CASE Answer(p, "err", {}) /\ UNCHANGED <<vault, lock, history>>
    BY <1>1, <1>2, PlainAnswerIsProper DEF Results, Still
  <1>3. CASE Become(p, j, "reencrypt") /\ Hold(p) /\ UNCHANGED <<vault, history>>
    <2>1. S \in SUBSET Id
      OBVIOUS
    <2>2. Become(p, j, "reencrypt")
      BY <1>3
    <2> HIDE DEF j, S
    <2>3. "reencrypt" \in Within /\ lock \in {Nil, p} /\ lock' = p
      BY <1>1, <1>3 DEF Hold, Within
    <2>4. Goes(p, j, "reencrypt") /\ reply' \in Replies
      BY <2>2, <2>3, BecomeGoes
    <2>5. GoesOn(p)
      BY <1>1, <2>1, <2>4 DEF GoesOn, j
    <2> QED
      BY <1>3, <2>4, <2>5, StillTyped DEF Proper, Still
  <1>4. CASE Dies(job[p].op)
    BY <1>4, JobTyped, DiesIsProper
  <1> QED
    BY <1>2, <1>3, <1>4 DEF SetRecoveryRecipient

LEMMA ReencryptIsProper ==
  ASSUME StateTyped, NEW p \in Proc, Reencrypt(p)
  PROVE  Proper(p)
  <1>1. pc[p] = "reencrypt" /\ lock = p /\ job[p].todo \in SUBSET Id
    BY JobTyped DEF Reencrypt
  <1>2. CASE Answer(p, "ok", {}) /\ Release /\ UNCHANGED <<vault, history>>
    BY <1>1, <1>2, PlainAnswerIsProper DEF Results, Release, Still
  <1>3. ASSUME NEW i \in job[p].todo
        PROVE  /\ Become(p, [job[p] EXCEPT !.todo = @ \ {i}], "reencrypt")
               /\ UNCHANGED lock
               => GoesOn(p) /\ reply' \in Replies
    <2> DEFINE S == job[p].todo \ {i}
               j == [job[p] EXCEPT !.todo = S]
    <2> SUFFICES ASSUME Become(p, [job[p] EXCEPT !.todo = @ \ {i}], "reencrypt"),
                        UNCHANGED lock
                 PROVE  GoesOn(p) /\ reply' \in Replies
      OBVIOUS
    <2>1. S \in SUBSET Id
      BY <1>1
    <2>2. Become(p, j, "reencrypt")
      OBVIOUS
    <2> HIDE DEF j, S
    <2>3. Goes(p, j, "reencrypt") /\ reply' \in Replies
      BY <1>1, <2>2, BecomeGoes DEF Within
    <2> QED
      BY <1>1, <2>1, <2>3 DEF GoesOn, j
  <1>4. ASSUME NEW i \in job[p].todo, Refresh({i}) \/ UNCHANGED vault, Still,
               Become(p, [job[p] EXCEPT !.todo = @ \ {i}], "reencrypt"),
               UNCHANGED lock
        PROVE  Proper(p)
    <2>1. VaultNext \/ UNCHANGED vault
      BY <1>1, <1>4 DEF VaultNext
    <2> QED
      BY <1>3, <1>4, <2>1, StillTyped DEF Proper
  <1>5. ASSUME NEW i \in job[p].todo, RefreshFails(i), Quiet
        PROVE  /\ DiesIn(p) => Proper(p)
               /\ /\ Survives
                  /\ Become(p, [job[p] EXCEPT !.todo = @ \ {i}], "reencrypt")
                  /\ UNCHANGED lock
                  => Proper(p)
    <2>1. VaultNext
      BY <1>1, <1>5 DEF VaultNext
    <2>2. ASSUME DiesIn(p)
          PROVE  Proper(p)
      BY <2>1, <2>2, <1>5, JobTyped, AllEndQuits, QuietTyped
         DEF DiesIn, Unsettle, Proper
    <2>3. ASSUME Survives, UNCHANGED lock,
                 Become(p, [job[p] EXCEPT !.todo = @ \ {i}], "reencrypt")
          PROVE  Proper(p)
      BY <1>3, <1>5, <2>1, <2>3, QuietTyped DEF Survives, Proper
    <2> QED
      BY <2>2, <2>3
  <1> QED
    BY <1>2, <1>4, <1>5 DEF Reencrypt, Still

LEMMA LockVaultIsProper ==
  ASSUME StateTyped, NEW p \in Proc, LockVault(p)
  PROVE  Proper(p)
  <1>1. pc[p] = "lock" /\ pc[p] \notin Within /\ Answer(p, "ok", {}) /\ lock' = lock
    BY DEF LockVault, At, Within
  <1>2. CASE UNCHANGED <<vault, history>>
    BY <1>1, <1>2, PlainAnswerIsProper DEF Results, Still
  <1>3. CASE Close /\ Unsettle /\ Quiet
    BY <1>1, <1>3, AnswerQuits, QuietTyped DEF Results, Unsettle, Proper, VaultNext
  <1> QED
    BY <1>2, <1>3 DEF LockVault

LEMMA UnlockVaultIsProper ==
  ASSUME StateTyped, NEW p \in Proc, UnlockVault(p)
  PROVE  Proper(p)
  <1> DEFINE k == job[p].pass
  <1>1. pc[p] = "unlock" /\ pc[p] \notin Within /\ lock \in {Nil, p}
    BY DEF UnlockVault, At, Free, Within
  <1>2. k \in Pass
    BY <1>1, JobTyped DEF JobFits
  <1> HIDE DEF k
  <1>3. CASE (Answer(p, "ok", {}) \/ Answer(p, "err", {}))
               /\ UNCHANGED <<vault, lock, history>>
    BY <1>1, <1>3, PlainAnswerIsProper DEF Results, Still
  <1>4. CASE Dies(job[p].op)
    BY <1>4, JobTyped, DiesIsProper
  <1>5. CASE TakeKey(k) /\ Goto(p, "load") /\ Hold(p) /\ Still
    <2>1. VaultNext
      BY <1>2, <1>5 DEF VaultNext
    <2> QED
      BY <1>1, <1>5, <2>1, BecomeGoes, StillTyped
         DEF Goto, Hold, Within, Proper, GoesOn
  <1>6. CASE /\ SealFails(k) /\ Quiet
             /\ DiesIn(p) \/ (Survives /\ Answer(p, "err", {}) /\ UNCHANGED lock)
    <2>1. VaultNext
      BY <1>2, <1>6 DEF VaultNext
    <2> QED
      BY <1>1, <1>6, <2>1, FailedIsProper
  <1> QED
    BY <1>3, <1>4, <1>5, <1>6 DEF UnlockVault, k

LEMMA LoadItemsIsProper ==
  ASSUME StateTyped, NEW p \in Proc, LoadItems(p)
  PROVE  Proper(p)
  <1>1. pc[p] = "load" /\ lock = p
    BY DEF LoadItems
  <1>2. ASSUME NEW missed \in SUBSET Id, Load(missed), Answer(p, "ok", {}), GiveBack,
               Still
        PROVE  Proper(p)
    BY <1>1, <1>2, AnswerQuits, StillTyped
       DEF Results, GiveBack, Release, Proper, VaultNext
  <1>3. CASE Answer(p, "err", {}) /\ GiveBack /\ UNCHANGED <<vault, history>>
    BY <1>1, <1>3, PlainAnswerIsProper DEF Results, GiveBack, Release, Still
  <1>4. CASE Close /\ Unsettle /\ Quiet /\ Answer(p, "err", {}) /\ GiveBack
    BY <1>1, <1>4, AnswerQuits, QuietTyped
       DEF Results, GiveBack, Release, Unsettle, Proper, VaultNext
  <1>5. CASE Dies(job[p].op)
    BY <1>5, JobTyped, DiesIsProper
  <1> QED
    BY <1>2, <1>3, <1>4, <1>5 DEF LoadItems

LEMMA GetInfoIsProper ==
  ASSUME StateTyped, NEW p \in Proc, GetInfo(p)
  PROVE  Proper(p)
  BY PlainAnswerIsProper DEF GetInfo, Results, Within, Still

LEMMA ServeIsProper ==
  ASSUME StateTyped, NEW p \in Proc, Serve(p)
  PROVE  Proper(p)
  BY VerifyIsProper, AuthenticateIsProper, CreateItemIsProper, SetItemValueIsProper,
     UndoIsProper, FetchIsProper, ListItemsIsProper, DeleteItemIsProper, SendIsProper,
     ReadItemIsProper, ReadItemValueIsProper, SetRecoveryRecipientIsProper,
     ReencryptIsProper, LockVaultIsProper, UnlockVaultIsProper, LoadItemsIsProper,
     GetInfoIsProper DEF Serve

-----------------------------------------------------------------------------
(* Types *)

(* What a client may ask for. *)
LEMMA RequestFits ==
  ASSUME born \subseteq Id, NEW r \in Requests
  PROVE  /\ r \in Jobs /\ r.op \in Ops /\ FirstPhase(r.op) \in Phases \ {"idle"}
         /\ FirstPhase(r.op) \in {"verify", "authenticate", "lock", "unlock", "info"}
         /\ FirstPhase(r.op) = "verify" => r.op \in Creations
              \cup {"listItems", "deleteItems", "setRecipient", "readAsAdmin"}
         /\ FirstPhase(r.op) = "authenticate" => r.op = "readAsClient" /\ r.cid \in born
         /\ FirstPhase(r.op) \in {"lock", "unlock", "info"} => FirstPhase(r.op) = r.op
         /\ r.op = "unlock" => r.pass \in Pass
         /\ r.op = "readAsClient" => r.id \in born /\ r.addr \in Peer
         /\ r.op = "readAsAdmin" => r.id \in born /\ r.addr = Nil
         /\ r.op = "deleteItems" => r.todo \subseteq born
  <1> DEFINE Own == Creations \cup {"listItems", "setRecipient", "unlock"}
  <1>1. ASSUME NEW op \in Own, NEW k \in Pass
        PROVE  Signed(op, k) \in Jobs /\ Signed(op, k).op = op /\ Signed(op, k).pass = k
    BY DEF Signed, NoJob, Jobs, Ops, Creations
  <1>2. ASSUME NEW k \in Pass, NEW S \in SUBSET born
        PROVE  /\ Deletion(k, S) \in Jobs /\ Deletion(k, S).op = "deleteItems"
               /\ Deletion(k, S).todo \subseteq born
    BY DEF Deletion, NoJob, Jobs, Ops
  <1>3. ASSUME NEW k \in Pass, NEW i \in born
        PROVE  /\ AdminRead(k, i) \in Jobs /\ AdminRead(k, i).op = "readAsAdmin"
               /\ AdminRead(k, i).id \in born /\ AdminRead(k, i).addr = Nil
    BY DEF AdminRead, NoJob, Jobs, Ops, Reads
  <1>4. ASSUME NEW c \in born, NEW i \in born, NEW a \in Peer
        PROVE  /\ ClientRead(c, i, a) \in Jobs /\ ClientRead(c, i, a).op = "readAsClient"
               /\ ClientRead(c, i, a).cid \in born /\ ClientRead(c, i, a).id \in born
               /\ ClientRead(c, i, a).addr \in Peer
    BY DEF ClientRead, NoJob, Jobs, Ops, Reads
  <1>5. ASSUME NEW op \in {"lock", "info"}
        PROVE  Plain(op) \in Jobs /\ Plain(op).op = op
    BY DEF Plain, NoJob, Jobs, Ops
  <1>6. \/ \E op \in Own, k \in Pass : r = Signed(op, k)
        \/ \E k \in Pass, S \in SUBSET born : r = Deletion(k, S)
        \/ \E k \in Pass, i \in born : r = AdminRead(k, i)
        \/ \E c \in born, i \in born, a \in Peer : r = ClientRead(c, i, a)
        \/ \E op \in {"lock", "info"} : r = Plain(op)
    BY DEF Requests
  <1> HIDE DEF Own
  <1>7. \/ r.op \in Own /\ r \in Jobs /\ r.pass \in Pass
        \/ r \in Jobs /\ r.op = "deleteItems" /\ r.todo \subseteq born
        \/ r \in Jobs /\ r.op = "readAsAdmin" /\ r.id \in born /\ r.addr = Nil
        \/ /\ r \in Jobs /\ r.op = "readAsClient" /\ r.cid \in born
           /\ r.id \in born /\ r.addr \in Peer
        \/ r \in Jobs /\ r.op \in {"lock", "info"}
    BY <1>1, <1>2, <1>3, <1>4, <1>5, <1>6
  <1> QED
    BY <1>7 DEF Own, Jobs, Ops, Creations, Reads, FirstPhase, Phases

LEMMA NoJobTyped == NoJob \in Jobs /\ NoJob.op = "none"
  BY DEF NoJob, Jobs

LEMMA CallGoes ==
  ASSUME StateTyped, NEW p \in Proc, Call(p)
  PROVE  /\ UNCHANGED <<vault, lock, history>> /\ reply' = NoReply /\ pc[p] = "idle"
         /\ \E r \in Requests :
              /\ Turns(p, r, FirstPhase(r.op)) /\ r \in Jobs /\ r.op \in Ops
              /\ FirstPhase(r.op) \notin Within
  <1>1. ASSUME NEW r \in Requests
        PROVE  r \in Jobs /\ r.op \in Ops /\ FirstPhase(r.op) \notin Within
    BY RequestFits DEF StateTyped, VaultTyped, Within
  <1> QED
    BY <1>1 DEF Call, Idle, Turns

(* What one RPC does leaves the others in their places. *)
LEMMA TurnsTyped ==
  ASSUME RpcsTyped, NEW p \in Proc, NEW j \in Jobs, NEW phase \in Phases,
         Turns(p, j, phase)
  PROVE  /\ pc' \in [Proc -> Phases] /\ job' \in [Proc -> Jobs]
         /\ pc'[p] = phase /\ job'[p] = j
         /\ \A q \in Proc \ {p} : pc'[q] = pc[q] /\ job'[q] = job[q]
  BY DEF RpcsTyped, Turns

LEMMA OthersFit ==
  ASSUME JobsFit, born \subseteq born', NEW p \in Proc, JobFits(p)',
         \A q \in Proc \ {p} : pc'[q] = pc[q] /\ job'[q] = job[q]
  PROVE  JobsFit'
  <1>1. ASSUME NEW q \in Proc \ {p}
        PROVE  JobFits(q)'
    BY <1>1 DEF JobsFit, JobFits, Making
  <1> QED
    BY <1>1 DEF JobsFit

LEMMA LockStaysFit ==
  ASSUME ControlOK, NEW p \in Proc,
         \A q \in Proc \ {p} : pc'[q] = pc[q],
         \/ pc'[p] \in Within /\ lock' = p /\ lock \in {Nil, p}
         \/ pc'[p] \notin Within /\ lock' = (IF lock = p THEN Nil ELSE lock)
         \/ pc'[p] \notin Within /\ pc[p] \notin Within /\ lock' = lock
  PROVE  LockFits' /\ lock' \in Proc \cup {Nil}
  BY NilAssumption DEF ControlOK, RpcsTyped, LockFits

LEMMA BornGrows ==
  ASSUME VaultNext \/ UNCHANGED vault
  PROVE  born \subseteq born'
  BY DEF VaultNext, vault, told, TakeKey, SealFails, Load, Refresh, Close, Create,
         CreateFails, Delete, DeleteFails, RefreshFails, Store, StoreFails, Bind,
         BindFails

LEMMA AllQuitFits ==
  ASSUME AllQuit
  PROVE  ControlOK'
  <1>1. ASSUME NEW p \in Proc
        PROVE  pc'[p] = "idle" /\ job'[p] = NoJob /\ JobFits(p)'
    BY NoJobTyped DEF AllQuit, JobFits, Making
  <1>2. RpcsTyped'
    BY NoJobTyped DEF AllQuit, RpcsTyped, Phases
  <1>3. LockFits'
    BY <1>1, NilAssumption DEF AllQuit, LockFits, Within
  <1> QED
    BY <1>1, <1>2, <1>3 DEF ControlOK, JobsFit

LEMMA QuitsFits ==
  ASSUME ControlOK, born \subseteq born', NEW p \in Proc, Quits(p)
  PROVE  ControlOK'
  <1>1. Turns(p, NoJob, "idle") /\ "idle" \in Phases /\ RpcsTyped
    BY DEF Quits, ControlOK, Phases
  <1>2. /\ pc' \in [Proc -> Phases] /\ job' \in [Proc -> Jobs]
        /\ pc'[p] = "idle" /\ job'[p] = NoJob
        /\ \A q \in Proc \ {p} : pc'[q] = pc[q] /\ job'[q] = job[q]
    BY <1>1, NoJobTyped, TurnsTyped
  <1>3. JobFits(p)'
    BY <1>2, NoJobTyped DEF JobFits, Making
  <1>4. JobsFit'
    BY <1>2, <1>3, OthersFit DEF ControlOK
  <1>5. LockFits' /\ lock' \in Proc \cup {Nil}
    BY <1>2, LockStaysFit DEF Quits, Within
  <1> QED
    BY <1>2, <1>4, <1>5 DEF ControlOK, RpcsTyped

LEMMA GoesFits ==
  ASSUME ControlOK, born \subseteq born', NEW p \in Proc, NEW j \in Jobs,
         NEW phase \in Phases, Goes(p, j, phase), pc[p] \in Within => phase \in Within,
         pc'[p] = phase /\ job'[p] = j => JobFits(p)'
  PROVE  ControlOK'
  <1>1. Turns(p, j, phase) /\ RpcsTyped
    BY DEF Goes, ControlOK
  <1>2. /\ pc' \in [Proc -> Phases] /\ job' \in [Proc -> Jobs]
        /\ pc'[p] = phase /\ job'[p] = j
        /\ \A q \in Proc \ {p} : pc'[q] = pc[q] /\ job'[q] = job[q]
    BY <1>1, TurnsTyped
  <1>3. JobsFit'
    BY <1>2, OthersFit DEF ControlOK
  <1>4. LockFits' /\ lock' \in Proc \cup {Nil}
    BY <1>2, LockStaysFit DEF Goes
  <1> QED
    BY <1>2, <1>3, <1>4 DEF ControlOK, RpcsTyped

LEMMA GoesOnFits ==
  ASSUME StateTyped, born \subseteq born', born' \subseteq Id, NEW p \in Proc, GoesOn(p)
  PROVE  ControlOK'
  <1>1. /\ job[p] \in Jobs /\ JobFits(p) /\ ControlOK
        /\ \A i \in job[p].todo : i \in Id
    BY JobTyped DEF StateTyped
  <1>2. ASSUME NEW phase \in Phases, pc'[p] = phase, job'[p] = job[p],
               \/ pc[p] = "verify" /\ phase = AfterVerify(job[p].op)
               \/ pc[p] = "authenticate" /\ phase = "read"
               \/ pc[p] = "set" /\ job[p].op = "createItem" /\ phase = "undo"
               \/ pc[p] = "set" /\ job[p].op = "createCredentials" /\ phase = "fetch"
               \/ pc[p] = "read" /\ phase = "value"
               \/ pc[p] = "unlock" /\ phase = "load"
        PROVE  JobFits(p)'
    BY <1>1, <1>2 DEF JobFits, AfterVerify, Creations, Reads, Making
  <1>3. CASE pc[p] = "verify" /\ Goes(p, job[p], AfterVerify(job[p].op))
    <2>1. AfterVerify(job[p].op) \in Phases /\ pc[p] \notin Within
      BY <1>1, <1>3 DEF JobFits, AfterVerify, Creations, Phases, Within
    <2> QED
      BY <1>1, <1>2, <1>3, <2>1, GoesFits
  <1>4. CASE pc[p] = "authenticate" /\ Goes(p, job[p], "read")
    <2>1. "read" \in Phases /\ pc[p] \notin Within
      BY <1>4 DEF Phases, Within
    <2> QED
      BY <1>1, <1>2, <1>4, <2>1, GoesFits
  <1>5. CASE pc[p] = "set" /\ job[p].op = "createItem" /\ Goes(p, job[p], "undo")
    <2>1. "undo" \in Phases /\ pc[p] \notin Within
      BY <1>5 DEF Phases, Within
    <2> QED
      BY <1>1, <1>2, <1>5, <2>1, GoesFits
  <1>6. CASE pc[p] = "set" /\ job[p].op = "createCredentials" /\ Goes(p, job[p], "fetch")
    <2>1. "fetch" \in Phases /\ pc[p] \notin Within
      BY <1>6 DEF Phases, Within
    <2> QED
      BY <1>1, <1>2, <1>6, <2>1, GoesFits
  <1>7. CASE pc[p] = "read" /\ Goes(p, job[p], "value")
    <2>1. "value" \in Phases /\ pc[p] \notin Within
      BY <1>7 DEF Phases, Within
    <2> QED
      BY <1>1, <1>2, <1>7, <2>1, GoesFits
  <1>8. CASE pc[p] = "unlock" /\ Goes(p, job[p], "load")
    <2>1. "load" \in Phases /\ pc[p] \notin Within
      BY <1>8 DEF Phases, Within
    <2> QED
      BY <1>1, <1>2, <1>8, <2>1, GoesFits
  <1>9. ASSUME NEW i \in Id, pc[p] = "create", i \in born',
               Goes(p, [job[p] EXCEPT !.id = i], "set")
        PROVE  ControlOK'
    <2> DEFINE j == [job[p] EXCEPT !.id = i]
    <2>1. /\ j \in Jobs /\ j.op = job[p].op /\ j.op \in Creations /\ j.id = i
          /\ "set" \in Phases
      BY <1>1, <1>9 DEF Jobs, JobFits, Phases
    <2>2. Goes(p, j, "set")
      BY <1>9
    <2> HIDE DEF j
    <2> QED
      BY <1>1, <1>9, <2>1, <2>2, GoesFits DEF JobFits, Creations, Making, Within
  <1>10. ASSUME pc[p] = "list",
                Goes(p, [job[p] EXCEPT !.done = {i \in Id : Has(i)}], "send")
         PROVE  ControlOK'
    <2> DEFINE j == [job[p] EXCEPT !.done = {i \in Id : Has(i)}]
    <2>1. j \in Jobs /\ j.op = job[p].op /\ j.op = "listItems" /\ "send" \in Phases
      BY <1>1, <1>10 DEF Jobs, JobFits, Phases
    <2>2. Goes(p, j, "send")
      BY <1>10
    <2> HIDE DEF j
    <2> QED
      BY <1>1, <1>10, <2>1, <2>2, GoesFits DEF JobFits, Making, Within
  <1>11. ASSUME NEW i \in job[p].todo, NEW phase \in {"delete", "send"},
                pc[p] = "delete",
                Goes(p, [job[p] EXCEPT !.todo = @ \ {i}, !.done = @ \cup {i}], phase)
         PROVE  ControlOK'
    <2> DEFINE j == [job[p] EXCEPT !.todo = @ \ {i}, !.done = @ \cup {i}]
    <2>1. /\ j \in Jobs /\ j.op = job[p].op /\ j.op = "deleteItems"
          /\ j.todo \subseteq born /\ phase \in Phases
      BY <1>1, <1>11 DEF Jobs, JobFits, Phases
    <2>2. Goes(p, j, phase)
      BY <1>11
    <2> HIDE DEF j
    <2> QED
      BY <1>1, <1>11, <2>1, <2>2, GoesFits DEF JobFits, Making, Within
  <1>12. ASSUME NEW S \in SUBSET Id, pc[p] \in {"recover", "reencrypt"},
                Goes(p, [job[p] EXCEPT !.todo = S], "reencrypt")
         PROVE  ControlOK'
    <2> DEFINE j == [job[p] EXCEPT !.todo = S]
    <2>1. /\ j \in Jobs /\ j.op = job[p].op /\ j.op = "setRecipient"
          /\ "reencrypt" \in Phases
      BY <1>1, <1>12 DEF Jobs, JobFits, Phases
    <2>2. Goes(p, j, "reencrypt")
      BY <1>12
    <2> HIDE DEF j
    <2> QED
      BY <1>1, <1>12, <2>1, <2>2, GoesFits DEF JobFits, Making, Within
  <1> QED
    BY <1>3, <1>4, <1>5, <1>6, <1>7, <1>8, <1>9, <1>10, <1>11, <1>12 DEF GoesOn

LEMMA CallFits ==
  ASSUME StateTyped, NEW p \in Proc, Call(p)
  PROVE  ControlOK'
  <1>1. PICK r \in Requests :
          /\ Turns(p, r, FirstPhase(r.op)) /\ r \in Jobs /\ r.op \in Ops
          /\ FirstPhase(r.op) \notin Within
    BY CallGoes
  <1> DEFINE phase == FirstPhase(r.op)
  <1>2. /\ born' = born /\ lock' = lock /\ born \subseteq Id /\ ControlOK
        /\ phase \in Phases /\ pc[p] \notin Within
    BY <1>1, CallGoes, RequestFits DEF StateTyped, VaultTyped, vault, Within
  <1>3. /\ pc' \in [Proc -> Phases] /\ job' \in [Proc -> Jobs]
        /\ pc'[p] = phase /\ job'[p] = r
        /\ \A q \in Proc \ {p} : pc'[q] = pc[q] /\ job'[q] = job[q]
    BY <1>1, <1>2, TurnsTyped DEF ControlOK
  <1>4. JobFits(p)'
    <2>1. /\ phase \in {"verify", "authenticate", "lock", "unlock", "info"}
          /\ phase = "verify" => r.op \in Creations
               \cup {"listItems", "deleteItems", "setRecipient", "readAsAdmin"}
          /\ phase = "authenticate" => r.op = "readAsClient" /\ r.cid \in born
          /\ phase \in {"lock", "unlock", "info"} => phase = r.op
          /\ r.op = "unlock" => r.pass \in Pass
          /\ r.op = "readAsClient" => r.id \in born /\ r.addr \in Peer
          /\ r.op = "readAsAdmin" => r.id \in born /\ r.addr = Nil
          /\ r.op = "deleteItems" => r.todo \subseteq born
      BY <1>2, RequestFits
    <2> HIDE DEF phase
    <2> QED
      BY <1>2, <1>3, <2>1 DEF JobFits, Making
  <1> HIDE DEF phase
  <1>5. JobsFit'
    BY <1>2, <1>3, <1>4, OthersFit DEF ControlOK
  <1>6. LockFits' /\ lock' \in Proc \cup {Nil}
    BY <1>1, <1>2, <1>3, LockStaysFit DEF phase
  <1> QED
    BY <1>3, <1>5, <1>6 DEF ControlOK, RpcsTyped

LEMMA ObserveTyped ==
  ASSUME StateTyped, HistoryTyped', reply' \in Replies, Observe
  PROVE  ObserverTyped'
  <1>1. made \subseteq Id /\ removed \subseteq Id /\ seen \in [Proc -> SUBSET Id]
    BY DEF StateTyped, HistoryTyped, ObserverTyped
  <1>2. ASSUME NEW op
        PROVE  Seen(op) \in SUBSET Id
    BY <1>1 DEF Seen, Reads
  <1>3. seen' \in [Proc -> SUBSET Id]
    BY <1>1, <1>2 DEF Observe
  <1>4. calm' \in [Proc -> BOOLEAN]
    BY DEF Observe
  <1> QED
    BY <1>3, <1>4 DEF ObserverTyped

(* Any step is one of these. *)
LEMMA StepCases ==
  ASSUME StateTyped, Next
  PROVE  /\ Observe
         /\ \/ Dies("none")
            \/ \E p \in Proc : Call(p)
            \/ \E p \in Proc : Serve(p)
  BY DEF Next, Crash

LEMMA NextIsVaultNext ==
  ASSUME StateTyped, Next
  PROVE  VaultNext \/ UNCHANGED vault
  <1>1. CASE Dies("none")
    BY <1>1 DEF Dies, VaultNext
  <1>2. ASSUME NEW p \in Proc, Call(p)
        PROVE  UNCHANGED vault
    BY <1>2, CallGoes
  <1>3. ASSUME NEW p \in Proc, Serve(p)
        PROVE  VaultNext \/ UNCHANGED vault
    BY <1>3, ServeIsProper DEF Proper
  <1> QED
    BY <1>1, <1>2, <1>3, StepCases

LEMMA StateStaysTyped ==
  ASSUME StateTyped, [Next]_vars
  PROVE  StateTyped'
  <1>1. CASE UNCHANGED vars
    <2>1. VaultTyped'
      BY <1>1 DEF vars, vault, disks, mind, told, StateTyped, VaultTyped
    <2>2. ControlOK'
      BY <1>1 DEF vars, control, vault, StateTyped, ControlOK, RpcsTyped, JobsFit,
                  JobFits, Making, LockFits
    <2>3. HistoryTyped'
      BY <1>1 DEF vars, history, ids, StateTyped, HistoryTyped
    <2>4. ObserverTyped'
      BY <1>1 DEF vars, observed, StateTyped, ObserverTyped
    <2> QED
      BY <2>1, <2>2, <2>3, <2>4 DEF StateTyped
  <1>2. CASE Next
    <2>1. VaultTyped'
      <3>1. CASE VaultNext
        BY <3>1, VaultStaysTyped DEF StateTyped
      <3>2. CASE UNCHANGED vault
        BY <3>2 DEF vault, disks, mind, told, StateTyped, VaultTyped
      <3> QED
        BY <1>2, <3>1, <3>2, NextIsVaultNext
    <2>2. born \subseteq born' /\ born' \subseteq Id
      BY <1>2, <2>1, NextIsVaultNext, BornGrows DEF VaultTyped
    <2>3. ASSUME ControlOK', HistoryTyped', reply' \in Replies
          PROVE  StateTyped'
      BY <1>2, <2>1, <2>3, StepCases, ObserveTyped DEF StateTyped
    <2>4. CASE Dies("none")
      <3>1. AllQuit /\ reply' \in Replies
        BY <2>4, AllEndQuits DEF Dies, Quiet
      <3>2. HistoryTyped'
        BY <2>4, QuietTyped DEF Dies, Unsettle, Quiet
      <3> QED
        BY <2>3, <3>1, <3>2, AllQuitFits
    <2>5. ASSUME NEW p \in Proc, Call(p)
          PROVE  StateTyped'
      <3>1. HistoryTyped' /\ reply' \in Replies
        BY <2>5, CallGoes, NoReplyTyped, StillTyped DEF Still
      <3> QED
        BY <2>3, <2>5, <3>1, CallFits
    <2>6. ASSUME NEW p \in Proc, Serve(p)
          PROVE  StateTyped'
      <3>1. Proper(p) /\ ControlOK
        BY <2>6, ServeIsProper DEF StateTyped
      <3>2. ControlOK'
        BY <2>2, <3>1, AllQuitFits, QuitsFits, GoesOnFits DEF Proper
      <3> QED
        BY <2>3, <3>1, <3>2 DEF Proper
    <2> QED
      BY <1>2, <2>4, <2>5, <2>6, StepCases
  <1> QED
    BY <1>1, <1>2

LEMMA InitTyped ==
  ASSUME Init
  PROVE  StateTyped
  <1>1. VaultTyped
    BY DEF Init, VaultInit, VaultTyped
  <1>2. RpcsTyped /\ JobsFit /\ LockFits
    BY NoJobTyped, NilAssumption
       DEF Init, RpcsTyped, JobsFit, JobFits, Making, LockFits, Within, Phases
  <1>3. HistoryTyped /\ ObserverTyped
    BY NoReplyTyped DEF Init, HistoryTyped, ObserverTyped
  <1> QED
    BY <1>1, <1>2, <1>3 DEF StateTyped, ControlOK

LEMMA AlwaysTyped == Spec => []StateTyped
  BY InitTyped, StateStaysTyped, PTL DEF Spec

(* Every variable stays within the states its field or file can have, through
   whatever failures. *)
THEOREM TypeCorrect == Spec => []TypeOK
  <1>1. StateTyped => TypeOK
    BY DEF StateTyped, VaultTyped, ControlOK, RpcsTyped, HistoryTyped, ObserverTyped,
           TypeOK
  <1> QED
    BY <1>1, AlwaysTyped, PTL

(* Whoever holds the vault's lock is inside one of its calls: no RPC is answered,
   whether with an error or by a panic, and leaves a lock behind for which all
   others would wait. *)
HolderIsInside == lock # Nil => pc[lock] \in {"value", "reencrypt", "load"}

THEOREM LockIsGivenBack == Spec => []HolderIsInside
  <1>1. StateTyped => HolderIsInside
    BY DEF StateTyped, ControlOK, RpcsTyped, LockFits, Within, HolderIsInside
  <1> QED
    BY <1>1, AlwaysTyped, PTL

(* Whatever the RPCs do together, they use the vault only in ways the vault
   offers: what is promised of AtomicVault holds of the vault under the service. *)
THEOREM ServiceUsesVault == Spec => VaultSpec
  <1>1. Init => VaultInit
    BY DEF Init
  <1>2. StateTyped /\ [Next]_vars => [VaultNext]_vault
    BY NextIsVaultNext DEF vars
  <1> QED
    BY <1>1, <1>2, AlwaysTyped, PTL DEF Spec, VaultSpec

-----------------------------------------------------------------------------
(* What the vault keeps *)

(* The items are in memory only while the vault is open, and it is open only
   with its key. *)
KeyFits ==
  /\ open => key # Nil
  /\ ~open => \A i \in Id : ~Has(i)
(* Nothing is known of an id that was not drawn. *)
UnbornUnknown ==
  \A i \in Id \ born : disk[i] = Nil /\ ~Has(i) /\ acked[i] = Nil
(* Memory never names another peer than the disk. *)
Bears(i, a) ==
  /\ Has(i) => items[i].peer = a
  /\ disk[i] # Nil => disk[i].peer = a
PeersAgree ==
  \A i \in Id : Has(i) /\ items[i].peer # Nil => Bears(i, items[i].peer)
VaultSound == VaultTyped /\ KeyFits /\ UnbornUnknown /\ PeersAgree

(* What an operation on item i leaves of the others. *)
LEMMA CommitElsewhere ==
  ASSUME VaultTyped, NEW i \in Id, NEW m, Commit(i, m)
  PROVE  /\ items'[i] = m /\ disk'[i] = m
         /\ \A k \in Id \ {i} : items'[k] = items[k] /\ disk'[k] = disk[k]
         /\ open' = open /\ key' = key
  BY DEF VaultTyped, Commit

LEMMA BotchElsewhere ==
  ASSUME VaultTyped, NEW i \in Id, NEW m, Botch(i, m)
  PROVE  /\ disk'[i] \in {disk[i], m, Nil}
         /\ \A k \in Id \ {i} : disk'[k] = disk[k]
         /\ \/ items' = items /\ open' = open /\ key' = key
            \/ /\ \A k \in Id : items'[k] = Nil
               /\ open' = FALSE /\ key' = Nil
  BY DEF VaultTyped, Botch, Keep, Forget, mind

LEMMA DeleteElsewhere ==
  ASSUME VaultTyped, NEW i \in Id, Delete(i)
  PROVE  /\ items'[i] = Nil /\ disk'[i] \in {disk[i], Nil} /\ acked'[i] = Nil
         /\ MayFail \/ disk'[i] = Nil
         /\ \A k \in Id \ {i} :
              items'[k] = items[k] /\ disk'[k] = disk[k] /\ acked'[k] = acked[k]
         /\ open' = open /\ key' = key /\ born' = born
  BY DEF VaultTyped, Delete, Commit, Untold, disks

LEMMA DeleteFailsElsewhere ==
  ASSUME VaultTyped, NEW i \in Id, DeleteFails(i)
  PROVE  /\ disk'[i] \in {disk[i], Nil} /\ acked'[i] = Nil
         /\ \A k \in Id \ {i} : disk'[k] = disk[k] /\ acked'[k] = acked[k]
         /\ \A k \in Id : items'[k] = Nil
         /\ open' = FALSE /\ key' = Nil /\ born' = born
  BY DEF VaultTyped, DeleteFails, Forget, Untold

(* The forms of a step of the vault. *)
LEMMA VaultStepCases ==
  ASSUME VaultNext
  PROVE  \/ \E p \in Pass : TakeKey(p) \/ SealFails(p)
         \/ \E S \in SUBSET Id : Load(S) \/ Refresh(S)
         \/ Close
         \/ \E i \in Id : Create(i) \/ CreateFails(i) \/ Delete(i) \/ DeleteFails(i)
                            \/ RefreshFails(i)
         \/ \E i \in Id, v \in Value : Store(i, v) \/ StoreFails(i, v)
         \/ \E i \in Id, a \in Peer : Bind(i, a) \/ BindFails(i, a)
  BY DEF VaultNext

LEMMA KeyStaysFit ==
  ASSUME VaultTyped, KeyFits, VaultNext
  PROVE  KeyFits'
  <1> USE DEF KeyFits, Has
  <1>1. ASSUME NEW p \in Pass, TakeKey(p) \/ SealFails(p)
        PROVE  KeyFits'
    BY <1>1 DEF TakeKey, SealFails
  <1>2. ASSUME NEW S \in SUBSET Id, Load(S) \/ Refresh(S)
        PROVE  KeyFits'
    BY <1>2 DEF Load, Refresh
  <1>3. CASE Close
    BY <1>3 DEF Close, Forget
  <1>4. ASSUME NEW i \in Id, Delete(i) \/ DeleteFails(i)
        PROVE  KeyFits'
    BY <1>4, DeleteElsewhere, DeleteFailsElsewhere DEF Delete
  <1>5. ASSUME NEW i \in Id, NEW m, Commit(i, m), open
        PROVE  KeyFits'
    BY <1>5, CommitElsewhere
  <1>6. ASSUME NEW i \in Id, NEW m, Botch(i, m)
        PROVE  KeyFits'
    BY <1>6, BotchElsewhere
  <1> QED
    BY <1>1, <1>2, <1>3, <1>4, <1>5, <1>6, VaultStepCases
       DEF Create, CreateFails, RefreshFails, Store, StoreFails, Bind, BindFails

LEMMA UnbornStaysUnknown ==
  ASSUME VaultTyped, UnbornUnknown, VaultNext
  PROVE  UnbornUnknown'
  <1> USE DEF UnbornUnknown, Has
  <1>1. ASSUME NEW p \in Pass, TakeKey(p) \/ SealFails(p)
        PROVE  UnbornUnknown'
    BY <1>1 DEF TakeKey, SealFails, told
  <1>2. ASSUME NEW S \in SUBSET Id, Load(S) \/ Refresh(S)
        PROVE  UnbornUnknown'
    BY <1>2 DEF Load, Refresh, told, disks
  <1>3. CASE Close
    BY <1>3 DEF Close, Forget, told, disks
  <1>4. ASSUME NEW i \in Id, Delete(i) \/ DeleteFails(i)
        PROVE  UnbornUnknown'
    BY <1>4, DeleteElsewhere, DeleteFailsElsewhere
  <1>5. ASSUME NEW i \in Id, Create(i) \/ CreateFails(i)
        PROVE  UnbornUnknown'
    <2>1. born' = born \cup {i} /\ acked' = acked
      BY <1>5 DEF Create, CreateFails, told
    <2> QED
      BY <1>5, <2>1, CommitElsewhere, BotchElsewhere DEF Create, CreateFails
  <1>6. ASSUME NEW i \in Id, RefreshFails(i)
        PROVE  UnbornUnknown'
    BY <1>6, BotchElsewhere DEF RefreshFails, told
  <1>7. ASSUME NEW i \in Id, NEW v \in Value, Store(i, v) \/ StoreFails(i, v)
        PROVE  UnbornUnknown'
    <2>1. born' = born /\ i \in born /\ \A k \in Id \ {i} : acked'[k] = acked[k]
      BY <1>7 DEF Store, StoreFails, told, VaultTyped
    <2>2. CASE Store(i, v)
      BY <2>1, <2>2, CommitElsewhere DEF Store
    <2>3. CASE StoreFails(i, v)
      BY <2>1, <2>3, BotchElsewhere DEF StoreFails
    <2> QED
      BY <1>7, <2>2, <2>3
  <1>8. ASSUME NEW i \in Id, NEW a \in Peer, Bind(i, a) \/ BindFails(i, a)
        PROVE  UnbornUnknown'
    <2>1. born' = born /\ i \in born /\ acked' = acked
      BY <1>8 DEF Bind, BindFails, told
    <2> QED
      BY <1>8, <2>1, CommitElsewhere, BotchElsewhere DEF Bind, BindFails
  <1> QED
    BY <1>1, <1>2, <1>3, <1>4, <1>5, <1>6, <1>7, <1>8, VaultStepCases

(* An item that bears a peer bears it for good. *)
LEMMA PeerStays ==
  ASSUME VaultSound, VaultNext, NEW i \in born, NEW a \in Peer, Bears(i, a)
  PROVE  Bears(i, a)'
  <1> USE DEF Bears, Has
  <1>0. i \in Id /\ a # Nil
    BY NilAssumption DEF VaultSound, VaultTyped
  <1>1. ASSUME NEW p \in Pass, TakeKey(p) \/ SealFails(p)
        PROVE  Bears(i, a)'
    BY <1>1 DEF TakeKey, SealFails
  <1>2. ASSUME NEW S \in SUBSET Id, Load(S) \/ Refresh(S)
        PROVE  Bears(i, a)'
    BY <1>0, <1>2 DEF Load, Refresh, disks
  <1>3. CASE Close
    BY <1>0, <1>3 DEF Close, Forget, disks
  <1>4. ASSUME NEW k \in Id, Delete(k) \/ DeleteFails(k)
        PROVE  Bears(i, a)'
    BY <1>0, <1>4, DeleteElsewhere, DeleteFailsElsewhere DEF VaultSound
  <1>5. ASSUME NEW k \in Id, Create(k) \/ CreateFails(k)
        PROVE  Bears(i, a)'
    BY <1>0, <1>5, CommitElsewhere, BotchElsewhere DEF Create, CreateFails, VaultSound
  <1>6. ASSUME NEW k \in Id, RefreshFails(k)
        PROVE  Bears(i, a)'
    BY <1>0, <1>6, BotchElsewhere DEF RefreshFails, VaultSound
  <1>7. ASSUME NEW k \in Id, NEW v \in Value, Store(k, v) \/ StoreFails(k, v)
        PROVE  Bears(i, a)'
    <2>1. VaultTyped /\ Filled(k, v).peer = items[k].peer /\ items[k] # Nil
      BY <1>7, FilledIsMeta DEF Store, StoreFails, VaultSound
    <2>2. CASE Store(k, v)
      BY <1>0, <2>1, <2>2, CommitElsewhere DEF Store
    <2>3. CASE StoreFails(k, v)
      <3> DEFINE m == Filled(k, v)
      <3>1. Botch(k, m)
        BY <2>3 DEF StoreFails
      <3> HIDE DEF m
      <3>2. /\ disk'[k] \in {disk[k], m, Nil}
            /\ \A j \in Id \ {k} : disk'[j] = disk[j]
            /\ items' = items \/ \A j \in Id : items'[j] = Nil
        BY <2>1, <3>1, BotchElsewhere
      <3>3. m.peer = items[k].peer
        BY <2>1 DEF m
      <3> QED
        BY <1>0, <2>1, <3>2, <3>3
    <2> QED
      BY <1>7, <2>2, <2>3
  <1>8. ASSUME NEW k \in Id, NEW b \in Peer, Bind(k, b) \/ BindFails(k, b)
        PROVE  Bears(i, a)'
    <2>1. VaultTyped /\ items[k].peer = Nil /\ items[k] # Nil
      BY <1>8 DEF Bind, BindFails, VaultSound
    <2> QED
      BY <1>0, <1>8, <2>1, CommitElsewhere, BotchElsewhere DEF Bind, BindFails
  <1> QED
    BY <1>1, <1>2, <1>3, <1>4, <1>5, <1>6, <1>7, <1>8, VaultStepCases

LEMMA PeersStayAgreed ==
  ASSUME VaultSound, VaultNext
  PROVE  PeersAgree'
  <1> USE DEF Has
  <1> DEFINE Agrees(i) ==
        Has(i) /\ items[i].peer # Nil /\ disk[i] # Nil => disk[i].peer = items[i].peer
  <1>0. VaultTyped /\ VaultTyped'
    BY VaultStaysTyped DEF VaultSound
  <1>1. SUFFICES ASSUME NEW i \in Id, ~Has(i) \/ items[i].peer = Nil
                 PROVE  Agrees(i)'
    <2>1. ASSUME NEW i \in Id, Has(i), items[i].peer # Nil
          PROVE  Agrees(i)'
      <3>1. i \in born /\ items[i].peer \in Peer /\ Bears(i, items[i].peer)
        BY <2>1 DEF VaultSound, UnbornUnknown, PeersAgree, VaultTyped, Meta
      <3>2. PICK a \in Peer : a = items[i].peer
        BY <3>1
      <3>3. Bears(i, a)'
        BY <3>1, <3>2, PeerStays
      <3> QED
        BY <3>3 DEF Bears
    <2> QED
      BY <1>1, <2>1 DEF PeersAgree, Bears
  <1>2. ASSUME NEW p \in Pass, TakeKey(p) \/ SealFails(p)
        PROVE  Agrees(i)'
    BY <1>1, <1>2 DEF TakeKey, SealFails
  <1>3. ASSUME NEW S \in SUBSET Id, Load(S) \/ Refresh(S)
        PROVE  Agrees(i)'
    BY <1>1, <1>3 DEF Load, Refresh, disks
  <1>4. CASE Close
    BY <1>4 DEF Close, Forget
  <1>5. ASSUME NEW k \in Id, Delete(k) \/ DeleteFails(k)
        PROVE  Agrees(i)'
    BY <1>0, <1>1, <1>5, DeleteElsewhere, DeleteFailsElsewhere
  <1>6. ASSUME NEW k \in Id, Create(k) \/ CreateFails(k)
        PROVE  Agrees(i)'
    BY <1>0, <1>1, <1>6, CommitElsewhere, BotchElsewhere, NewItemIsMeta
       DEF Create, CreateFails
  <1>7. ASSUME NEW k \in Id, RefreshFails(k)
        PROVE  Agrees(i)'
    BY <1>0, <1>1, <1>7, BotchElsewhere DEF RefreshFails
  <1>8. ASSUME NEW k \in Id, NEW v \in Value, Store(k, v) \/ StoreFails(k, v)
        PROVE  Agrees(i)'
    <2>1. Filled(k, v).peer = items[k].peer /\ items[k] # Nil
      BY <1>0, <1>8, FilledIsMeta DEF Store, StoreFails
    <2>2. CASE Store(k, v)
      BY <1>0, <1>1, <2>1, <2>2, CommitElsewhere DEF Store
    <2>3. CASE StoreFails(k, v)
      BY <1>0, <1>1, <2>1, <2>3, BotchElsewhere DEF StoreFails
    <2> QED
      BY <1>8, <2>2, <2>3
  <1>9. ASSUME NEW k \in Id, NEW a \in Peer, Bind(k, a) \/ BindFails(k, a)
        PROVE  Agrees(i)'
    <2>1. CASE Bind(k, a)
      BY <1>0, <1>1, <2>1, CommitElsewhere DEF Bind
    <2>2. CASE BindFails(k, a)
      BY <1>0, <1>1, <2>2, BotchElsewhere DEF BindFails
    <2> QED
      BY <1>9, <2>1, <2>2
  <1> QED
    BY <1>2, <1>3, <1>4, <1>5, <1>6, <1>7, <1>8, <1>9, VaultStepCases

LEMMA VaultStaysSound ==
  ASSUME VaultSound, VaultNext \/ UNCHANGED vault
  PROVE  VaultSound'
  <1>1. CASE VaultNext
    BY <1>1, VaultStaysTyped, KeyStaysFit, UnbornStaysUnknown, PeersStayAgreed
       DEF VaultSound
  <1>2. CASE UNCHANGED vault
    <2> USE <1>2 DEF vault, disks, mind, told, VaultSound
    <2>1. VaultTyped' /\ KeyFits'
      BY DEF VaultTyped, KeyFits, Has
    <2>2. UnbornUnknown'
      BY DEF UnbornUnknown, Has
    <2>3. PeersAgree'
      BY DEF PeersAgree, Bears, Has
    <2> QED
      BY <2>1, <2>2, <2>3
  <1> QED
    BY <1>1, <1>2


-----------------------------------------------------------------------------
(* Which actions touch what *)

(* The actions that leave what clients know alone. *)
ServeAside(p) ==
  \/ Verify(p) \/ Authenticate(p) \/ ListItems(p) \/ Send(p) \/ ReadItem(p)
  \/ SetRecoveryRecipient(p) \/ Reencrypt(p)
  \/ LockVault(p) \/ UnlockVault(p) \/ LoadItems(p) \/ GetInfo(p)

LEMMA ServeCases ==
  ASSUME NEW p \in Proc, Serve(p)
  PROVE  \/ CreateItem(p) \/ SetItemValue(p) \/ Undo(p) \/ Fetch(p)
         \/ DeleteItem(p) \/ ReadItemValue(p) \/ ServeAside(p)
  BY DEF Serve, ServeAside

LEMMA AsideIsQuiet ==
  ASSUME NEW p \in Proc, ServeAside(p)
  PROVE  Quiet /\ (fresh' = fresh \/ fresh' = {})
  <1> USE DEF Still, Quiet, history, ids, Dies, Unsettle, DiesIn, Survives
  <1>1. CASE Verify(p) \/ Authenticate(p) \/ ListItems(p) \/ Send(p)
    BY <1>1 DEF Verify, Authenticate, ListItems, Send
  <1>2. CASE ReadItem(p)
    BY <1>2 DEF ReadItem
  <1>3. CASE SetRecoveryRecipient(p) \/ Reencrypt(p)
    BY <1>3 DEF SetRecoveryRecipient, Reencrypt
  <1>4. CASE LockVault(p) \/ UnlockVault(p) \/ LoadItems(p) \/ GetInfo(p)
    BY <1>4 DEF LockVault, UnlockVault, LoadItems, GetInfo
  <1> QED
    BY <1>1, <1>2, <1>3, <1>4 DEF ServeAside

LEMMA PhasesOfActions ==
  ASSUME NEW p \in Proc
  PROVE  /\ CreateItem(p) => pc[p] = "create"
         /\ SetItemValue(p) => pc[p] = "set"
         /\ Undo(p) => pc[p] = "undo"
         /\ Fetch(p) => pc[p] = "fetch"
         /\ DeleteItem(p) => pc[p] = "delete"
         /\ ReadItemValue(p) => pc[p] = "value"
         /\ ServeAside(p) => pc[p] \in {"verify", "authenticate", "list", "send", "read",
              "recover", "reencrypt", "lock", "unlock", "load", "info"}
         /\ ServeAside(p) /\ pc[p] = "read" => ReadItem(p)
         /\ ServeAside(p) /\ pc[p] = "list" => ListItems(p)
         /\ ServeAside(p) /\ pc[p] = "send" => Send(p)
  <1> USE DEF At
  <1>1. (CreateItem(p) => pc[p] = "create") /\ (SetItemValue(p) => pc[p] = "set")
    BY DEF CreateItem, SetItemValue
  <1>2. (Undo(p) => pc[p] = "undo") /\ (Fetch(p) => pc[p] = "fetch")
    BY DEF Undo, Fetch
  <1>3. (DeleteItem(p) => pc[p] = "delete") /\ (ReadItemValue(p) => pc[p] = "value")
    BY DEF DeleteItem, ReadItemValue
  <1>4. /\ Verify(p) => pc[p] = "verify"
        /\ Authenticate(p) => pc[p] = "authenticate"
        /\ ListItems(p) => pc[p] = "list"
        /\ Send(p) => pc[p] = "send"
        /\ ReadItem(p) => pc[p] = "read"
    BY DEF Verify, Authenticate, ListItems, Send, ReadItem
  <1>5. /\ SetRecoveryRecipient(p) => pc[p] = "recover"
        /\ Reencrypt(p) => pc[p] = "reencrypt"
        /\ LockVault(p) => pc[p] = "lock"
        /\ UnlockVault(p) => pc[p] = "unlock"
        /\ LoadItems(p) => pc[p] = "load"
        /\ GetInfo(p) => pc[p] = "info"
    BY DEF SetRecoveryRecipient, Reencrypt, LockVault, UnlockVault, LoadItems, GetInfo
  <1> QED
    BY <1>1, <1>2, <1>3, <1>4, <1>5 DEF ServeAside

(* While one RPC holds the lock the others can only answer. *)
LEMMA LockedOut ==
  ASSUME StateTyped, NEW p \in Proc, lock = p, NEW q \in Proc \ {p}, Serve(q)
  PROVE  UNCHANGED vault
  <1>1. \A phase : ~At(q, phase)
    BY NilAssumption DEF At, Free
  <1>2. lock # q
    OBVIOUS
  <1> USE <1>1, <1>2
  <1>3. ~(Verify(q) \/ Authenticate(q) \/ CreateItem(q) \/ SetItemValue(q))
    BY DEF Verify, Authenticate, CreateItem, SetItemValue
  <1>4. ~(Undo(q) \/ Fetch(q) \/ ListItems(q) \/ DeleteItem(q) \/ ReadItem(q))
    BY DEF Undo, Fetch, ListItems, DeleteItem, ReadItem
  <1>5. ~(SetRecoveryRecipient(q) \/ LockVault(q) \/ UnlockVault(q))
    BY DEF SetRecoveryRecipient, LockVault, UnlockVault
  <1>6. ~(ReadItemValue(q) \/ Reencrypt(q) \/ LoadItems(q))
    BY DEF ReadItemValue, Reencrypt, LoadItems
  <1>7. Send(q) \/ GetInfo(q)
    BY <1>3, <1>4, <1>5, <1>6 DEF Serve
  <1> QED
    BY <1>7 DEF Send, GetInfo

(* Where the RPCs are after a step of one of them. *)
LEMMA Places ==
  ASSUME StateTyped, NEW p \in Proc, Serve(p)
  PROVE  \/ AllQuit /\ \A q \in Proc : pc'[q] = "idle" /\ job'[q] = NoJob
         \/ /\ pc'[p] = "idle" /\ job'[p] = NoJob
            /\ \A q \in Proc \ {p} : pc'[q] = pc[q] /\ job'[q] = job[q]
         \/ /\ pc'[p] # "idle" /\ job'[p].op = job[p].op /\ GoesOn(p)
            /\ \A q \in Proc \ {p} : pc'[q] = pc[q] /\ job'[q] = job[q]
  <1>1. Proper(p) /\ RpcsTyped /\ JobFits(p)
    BY ServeIsProper, JobTyped DEF StateTyped, ControlOK
  <1>2. CASE AllQuit
    BY <1>2 DEF AllQuit
  <1>3. CASE Quits(p)
    BY <1>1, <1>3 DEF Quits, Turns, RpcsTyped
  <1>4. CASE GoesOn(p)
    <2>1. ASSUME NEW j, NEW phase, Turns(p, j, phase)
          PROVE  /\ pc'[p] = phase /\ job'[p] = j
                 /\ \A q \in Proc \ {p} : pc'[q] = pc[q] /\ job'[q] = job[q]
      BY <1>1, <2>1 DEF Turns, RpcsTyped
    <2>2. \E j, phase : /\ Turns(p, j, phase) /\ phase # "idle" /\ j.op = job[p].op
      <3>1. job[p] \in Jobs
        BY JobTyped
      <3>2. CASE pc[p] = "verify" /\ Goes(p, job[p], AfterVerify(job[p].op))
        BY <1>1, <3>2 DEF Goes, JobFits, AfterVerify, Creations
      <3>3. ASSUME NEW phase, Goes(p, job[p], phase), phase # "idle"
            PROVE  \E j, ph : Turns(p, j, ph) /\ ph # "idle" /\ j.op = job[p].op
        BY <3>3 DEF Goes
      <3>4. ASSUME NEW i \in Id, Goes(p, [job[p] EXCEPT !.id = i], "set")
            PROVE  \E j, ph : Turns(p, j, ph) /\ ph # "idle" /\ j.op = job[p].op
        <4> DEFINE j == [job[p] EXCEPT !.id = i]
        <4>1. Turns(p, j, "set") /\ j.op = job[p].op
          BY <3>1, <3>4 DEF Goes, Jobs
        <4> HIDE DEF j
        <4> QED
          BY <4>1
      <3>5. ASSUME NEW S, Goes(p, [job[p] EXCEPT !.done = S], "send")
            PROVE  \E j, ph : Turns(p, j, ph) /\ ph # "idle" /\ j.op = job[p].op
        <4> DEFINE j == [job[p] EXCEPT !.done = S]
        <4>1. Turns(p, j, "send") /\ j.op = job[p].op
          BY <3>1, <3>5 DEF Goes, Jobs
        <4> HIDE DEF j
        <4> QED
          BY <4>1
      <3>6. ASSUME NEW i, NEW phase \in {"delete", "send"},
                   Goes(p, [job[p] EXCEPT !.todo = @ \ {i}, !.done = @ \cup {i}], phase)
            PROVE  \E j, ph : Turns(p, j, ph) /\ ph # "idle" /\ j.op = job[p].op
        <4> DEFINE j == [job[p] EXCEPT !.todo = @ \ {i}, !.done = @ \cup {i}]
        <4>1. Turns(p, j, phase) /\ j.op = job[p].op
          BY <3>1, <3>6 DEF Goes, Jobs
        <4> HIDE DEF j
        <4> QED
          BY <4>1
      <3>7. ASSUME NEW S, Goes(p, [job[p] EXCEPT !.todo = S], "reencrypt")
            PROVE  \E j, ph : Turns(p, j, ph) /\ ph # "idle" /\ j.op = job[p].op
        <4> DEFINE j == [job[p] EXCEPT !.todo = S]
        <4>1. Turns(p, j, "reencrypt") /\ j.op = job[p].op
          BY <3>1, <3>7 DEF Goes, Jobs
        <4> HIDE DEF j
        <4> QED
          BY <4>1
      <3> QED
        BY <1>4, <3>2, <3>3, <3>4, <3>5, <3>6, <3>7 DEF GoesOn
    <2> QED
      BY <1>4, <2>1, <2>2
  <1> QED
    BY <1>1, <1>2, <1>3, <1>4 DEF Proper

-----------------------------------------------------------------------------
(* One address reads an item *)

(* Once the item was found to be the reader's, the lock keeps it that. *)
Readable(i, a) == Has(i) /\ (a # Nil => items[i].peer = a)
ValueFits == \A p \in Proc : pc[p] = "value" => Readable(job[p].id, job[p].addr)

(* An item that was read by a client bears its address, in memory and on disk,
   for as long as it is there. *)
ReadersFit == \A i \in Id : \A a \in readers[i] : i \in born /\ Bears(i, a)

LEMMA ReadItemFits ==
  ASSUME StateTyped, VaultSound, NEW p \in Proc, ReadItem(p), pc'[p] = "value"
  PROVE  job'[p] = job[p] /\ Readable(job[p].id, job[p].addr)'
  <1> DEFINE i == job[p].id
             a == job[p].addr
  <1>1. /\ pc[p] = "read" /\ i \in Id /\ (a # Nil => a \in Peer)
        /\ pc \in [Proc -> Phases] /\ job \in [Proc -> Jobs]
    BY JobTyped DEF ReadItem, At, JobFits, Reads, StateTyped, ControlOK, RpcsTyped
  <1>2. \/ Has(i) /\ (a # Nil => items[i].peer = a) /\ Goto(p, "value") /\ UNCHANGED vault
        \/ a # Nil /\ Bind(i, a) /\ Goto(p, "value")
    BY <1>1 DEF ReadItem, Answer, DiesIn, AllEnd
  <1>3. job'[p] = job[p]
    BY <1>1, <1>2 DEF Goto, Become
  <1>4. PICK b \in Peer \cup {Nil} : b = a
    BY <1>1
  <1>5. PICK k \in Id : k = i
    BY <1>1
  <1> HIDE DEF i, a
  <1>6. (Has(k) /\ (b # Nil => items[k].peer = b))'
    <2>1. CASE /\ Has(i) /\ (a # Nil => items[i].peer = a) /\ UNCHANGED vault
      BY <1>4, <1>5, <2>1 DEF vault, mind, Has
    <2>2. CASE a # Nil /\ Bind(i, a)
      <3>1. a \in Peer /\ Commit(i, Claimed(i, a)) /\ VaultTyped /\ Has(i)
        BY <1>1, <2>2 DEF Bind, VaultSound
      <3>2. items'[i] = Claimed(i, a) /\ Claimed(i, a) # Nil /\ Claimed(i, a).peer = a
        BY <1>1, <3>1, CommitElsewhere, ClaimedIsMeta
      <3> QED
        BY <1>4, <1>5, <3>2 DEF Has
    <2> QED
      BY <1>2, <2>1, <2>2
  <1>7. job'[p].id = k /\ job'[p].addr = b
    BY <1>3, <1>4, <1>5 DEF i, a
  <1> QED
    BY <1>3, <1>6, <1>7 DEF Readable, Has

LEMMA ValueStaysFit ==
  ASSUME StateTyped, VaultSound, ValueFits, Next
  PROVE  ValueFits'
  <1>1. CASE Dies("none")
    BY <1>1 DEF Dies, AllEnd, ValueFits
  <1>2. ASSUME NEW q \in Proc, Call(q)
        PROVE  ValueFits'
    <2>1. PICK r \in Requests : Turns(q, r, FirstPhase(r.op)) /\ FirstPhase(r.op) \notin Within
      BY <1>2, CallGoes
    <2>2. UNCHANGED vault /\ pc \in [Proc -> Phases] /\ job \in [Proc -> Jobs]
      BY <1>2, CallGoes DEF StateTyped, ControlOK, RpcsTyped
    <2>3. \A p \in Proc : pc'[p] = "value" => pc[p] = "value" /\ job'[p] = job[p]
      BY <2>1, <2>2 DEF Turns, Within
    <2> QED
      BY <2>2, <2>3 DEF ValueFits, Readable, Has, vault, mind
  <1>3. ASSUME NEW q \in Proc, Serve(q), NEW p \in Proc, pc'[p] = "value"
        PROVE  Readable(job[p].id, job[p].addr)'
    <2>1. CASE p = q
      <3>1. pc'[p] # "idle" /\ GoesOn(p)
        BY <1>3, <2>1, Places
      <3>2. pc[p] = "read"
        <4>1. pc \in [Proc -> Phases]
          BY DEF StateTyped, ControlOK, RpcsTyped
        <4>2. AfterVerify(job[p].op) # "value" \/ pc[p] # "verify"
          BY JobTyped DEF JobFits, AfterVerify, Creations
        <4> QED
          BY <1>3, <3>1, <4>1, <4>2 DEF GoesOn, Goes, Turns
      <3>3. ReadItem(p)
        BY <1>3, <2>1, <3>2, ServeCases, PhasesOfActions
      <3> QED
        BY <1>3, <3>3, ReadItemFits
    <2>2. CASE p # q
      <3>1. pc[p] = "value" /\ job'[p] = job[p]
        BY <1>3, <2>2, Places
      <3>2. lock = p
        BY <3>1, JobTyped DEF Within
      <3>3. UNCHANGED vault
        BY <1>3, <2>2, <3>2, LockedOut
      <3> QED
        BY <3>1, <3>3 DEF ValueFits, Readable, Has, vault, mind
    <2> QED
      BY <2>1, <2>2
  <1> QED
    BY <1>1, <1>2, <1>3, StepCases DEF ValueFits

(* The value is given to the address the item bears. *)
LEMMA ReadersAreNoted ==
  ASSUME NEW p \in Proc, Serve(p), StateTyped
  PROVE  \/ readers' = readers
         \/ /\ pc[p] = "value" /\ job[p].op = "readAsClient" /\ UNCHANGED vault
            /\ readers' = [readers EXCEPT ![job[p].id] = @ \cup {job[p].addr}]
  <1> USE DEF Still, Quiet, history, ids, Dies
  <1>1. CASE ReadItemValue(p)
    BY <1>1 DEF ReadItemValue
  <1>2. CASE ServeAside(p)
    BY <1>2, AsideIsQuiet
  <1>3. CASE CreateItem(p) \/ SetItemValue(p)
    BY <1>3 DEF CreateItem, SetItemValue, Made
  <1>4. CASE Undo(p) \/ Fetch(p) \/ DeleteItem(p)
    BY <1>4 DEF Undo, Fetch, Made, DeleteItem
  <1> QED
    BY <1>1, <1>2, <1>3, <1>4, ServeCases

LEMMA ReadersStayFit ==
  ASSUME StateTyped, VaultSound, ValueFits, ReadersFit, OneReader, Next
  PROVE  ReadersFit' /\ OneReader'
  <1>1. /\ readers \in [Id -> SUBSET Peer]
        /\ VaultNext \/ UNCHANGED vault
    BY NextIsVaultNext DEF StateTyped, HistoryTyped
  <1>2. born \subseteq born'
    BY <1>1, BornGrows
  <1>3. ASSUME NEW i \in Id, NEW a \in Peer, i \in born, Bears(i, a)
        PROVE  Bears(i, a)'
    BY <1>1, <1>3, PeerStays DEF Bears, Has, vault, disks, mind
  <1>4. CASE readers' = readers
    <2>1. ReadersFit'
      <3> SUFFICES ASSUME NEW i \in Id, NEW a \in readers[i]
                   PROVE  i \in born' /\ Bears(i, a)'
        BY <1>4 DEF ReadersFit
      <3>1. a \in Peer /\ i \in born /\ Bears(i, a)
        BY <1>1 DEF ReadersFit
      <3> QED
        BY <1>2, <1>3, <3>1
    <2> QED
      BY <1>4, <2>1 DEF OneReader
  <1>5. ASSUME NEW p \in Proc, pc[p] = "value", job[p].op = "readAsClient",
               UNCHANGED vault,
               readers' = [readers EXCEPT ![job[p].id] = @ \cup {job[p].addr}]
        PROVE  ReadersFit' /\ OneReader'
    <2>1. PICK k \in born, b \in Peer : k = job[p].id /\ b = job[p].addr
      BY <1>5, JobTyped DEF JobFits
    <2>2. k \in Id /\ b # Nil /\ Has(k) /\ items[k].peer = b
      BY <1>5, <2>1, NilAssumption DEF ValueFits, Readable, VaultSound, VaultTyped
    <2>3. Bears(k, b)
      BY <2>2 DEF VaultSound, PeersAgree
    <2>4. /\ readers'[k] = readers[k] \cup {b}
          /\ \A i \in Id \ {k} : readers'[i] = readers[i]
      BY <1>1, <1>5, <2>1, <2>2
    <2>5. \A a \in readers[k] : a = b
      BY <2>2 DEF ReadersFit, Bears
    <2>6. OneReader'
      BY <2>4, <2>5 DEF OneReader
    <2>7. ReadersFit'
      BY <1>5, <2>1, <2>2, <2>3, <2>4
         DEF ReadersFit, Bears, Has, vault, disks, mind
    <2> QED
      BY <2>6, <2>7
  <1>6. ASSUME Dies("none") \/ \E p \in Proc : Call(p)
        PROVE  readers' = readers
    BY <1>6, CallGoes DEF Dies, history
  <1> QED
    BY <1>4, <1>5, <1>6, StepCases, ReadersAreNoted

ReadsSound == StateTyped /\ VaultSound /\ ValueFits /\ ReadersFit /\ OneReader

LEMMA InitSound == Init => ReadsSound
  BY InitTyped
     DEF Init, VaultInit, ReadsSound, StateTyped, VaultSound, KeyFits, UnbornUnknown,
         PeersAgree, Has, ValueFits, ReadersFit, OneReader

LEMMA AlwaysSound == Spec => []ReadsSound
  <1>1. ReadsSound /\ [Next]_vars => ReadsSound'
    <2> SUFFICES ASSUME ReadsSound, [Next]_vars PROVE ReadsSound'
      OBVIOUS
    <2>1. CASE UNCHANGED vars
      <3>1. UNCHANGED vault /\ StateTyped'
        BY <2>1, StateStaysTyped DEF vars, ReadsSound
      <3>2. VaultSound'
        BY <3>1, VaultStaysSound DEF ReadsSound
      <3>3. ValueFits' /\ ReadersFit' /\ OneReader'
        BY <2>1 DEF ReadsSound, vars, vault, disks, mind, control, history, ValueFits,
                    ReadersFit, OneReader, Readable, Bears, Has
      <3> QED
        BY <3>1, <3>2, <3>3 DEF ReadsSound
    <2>2. CASE Next
      BY <2>2, StateStaysTyped, NextIsVaultNext, VaultStaysSound, ValueStaysFit,
         ReadersStayFit DEF ReadsSound
    <2> QED
      BY <2>1, <2>2
  <1> QED
    BY <1>1, InitSound, PTL DEF Spec

(* However clients race for an item, lock it away or crash the server, one
   address alone reads it; also when file operations fail, so that disk and
   memory may differ. *)
THEOREM OneReaderOnly == Spec => []OneReader
  BY AlwaysSound, PTL DEF ReadsSound

-----------------------------------------------------------------------------
(* An item is its creator's until it is answered for *)

KnownIsBorn == made \subseteq born /\ removed \subseteq born /\ fresh \subseteq born
(* Each item has one RPC at most that makes it, and no client knows it yet;
   what CreateVaultItem counts as fresh no CreateClientCredentials makes. *)
MakingFits ==
  \A p \in Proc : Making(p) =>
    /\ job[p].id \notin made
    /\ job[p].id \in fresh => job[p].op = "createItem"
    /\ \A q \in Proc : Making(q) /\ job[q].id = job[p].id => q = p
MakersSound == KnownIsBorn /\ MakingFits

(* Which RPC makes what, by its place before the step. *)
LEMMA MakersMove ==
  ASSUME StateTyped, NEW p \in Proc, Serve(p), ~CreateItem(p), Making(p)'
  PROVE  Making(p) /\ job'[p] = job[p] /\ SetItemValue(p)
  <1>1. GoesOn(p) /\ pc \in [Proc -> Phases] /\ job \in [Proc -> Jobs]
    BY Places DEF StateTyped, ControlOK, RpcsTyped, Making
  <1>2. /\ pc[p] = "set" /\ job'[p] = job[p]
    <2>1. pc[p] # "create"
      <3> SUFFICES ASSUME pc[p] = "create" PROVE CreateItem(p)
        OBVIOUS
      <3> QED
        BY ServeCases, PhasesOfActions
    <2>2. pc[p] # "verify" \/ AfterVerify(job[p].op) \notin {"set", "undo", "fetch"}
      BY JobTyped DEF JobFits, AfterVerify, Creations
    <2> QED
      BY <1>1, <2>1, <2>2 DEF GoesOn, Goes, Turns, Making
  <1> QED
    BY <1>2, ServeCases, PhasesOfActions DEF Making

LEMMA CreateItemMakes ==
  ASSUME StateTyped, NEW p \in Proc, CreateItem(p), Making(p)'
  PROVE  \E i \in Id \ born :
           /\ i \in born' /\ born' = born \cup {i} /\ job'[p].id = i
           /\ job'[p].op = job[p].op /\ open /\ open' /\ items'[i] = NewItem
           /\ fresh' = IF job[p].op = "createItem" THEN fresh \cup {i} ELSE fresh
           /\ UNCHANGED <<made, removed>>
           /\ \A k \in Id \ {i} : items'[k] = items[k]
  <1>1. pc \in [Proc -> Phases] /\ job \in [Proc -> Jobs] /\ job[p] \in Jobs /\ VaultTyped
    BY DEF StateTyped, ControlOK, RpcsTyped
  <1>2. PICK i \in Id :
          /\ Create(i) /\ Become(p, [job[p] EXCEPT !.id = i], "set")
          /\ fresh' = IF job[p].op = "createItem" THEN fresh \cup {i} ELSE fresh
          /\ Quiet
    BY <1>1 DEF CreateItem, Answer, DiesIn, AllEnd, Making
  <1>3. Commit(i, NewItem) /\ i \notin born /\ born' = born \cup {i} /\ open
    BY <1>2 DEF Create
  <1>4. items'[i] = NewItem /\ open' = open /\ \A k \in Id \ {i} : items'[k] = items[k]
    BY <1>1, <1>3, CommitElsewhere
  <1>5. job'[p].id = i /\ job'[p].op = job[p].op
    BY <1>1, <1>2 DEF Become, Jobs
  <1> QED
    BY <1>2, <1>3, <1>4, <1>5 DEF Quiet

(* How the ids clients know change. *)
LEMMA ClientsLearn ==
  ASSUME StateTyped, NEW p \in Proc, Serve(p)
  PROVE  \/ Quiet
         \/ readers' # readers /\ UNCHANGED ids
         \/ Making(p) /\ Made(p) /\ pc'[p] = "idle"
         \/ \E i \in job[p].todo :
              /\ pc[p] = "delete" /\ UNCHANGED fresh
              /\ removed' = removed \cup {i} /\ made' = made \ {i}
  <1> USE DEF Still, Quiet, history, ids, Dies
  <1>0. pc \in [Proc -> Phases]
    BY DEF StateTyped, ControlOK, RpcsTyped
  <1>1. CASE ServeAside(p)
    BY <1>1, AsideIsQuiet
  <1>2. CASE ReadItemValue(p)
    BY <1>2 DEF ReadItemValue
  <1>3. CASE CreateItem(p) \/ Undo(p)
    BY <1>3 DEF CreateItem, Undo
  <1>4. CASE SetItemValue(p) \/ Fetch(p)
    <2>1. Making(p)
      BY <1>4, PhasesOfActions DEF Making
    <2>2. Made(p) => pc'[p] = "idle"
      BY <1>0 DEF Made, Answer
    <2> QED
      BY <1>4, <2>1, <2>2 DEF SetItemValue, Fetch
  <1>5. CASE DeleteItem(p)
    BY <1>5 DEF DeleteItem, At
  <1> QED
    BY <1>1, <1>2, <1>3, <1>4, <1>5, ServeCases

LEMMA FreshGrows ==
  ASSUME StateTyped, NEW p \in Proc, Serve(p)
  PROVE  \/ fresh' = fresh \/ fresh' = {}
         \/ CreateItem(p) /\ Making(p)'
  <1> USE DEF Still, Quiet, history, ids, Dies, Unsettle, DiesIn, Survives
  <1>0. pc \in [Proc -> Phases]
    BY DEF StateTyped, ControlOK, RpcsTyped
  <1>1. CASE ServeAside(p)
    BY <1>1, AsideIsQuiet
  <1>2. CASE ReadItemValue(p)
    BY <1>2 DEF ReadItemValue
  <1>3. CASE CreateItem(p)
    BY <1>0, <1>3 DEF CreateItem, Become, Making
  <1>4. CASE SetItemValue(p) \/ Undo(p) \/ Fetch(p)
    BY <1>4 DEF SetItemValue, Undo, Fetch, Made
  <1>5. CASE DeleteItem(p)
    BY <1>5 DEF DeleteItem
  <1> QED
    BY <1>1, <1>2, <1>3, <1>4, <1>5, ServeCases

LEMMA ServeKeepsMakers ==
  ASSUME StateTyped, MakersSound, NEW p \in Proc, Serve(p)
  PROVE  MakersSound'
  <1>1. /\ born \subseteq born' /\ born \subseteq Id
        /\ \A q \in Proc : Making(q) => job[q].id \in born
        /\ \A i \in job[p].todo : pc[p] = "delete" => i \in born
    <2>1. born \subseteq born'
      BY ServeIsProper, BornGrows DEF Proper
    <2>2. \A q \in Proc : Making(q) => job[q].id \in born
      BY JobTyped DEF JobFits
    <2> QED
      BY <2>1, <2>2, JobTyped DEF JobFits
  <1>2. CASE CreateItem(p) /\ Making(p)'
    <2>1. PICK i \in Id \ born :
           /\ i \in born' /\ born' = born \cup {i} /\ job'[p].id = i
           /\ job'[p].op = job[p].op /\ open /\ open' /\ items'[i] = NewItem
           /\ fresh' = IF job[p].op = "createItem" THEN fresh \cup {i} ELSE fresh
           /\ UNCHANGED <<made, removed>>
           /\ \A k \in Id \ {i} : items'[k] = items[k]
      BY <1>2, CreateItemMakes
    <2>2. job[p].op \in Creations
      BY <1>2, JobTyped, PhasesOfActions DEF JobFits
    <2>3. \A q \in Proc \ {p} : pc'[q] = pc[q] /\ job'[q] = job[q]
      BY <1>2, Places DEF Making
    <2>4. KnownIsBorn'
      BY <2>1 DEF MakersSound, KnownIsBorn
    <2>5. ASSUME NEW q \in Proc, Making(q)'
          PROVE  /\ job'[q].id \notin made'
                 /\ job'[q].id \in fresh' => job'[q].op = "createItem"
                 /\ \A r \in Proc : Making(r)' /\ job'[r].id = job'[q].id => r = q
      BY <1>1, <2>1, <2>2, <2>3, <2>5 DEF MakersSound, KnownIsBorn, MakingFits, Making
    <2> QED
      BY <2>4, <2>5 DEF MakersSound, MakingFits
  <1>3. CASE ~(CreateItem(p) /\ Making(p)')
    <2>1. \A q \in Proc : Making(q)' => Making(q) /\ job'[q] = job[q]
      <3>1. Making(p)' => Making(p) /\ job'[p] = job[p]
        BY <1>3, MakersMove
      <3>2. \A q \in Proc \ {p} : Making(q)' => Making(q) /\ job'[q] = job[q]
        BY Places DEF Making
      <3> QED
        BY <3>1, <3>2
    <2>2. fresh' \subseteq fresh
      BY <1>3, FreshGrows
    <2>3. /\ made' \subseteq born /\ removed' \subseteq born
          /\ \A q \in Proc : Making(q)' => job'[q].id \notin made'
      <3>1. CASE UNCHANGED <<made, removed>>
        BY <2>1, <3>1 DEF MakersSound, KnownIsBorn, MakingFits
      <3>2. CASE Making(p) /\ Made(p) /\ pc'[p] = "idle"
        <4>1. made' = made \cup ({job[p].id} \ removed) /\ removed' = removed
          BY <3>2 DEF Made
        <4>2. ~Making(p)'
          BY <3>2 DEF Making
        <4> QED
          BY <1>1, <2>1, <3>2, <4>1, <4>2 DEF MakersSound, KnownIsBorn, MakingFits
      <3>3. ASSUME NEW i \in job[p].todo, pc[p] = "delete",
                   removed' = removed \cup {i}, made' = made \ {i}
            PROVE  /\ made' \subseteq born /\ removed' \subseteq born
                   /\ \A q \in Proc : Making(q)' => job'[q].id \notin made'
        BY <1>1, <2>1, <3>3 DEF MakersSound, KnownIsBorn, MakingFits
      <3> QED
        BY <3>1, <3>2, <3>3, ClientsLearn DEF Quiet, ids
    <2> QED
      BY <1>1, <2>1, <2>2, <2>3 DEF MakersSound, KnownIsBorn, MakingFits
  <1> QED
    BY <1>2, <1>3

-----------------------------------------------------------------------------
(* Nothing half made is left *)

(* As long as the vault was not locked since, the item has a value or is gone. *)
Valued(i) == Has(i) => items[i].sum # Nil
FreshFits == fresh # {} => open

(* The calls of the vault that leave it open leave no item without its value. *)
LEMMA StoreKeeps ==
  ASSUME VaultTyped, NEW k \in Id, NEW v \in Value, Store(k, v)
  PROVE  open' = open /\ Valued(k)' /\ \A i \in Id : Valued(i) => Valued(i)'
  <1>1. Commit(k, Filled(k, v)) /\ Filled(k, v).sum = v /\ v # Nil
    BY FilledIsMeta, NilAssumption DEF Store
  <1> QED
    BY <1>1, CommitElsewhere DEF Valued, Has

LEMMA BindKeeps ==
  ASSUME VaultTyped, NEW k \in Id, NEW a \in Peer, Bind(k, a)
  PROVE  open' = open /\ \A i \in Id : Valued(i) => Valued(i)'
  <1>1. Commit(k, Claimed(k, a)) /\ Claimed(k, a).sum = items[k].sum /\ Has(k)
    BY ClaimedIsMeta DEF Bind
  <1> QED
    BY <1>1, CommitElsewhere DEF Valued, Has

LEMMA BotchKeeps ==
  ASSUME VaultTyped, NEW k \in Id, NEW m, Botch(k, m), key' # Nil
  PROVE  open' = open /\ \A i \in Id : Valued(i) => Valued(i)'
  BY BotchElsewhere DEF Valued, Has

LEMMA DeleteKeeps ==
  ASSUME VaultTyped, NEW k \in Id, Delete(k)
  PROVE  /\ open' = open /\ Valued(k)'
         /\ \A i \in Id : Valued(i) => Valued(i)'
  BY DeleteElsewhere DEF Valued, Has

LEMMA RefreshKeeps ==
  ASSUME VaultTyped, NEW k \in Id, disk[k].sum # Nil, Refresh({k})
  PROVE  open' = open /\ \A i \in Id : Valued(i) => Valued(i)'
  BY DEF Refresh, Valued, Has

LEMMA SameKeeps ==
  ASSUME UNCHANGED vault
  PROVE  open' = open /\ \A i \in Id : Valued(i) => Valued(i)'
  BY DEF vault, mind, Valued, Has

Keeps == open' /\ \A i \in born : Valued(i) => Valued(i)'

LEMMA ServeKeepsValues ==
  ASSUME StateTyped, VaultSound, open, NEW p \in Proc, Serve(p), fresh' # {}
  PROVE  Keeps
  <1> USE DEF Dies, DiesIn, Survives, Unsettle
  <1>1. /\ VaultTyped /\ born \subseteq Id /\ key # Nil
        /\ \A i \in job[p].todo : i \in Id
    BY JobTyped DEF VaultSound, VaultTyped, KeyFits
  <1>2. ASSUME UNCHANGED vault
        PROVE  Keeps
    BY <1>1, <1>2, SameKeeps DEF Keeps
  <1>3. CASE Verify(p) \/ Authenticate(p) \/ Fetch(p) \/ ListItems(p) \/ Send(p)
    BY <1>2, <1>3 DEF Verify, Authenticate, Fetch, ListItems, Send
  <1>4. CASE ReadItemValue(p) \/ SetRecoveryRecipient(p) \/ GetInfo(p)
    BY <1>2, <1>4 DEF ReadItemValue, SetRecoveryRecipient, GetInfo
  <1>5. CASE LockVault(p) \/ UnlockVault(p) \/ LoadItems(p)
    BY <1>1, <1>2, <1>5 DEF LockVault, UnlockVault, LoadItems, Load, TakeKey, SealFails
  <1>6. CASE CreateItem(p)
    <2>1. ASSUME NEW k \in Id, Create(k)
          PROVE  Keeps
      BY <1>1, <2>1, CommitElsewhere DEF Create, Keeps, Valued, Has
    <2>2. ASSUME NEW k \in Id, CreateFails(k), key' # Nil
          PROVE  Keeps
      BY <1>1, <2>2, BotchKeeps DEF CreateFails, Keeps
    <2> QED
      BY <1>2, <1>6, <2>1, <2>2 DEF CreateItem
  <1>7. CASE SetItemValue(p)
    <2>1. job[p].id \in Id
      BY <1>1, <1>7, JobTyped, PhasesOfActions DEF JobFits, Making
    <2>2. ASSUME NEW v \in Value, StoreFails(job[p].id, v), key' # Nil
          PROVE  Keeps
      BY <1>1, <2>1, <2>2, BotchKeeps DEF StoreFails, Keeps
    <2>3. ASSUME NEW v \in Value, Store(job[p].id, v)
          PROVE  Keeps
      BY <1>1, <2>1, <2>3, StoreKeeps DEF Keeps
    <2> QED
      BY <1>2, <1>7, <2>2, <2>3 DEF SetItemValue
  <1>8. CASE Undo(p)
    <2>1. job[p].id \in Id
      BY <1>1, <1>8, JobTyped, PhasesOfActions DEF JobFits, Making
    <2> QED
      BY <1>1, <1>2, <1>8, <2>1, DeleteKeeps DEF Undo, Keeps
  <1>9. CASE DeleteItem(p)
    <2>1. ASSUME NEW k \in job[p].todo, Delete(k)
          PROVE  Keeps
      BY <1>1, <2>1, DeleteKeeps DEF Keeps
    <2> QED
      BY <1>2, <1>9, <2>1 DEF DeleteItem
  <1>10. CASE ReadItem(p)
    <2>1. job[p].id \in Id /\ (job[p].addr # Nil => job[p].addr \in Peer)
      BY <1>1, <1>10, JobTyped DEF ReadItem, At, JobFits, Reads
    <2>2. ASSUME job[p].addr # Nil, BindFails(job[p].id, job[p].addr), key' # Nil
          PROVE  Keeps
      BY <1>1, <2>1, <2>2, BotchKeeps DEF BindFails, Keeps
    <2>3. ASSUME job[p].addr # Nil, Bind(job[p].id, job[p].addr)
          PROVE  Keeps
      BY <1>1, <2>1, <2>3, BindKeeps DEF Keeps
    <2> QED
      BY <1>2, <1>10, <2>2, <2>3 DEF ReadItem
  <1>11. CASE Reencrypt(p)
    <2>1. ASSUME NEW k \in job[p].todo, disk[k].sum # Nil, Refresh({k})
          PROVE  Keeps
      BY <1>1, <2>1, RefreshKeeps DEF Keeps
    <2>2. ASSUME NEW k \in job[p].todo, RefreshFails(k), key' # Nil
          PROVE  Keeps
      BY <1>1, <2>2, BotchKeeps DEF RefreshFails, Keeps
    <2> QED
      BY <1>2, <1>11, <2>1, <2>2 DEF Reencrypt
  <1> QED
    BY <1>3, <1>4, <1>5, <1>6, <1>7, <1>8, <1>9, <1>10, <1>11 DEF Serve

(* The one that makes an item goes on until the item has its value or is gone. *)
LEMMA MakerGoesOn ==
  ASSUME StateTyped, VaultSound, NEW p \in Proc, NEW i \in born, Serve(p), fresh' # {},
         pc[p] \in {"set", "undo"}, job[p].op = "createItem", job[p].id = i
  PROVE  \/ pc'[p] \in {"set", "undo"} /\ job'[p] = job[p]
         \/ Valued(i)'
  <1> USE DEF Dies, DiesIn, Survives, Unsettle
  <1>1. /\ VaultTyped /\ job[p].id \in born /\ born \subseteq Id
        /\ pc \in [Proc -> Phases] /\ job \in [Proc -> Jobs]
    BY JobTyped DEF JobFits, Making, VaultSound, StateTyped, ControlOK, RpcsTyped
  <1>2. ASSUME ~Has(i), UNCHANGED vault
        PROVE  Valued(i)'
    BY <1>2 DEF Valued, Has, vault, mind
  <1>3. CASE pc[p] = "set"
    <2>1. SetItemValue(p)
      BY <1>3, ServeCases, PhasesOfActions
    <2>2. Unset(p) => pc'[p] = "undo" /\ job'[p] = job[p]
      BY <1>1 DEF Unset, Goto, Become
    <2>3. ASSUME NEW v \in Value, Store(i, v)
          PROVE  Valued(i)'
      BY <1>1, <2>3, StoreKeeps
    <2> QED
      BY <2>1, <2>2, <2>3 DEF SetItemValue
  <1>4. CASE pc[p] = "undo"
    <2>1. Undo(p)
      BY <1>4, ServeCases, PhasesOfActions
    <2> QED
      BY <1>1, <1>2, <2>1, DeleteKeeps DEF Undo
  <1> QED
    BY <1>3, <1>4

LEMMA NothingIsLeftOver ==
  ASSUME StateTyped, VaultSound, MakersSound, FreshFits, NoLeftovers, Next
  PROVE  FreshFits' /\ NoLeftovers'
  <1>1. CASE Dies("none") \/ \E p \in Proc : AllQuit /\ Serve(p)
    BY <1>1 DEF Dies, Unsettle, AllQuit, FreshFits, NoLeftovers
  <1>2. ASSUME NEW p \in Proc, Call(p)
        PROVE  FreshFits' /\ NoLeftovers'
    <2>1. /\ UNCHANGED <<vault, history>> /\ pc[p] = "idle"
          /\ \A q \in Proc \ {p} : pc'[q] = pc[q] /\ job'[q] = job[q]
      BY <1>2, CallGoes DEF Turns, StateTyped, ControlOK, RpcsTyped
    <2> QED
      BY <2>1 DEF vault, mind, history, ids, FreshFits, NoLeftovers, Has
  <1>3. ASSUME NEW p \in Proc, Serve(p), ~AllQuit
        PROVE  FreshFits' /\ NoLeftovers'
    <2>1. \A q \in Proc \ {p} : pc'[q] = pc[q] /\ job'[q] = job[q]
      BY <1>3, Places
    <2>2. CASE fresh' = {}
      BY <2>2 DEF FreshFits, NoLeftovers
    <2>3. CASE fresh' # {} /\ CreateItem(p) /\ Making(p)'
      <3>1. PICK i \in Id \ born :
              /\ i \in born' /\ born' = born \cup {i} /\ job'[p].id = i
              /\ job'[p].op = job[p].op /\ open /\ open' /\ items'[i] = NewItem
              /\ fresh' = IF job[p].op = "createItem" THEN fresh \cup {i} ELSE fresh
              /\ UNCHANGED <<made, removed>>
              /\ \A k \in Id \ {i} : items'[k] = items[k]
        BY <2>3, CreateItemMakes
      <3>2. pc[p] = "create" /\ pc'[p] = "set"
        <4>1. pc[p] = "create" /\ pc \in [Proc -> Phases]
          BY <2>3, PhasesOfActions DEF StateTyped, ControlOK, RpcsTyped
        <4>2. GoesOn(p)
          BY <1>3, <2>3, Places DEF Making
        <4> QED
          BY <4>1, <4>2 DEF GoesOn, Goes, Turns
      <3>3. ASSUME NEW k \in fresh, Has(k)', items'[k].sum = Nil
            PROVE  \E q \in Proc : pc'[q] \in {"set", "undo"} /\ job'[q].id = k
        <4>1. k \in born /\ k # i /\ Has(k) /\ items[k].sum = Nil
          BY <3>1, <3>3 DEF MakersSound, KnownIsBorn, Has, StateTyped, VaultTyped
        <4> QED
          BY <2>1, <3>2, <3>3, <4>1 DEF NoLeftovers
      <3> QED
        BY <3>1, <3>2, <3>3 DEF FreshFits, NoLeftovers
    <2>4. CASE fresh' # {} /\ fresh' = fresh
      <3>1. open /\ Keeps /\ fresh \subseteq born
        BY <1>3, <2>4, ServeKeepsValues DEF FreshFits, MakersSound, KnownIsBorn
      <3>2. ASSUME NEW i \in fresh, Has(i)', items'[i].sum = Nil
            PROVE  \E q \in Proc : pc'[q] \in {"set", "undo"} /\ job'[q].id = i
        <4>1. ~Valued(i) /\ ~Valued(i)'
          BY <3>1, <3>2 DEF Keeps, Valued
        <4>2. PICK q \in Proc : pc[q] \in {"set", "undo"} /\ job[q].id = i
          BY <4>1 DEF NoLeftovers, Valued
        <4>3. CASE q = p
          <5>1. job[p].op = "createItem"
            BY <3>2, <4>2, <4>3 DEF MakersSound, MakingFits, Making
          <5>2. \/ pc'[p] \in {"set", "undo"} /\ job'[p] = job[p]
                \/ Valued(i)'
            BY <1>3, <2>4, <3>1, <4>2, <4>3, <5>1, MakerGoesOn
          <5> QED
            BY <4>1, <4>2, <4>3, <5>2
        <4>4. CASE q # p
          BY <2>1, <4>2, <4>4
        <4> QED
          BY <4>3, <4>4
      <3> QED
        BY <2>4, <3>1, <3>2 DEF Keeps, FreshFits, NoLeftovers
    <2> QED
      BY <1>3, <2>2, <2>3, <2>4, FreshGrows
  <1> QED
    BY <1>1, <1>2, <1>3, StepCases

-----------------------------------------------------------------------------
(* What the service promises when no file operation fails *)

NoFaults == Faults = {}

(* Memory and disk are one, and hold what was last stored. *)
Mirrored == open => items = disk
Stored == \A i \in Id : disk[i] # Nil => disk[i].sum = acked[i]
VaultFaithful == VaultSound /\ Mirrored /\ Stored

Whole(i) == disk[i] # Nil /\ disk[i].sum # Nil
Answered ==
  /\ \A i \in made : Whole(i)
  /\ \A i \in removed : disk[i] = Nil

(* What a read or a list saw when it was called is still so but for what was
   deleted since. *)
ListedAll(p) == seen[p] \ removed \subseteq job[p].done
SeenFits ==
  \A p \in Proc :
    /\ job[p].op \in Reads => seen[p] \subseteq removed
    /\ job[p].op = "listItems" => seen[p] \subseteq made \cup removed
    /\ calm[p] => open
    /\ calm[p] /\ pc[p] = "send" /\ job[p].op = "listItems" => ListedAll(p)

(* The operations on items, when none fails. *)
LEMMA NoFailures ==
  ASSUME NoFaults
  PROVE  /\ ~MayFail
         /\ \A i, m : ~Botch(i, m)
         /\ \A i : ~DeleteFails(i) /\ ~CreateFails(i) /\ ~RefreshFails(i)
         /\ \A i, v : ~StoreFails(i, v) /\ ~BindFails(i, v)
         /\ \A p : ~SealFails(p)
  BY DEF NoFaults, MayFail, Botch, DeleteFails, CreateFails, RefreshFails, StoreFails,
         BindFails, SealFails

LEMMA FaithfulCases ==
  ASSUME NoFaults, VaultNext
  PROVE  \/ \E p \in Pass : TakeKey(p)
         \/ Load({}) \/ \E S \in SUBSET Id : Refresh(S)
         \/ Close
         \/ \E i \in Id : Create(i) \/ Delete(i)
         \/ \E i \in Id, v \in Value : Store(i, v)
         \/ \E i \in Id, a \in Peer : Bind(i, a)
  <1>1. \A S : Load(S) => S = {}
    BY NoFailures DEF Load
  <1> QED
    BY <1>1, NoFailures DEF VaultNext

LEMMA MemoryStaysMirrored ==
  ASSUME NoFaults, VaultFaithful, VaultNext
  PROVE  Mirrored'
  <1> USE DEF Mirrored
  <1>0. VaultTyped /\ VaultTyped' /\ KeyFits
    BY VaultStaysTyped DEF VaultFaithful, VaultSound
  <1>1. ASSUME NEW p \in Pass, TakeKey(p)
        PROVE  Mirrored'
    BY <1>0, <1>1 DEF TakeKey, KeyFits
  <1>2. CASE Load({})
    BY <1>0, <1>2 DEF Load, disks, VaultTyped
  <1>3. ASSUME NEW S \in SUBSET Id, Refresh(S)
        PROVE  Mirrored'
    BY <1>0, <1>3 DEF Refresh, disks, VaultTyped, VaultFaithful
  <1>4. CASE Close
    BY <1>4 DEF Close, Forget
  <1>5. ASSUME NEW i \in Id, NEW m, Commit(i, m)
        PROVE  Mirrored'
    BY <1>5 DEF Commit, VaultFaithful
  <1>6. ASSUME NEW i \in Id, Delete(i)
        PROVE  Mirrored'
    BY <1>5, <1>6, NoFailures DEF Delete
  <1> QED
    BY <1>1, <1>2, <1>3, <1>4, <1>5, <1>6, FaithfulCases DEF Create, Store, Bind

LEMMA DiskStaysStored ==
  ASSUME NoFaults, VaultFaithful, VaultNext
  PROVE  Stored'
  <1> USE DEF Stored
  <1>0. VaultTyped /\ Mirrored /\ Stored /\ UnbornUnknown /\ KeyFits
    BY DEF VaultFaithful, VaultSound
  <1>1. ASSUME disk' = disk, acked' = acked
        PROVE  Stored'
    BY <1>0, <1>1
  <1>2. ASSUME NEW i \in Id, Create(i)
        PROVE  Stored'
    BY <1>0, <1>2, CommitElsewhere, NewItemIsMeta DEF Create, UnbornUnknown, told
  <1>3. ASSUME NEW i \in Id, Delete(i)
        PROVE  Stored'
    BY <1>0, <1>3, DeleteElsewhere, NoFailures
  <1>4. ASSUME NEW i \in Id, NEW v \in Value, Store(i, v)
        PROVE  Stored'
    <2>1. Filled(i, v).sum = v /\ Commit(i, Filled(i, v))
      BY <1>0, <1>4, FilledIsMeta DEF Store
    <2>2. acked'[i] = v /\ \A k \in Id \ {i} : acked'[k] = acked[k]
      BY <1>0, <1>4 DEF Store, VaultTyped
    <2> QED
      BY <1>0, <2>1, <2>2, CommitElsewhere
  <1>5. ASSUME NEW i \in Id, NEW a \in Peer, Bind(i, a)
        PROVE  Stored'
    <2>1. Claimed(i, a).sum = items[i].sum /\ Commit(i, Claimed(i, a)) /\ acked' = acked
      BY <1>0, <1>5, ClaimedIsMeta DEF Bind
    <2>2. items[i] = disk[i] /\ items[i] # Nil
      BY <1>0, <1>5 DEF Bind, Has, KeyFits, Mirrored
    <2> QED
      BY <1>0, <2>1, <2>2, CommitElsewhere
  <1> QED
    BY <1>1, <1>2, <1>3, <1>4, <1>5, FaithfulCases
       DEF TakeKey, Load, Refresh, Close, disks, told

(* An item that is whole stays so until it is deleted; one that is gone stays
   gone. *)
LEMMA WholeStays ==
  ASSUME NoFaults, VaultFaithful, VaultNext, NEW i \in born
  PROVE  /\ Whole(i) => Whole(i)' \/ disk'[i] = Nil
         /\ disk[i] = Nil => disk'[i] = Nil
  <1> USE DEF Whole
  <1>0. /\ VaultTyped /\ Mirrored /\ KeyFits /\ i \in Id
        /\ \A k \in Id : Has(k) => disk[k] = items[k] /\ items[k] # Nil
    BY DEF VaultFaithful, VaultSound, VaultTyped, Mirrored, KeyFits, Has
  <1> DEFINE Stays == /\ Whole(i) => Whole(i)' \/ disk'[i] = Nil
                      /\ disk[i] = Nil => disk'[i] = Nil
  <1>1. ASSUME disk' = disk
        PROVE  Stays
    BY <1>1
  <1>2. ASSUME NEW k \in Id, Create(k)
        PROVE  Stays
    BY <1>0, <1>2, CommitElsewhere DEF Create
  <1>3. ASSUME NEW k \in Id, Delete(k)
        PROVE  Stays
    BY <1>0, <1>3, DeleteElsewhere
  <1>4. ASSUME NEW k \in Id, NEW v \in Value, Store(k, v)
        PROVE  Stays
    <2>1. /\ Filled(k, v).sum = v /\ Filled(k, v) # Nil /\ v # Nil
          /\ Commit(k, Filled(k, v)) /\ Has(k)
      BY <1>0, <1>4, FilledIsMeta, NilAssumption DEF Store
    <2> QED
      BY <1>0, <2>1, CommitElsewhere
  <1>5. ASSUME NEW k \in Id, NEW a \in Peer, Bind(k, a)
        PROVE  Stays
    <2>1. /\ Claimed(k, a).sum = items[k].sum /\ Claimed(k, a) # Nil
          /\ Commit(k, Claimed(k, a)) /\ Has(k)
      BY <1>0, <1>5, ClaimedIsMeta DEF Bind
    <2> QED
      BY <1>0, <2>1, CommitElsewhere
  <1> QED
    BY <1>1, <1>2, <1>3, <1>4, <1>5, FaithfulCases
       DEF TakeKey, Load, Refresh, Close, disks

LEMMA VaultStaysFaithful ==
  ASSUME NoFaults, VaultFaithful, VaultNext \/ UNCHANGED vault
  PROVE  VaultFaithful'
  <1>1. CASE VaultNext
    BY <1>1, VaultStaysSound, MemoryStaysMirrored, DiskStaysStored DEF VaultFaithful
  <1>2. CASE UNCHANGED vault
    BY <1>2, VaultStaysSound
       DEF VaultFaithful, Mirrored, Stored, vault, disks, mind, told
  <1> QED
    BY <1>1, <1>2

(* Who deletes an item: its own maker that no client heard of, or a deletion
   that says so. *)
Notes(i) == removed' = removed \cup {i} /\ made' = made \ {i}

LEMMA WhoDeletes ==
  ASSUME NoFaults, StateTyped, VaultFaithful, NEW p \in Proc, Serve(p), NEW i \in Id,
         disk[i] # Nil, disk'[i] = Nil
  PROVE  (Undo(p) /\ job[p].id = i) \/ (DeleteItem(p) /\ Notes(i))
  <1> USE NoFailures DEF Dies, DiesIn, Survives
  <1>0. VaultTyped /\ \A k \in job[p].todo : k \in Id
    BY JobTyped DEF VaultFaithful, VaultSound
  <1>1. disk' # disk
    OBVIOUS
  <1>2. ~(UNCHANGED vault) /\ ~Close
    BY <1>1 DEF vault, disks, Close
  <1> USE <1>2
  <1>3. ~(Verify(p) \/ Authenticate(p) \/ Fetch(p) \/ ListItems(p) \/ Send(p))
    BY DEF Verify, Authenticate, Fetch, ListItems, Send
  <1>4. ~(ReadItemValue(p) \/ SetRecoveryRecipient(p) \/ GetInfo(p))
    BY DEF ReadItemValue, SetRecoveryRecipient, GetInfo
  <1>5. ~(LockVault(p) \/ UnlockVault(p) \/ LoadItems(p) \/ Reencrypt(p))
    BY <1>1 DEF LockVault, UnlockVault, LoadItems, Load, TakeKey, Reencrypt, Refresh,
                disks
  <1>6. ~CreateItem(p)
    <2>1. \A k \in Id : ~Create(k)
      BY <1>0, CommitElsewhere, NewItemIsMeta DEF Create
    <2> QED
      BY <2>1 DEF CreateItem
  <1>7. ~SetItemValue(p)
    <2>1. \A k \in Id, v \in Value : ~Store(k, v)
      <3> SUFFICES ASSUME NEW k \in Id, NEW v \in Value, Store(k, v) PROVE FALSE
        OBVIOUS
      <3>1. Commit(k, Filled(k, v)) /\ Filled(k, v) # Nil
        BY <1>0, FilledIsMeta DEF Store
      <3> QED
        BY <1>0, <3>1, CommitElsewhere
    <2>2. SetItemValue(p) => job[p].id \in Id
      BY <1>0, JobTyped, PhasesOfActions DEF JobFits, Making
    <2> QED
      BY <2>1, <2>2 DEF SetItemValue
  <1>8. ~ReadItem(p)
    <2>1. \A k \in Id, a \in Peer : ~Bind(k, a)
      <3> SUFFICES ASSUME NEW k \in Id, NEW a \in Peer, Bind(k, a) PROVE FALSE
        OBVIOUS
      <3>1. Commit(k, Claimed(k, a)) /\ Claimed(k, a) # Nil
        BY <1>0, ClaimedIsMeta DEF Bind
      <3> QED
        BY <1>0, <3>1, CommitElsewhere
    <2>2. ReadItem(p) => job[p].id \in Id /\ (job[p].addr # Nil => job[p].addr \in Peer)
      BY <1>0, JobTyped DEF ReadItem, At, JobFits, Reads
    <2> QED
      BY <2>1, <2>2 DEF ReadItem
  <1>9. ASSUME NEW k \in Id, Delete(k)
        PROVE  k = i
    BY <1>0, <1>9, DeleteElsewhere
  <1>10. CASE Undo(p)
    <2>1. job[p].id \in Id
      BY <1>0, <1>10, JobTyped, PhasesOfActions DEF JobFits, Making
    <2> QED
      BY <1>9, <1>10, <2>1 DEF Undo
  <1>11. CASE DeleteItem(p)
    BY <1>0, <1>9, <1>11 DEF DeleteItem, Notes
  <1> QED
    BY <1>3, <1>4, <1>5, <1>6, <1>7, <1>8, <1>10, <1>11 DEF Serve

LEMMA ReplyResults ==
  ASSUME NEW p \in Proc
  PROVE  /\ \A res, is : Answer(p, res, is) =>
              reply' = [op |-> job[p].op, res |-> res, ids |-> is,
                        seen |-> seen[p], calm |-> calm[p]]
         /\ \A res, is : Answer(p, res, is) => reply'.res = res
         /\ \A op : AllEnd(op) => reply'.res = "died"
         /\ \A j, phase : Become(p, j, phase) => reply' = NoReply /\ reply'.res = "none"
  <1>1. \A op : AllEnd(op) => reply'.res = "died"
    BY DEF AllEnd, NoReply
  <1>2. NoReply.res = "none"
    BY DEF NoReply
  <1> QED
    BY <1>1, <1>2 DEF Answer, Become

LEMMA MadeIsWhole ==
  ASSUME NoFaults, StateTyped, VaultFaithful, NEW p \in Proc, Serve(p), Making(p),
         Made(p), NEW i \in Id, i = job[p].id
  PROVE  Whole(i)'
  <1>1. VaultTyped /\ KeyFits /\ Mirrored /\ pc \in [Proc -> Phases]
    BY DEF VaultFaithful, VaultSound, StateTyped, ControlOK, RpcsTyped
  <1>2. pc'[p] = "idle" /\ reply'.res = "ok"
    BY <1>1 DEF Made, Answer
  <1>3. SetItemValue(p) \/ Fetch(p)
    <2>1. ~Undo(p)
      BY <1>2, ReplyResults DEF Undo, DiesIn
    <2> QED
      BY <2>1, ServeCases, PhasesOfActions DEF Making
  <1>4. CASE SetItemValue(p)
    <2>1. ~Unset(p) /\ ~DiesIn(p)
      BY <1>2, ReplyResults DEF Unset, Goto, DiesIn
    <2>2. PICK v \in Value : Store(i, v)
      BY <1>4, <2>1 DEF SetItemValue
    <2>3. Commit(i, Filled(i, v)) /\ Filled(i, v) # Nil /\ Filled(i, v).sum = v /\ v # Nil
      BY <1>1, <2>2, FilledIsMeta, NilAssumption DEF Store
    <2> QED
      BY <1>1, <2>3, CommitElsewhere DEF Whole
  <1>5. CASE Fetch(p)
    <2>1. Has(i) /\ items[i].sum # Nil /\ UNCHANGED vault
      BY <1>2, <1>5, ReplyResults DEF Fetch, Dies
    <2> QED
      BY <1>1, <2>1 DEF Whole, Mirrored, KeyFits, Has, vault, disks
  <1> QED
    BY <1>3, <1>4, <1>5

LEMMA NotedIsGone ==
  ASSUME NoFaults, StateTyped, VaultFaithful, NEW p \in Proc, DeleteItem(p),
         NEW i \in Id, i \in removed', i \notin removed
  PROVE  disk'[i] = Nil
  <1>1. VaultTyped /\ KeyFits /\ Mirrored /\ ~MayFail
    BY NoFailures DEF VaultFaithful, VaultSound
  <1>2. PICK k \in job[p].todo :
          /\ removed' = removed \cup {k}
          /\ (open /\ ~Has(k) /\ UNCHANGED vault) \/ Delete(k)
    BY DEF DeleteItem, Quiet, history, ids
  <1>3. k = i
    BY <1>2
  <1>4. CASE open /\ ~Has(k) /\ UNCHANGED vault
    BY <1>1, <1>3, <1>4 DEF Mirrored, Has, vault, disks
  <1>5. CASE Delete(k)
    BY <1>1, <1>3, <1>5, DeleteElsewhere
  <1> QED
    BY <1>2, <1>4, <1>5

LEMMA AnsweredStays ==
  ASSUME NoFaults, StateTyped, VaultFaithful, MakersSound, Answered, NEW p \in Proc,
         Serve(p)
  PROVE  Answered'
  <1>1. /\ born \subseteq Id /\ made \subseteq born /\ removed \subseteq born
        /\ job[p].todo \subseteq Id
    BY JobTyped DEF MakersSound, KnownIsBorn
  <1>2. ASSUME NEW i \in born
        PROVE  /\ Whole(i) => Whole(i)' \/ disk'[i] = Nil
               /\ disk[i] = Nil => disk'[i] = Nil
    <2>1. CASE VaultNext
      BY <2>1, WholeStays
    <2>2. CASE UNCHANGED vault
      BY <2>2 DEF Whole, vault, disks
    <2> QED
      BY <2>1, <2>2, ServeIsProper DEF Proper
  <1>3. ASSUME NEW i \in made, i \in made'
        PROVE  Whole(i)'
    <2>1. Whole(i) /\ disk[i] # Nil /\ i \in Id
      BY <1>1 DEF Answered, Whole
    <2>2. CASE disk'[i] = Nil
      <3>1. ~(DeleteItem(p) /\ Notes(i))
        BY <1>3 DEF Notes
      <3>2. ~(Undo(p) /\ job[p].id = i)
        BY PhasesOfActions DEF MakersSound, MakingFits, Making
      <3> QED
        BY <2>1, <2>2, <3>1, <3>2, WhoDeletes
    <2> QED
      BY <1>1, <1>2, <2>1, <2>2
  <1>4. ASSUME NEW i \in made', i \notin made
        PROVE  Whole(i)'
    <2>1. Making(p) /\ Made(p)
      BY <1>4, ClientsLearn DEF Quiet, ids
    <2>2. i = job[p].id /\ i \in Id
      BY <1>1, <1>4, <2>1, JobTyped DEF Made, JobFits
    <2> QED
      BY <2>1, <2>2, MadeIsWhole
  <1>5. ASSUME NEW i \in removed'
        PROVE  disk'[i] = Nil
    <2>1. CASE i \in removed
      BY <1>1, <1>2, <2>1 DEF Answered
    <2>2. CASE i \notin removed
      <3>1. pc[p] = "delete" /\ i \in Id
        BY <1>1, <1>5, <2>2, ClientsLearn DEF Quiet, ids, Made
      <3>2. DeleteItem(p)
        BY <3>1, ServeCases, PhasesOfActions
      <3> QED
        BY <1>5, <2>2, <3>1, <3>2, NotedIsGone
    <2> QED
      BY <2>1, <2>2
  <1> QED
    BY <1>3, <1>4, <1>5 DEF Answered

-----------------------------------------------------------------------------
(* What the observer saw *)

(* What is deleted stays noted, and what is known is only forgotten for that. *)
LEMMA NotesGrow ==
  ASSUME StateTyped, Next
  PROVE  removed \subseteq removed' /\ made \subseteq made' \cup removed'
  <1>1. CASE Dies("none") \/ \E p \in Proc : Call(p)
    BY <1>1, CallGoes DEF Dies, history, ids
  <1>2. ASSUME NEW p \in Proc, Serve(p)
        PROVE  removed \subseteq removed' /\ made \subseteq made' \cup removed'
    BY <1>2, ClientsLearn DEF Quiet, ids, Made
  <1> QED
    BY <1>1, <1>2, StepCases

(* Of an RPC that is there after a step: it was called in it, or it was there
   before with the same kind of request. *)
LEMMA WhereFrom ==
  ASSUME StateTyped, Next, NEW p \in Proc, pc'[p] # "idle"
  PROVE  /\ \/ pc[p] = "idle" /\ UNCHANGED history /\ pc'[p] # "send"
            \/ /\ pc[p] # "idle" /\ job'[p].op = job[p].op
               /\ \/ pc'[p] = pc[p] /\ job'[p] = job[p]
                  \/ GoesOn(p) /\ Serve(p)
         /\ seen'[p] = IF pc[p] = "idle" THEN Seen(job'[p].op) ELSE seen[p]
         /\ calm'[p] => open /\ open' /\ (pc[p] = "idle" \/ calm[p])
  <1>1. /\ seen'[p] = IF pc[p] = "idle" THEN Seen(job'[p].op) ELSE seen[p]
        /\ calm'[p] => open /\ open' /\ (pc[p] = "idle" \/ calm[p])
    BY StepCases DEF Observe, Idle
  <1>2. ~Dies("none") /\ ~AllQuit
    BY DEF Dies, AllEnd, AllQuit
  <1>3. ASSUME NEW q \in Proc, Call(q)
        PROVE  \/ pc[p] = "idle" /\ UNCHANGED history /\ pc'[p] # "send"
               \/ pc[p] # "idle" /\ pc'[p] = pc[p] /\ job'[p] = job[p]
    <2>1. PICK r \in Requests : Turns(q, r, FirstPhase(r.op)) /\ r \in Jobs
      BY <1>3, CallGoes
    <2>2. FirstPhase(r.op) # "send" /\ UNCHANGED history
      BY <1>3, CallGoes, RequestFits DEF StateTyped, VaultTyped
    <2>3. /\ pc'[q] = FirstPhase(r.op) /\ pc[q] = "idle"
          /\ p # q => pc'[p] = pc[p] /\ job'[p] = job[p]
      BY <1>3, <2>1, CallGoes DEF Turns, StateTyped, ControlOK, RpcsTyped
    <2> QED
      BY <2>2, <2>3
  <1>4. ASSUME NEW q \in Proc, Serve(q)
        PROVE  /\ pc[p] # "idle" /\ job'[p].op = job[p].op
               /\ \/ pc'[p] = pc[p] /\ job'[p] = job[p]
                  \/ GoesOn(p) /\ Serve(p)
    <2>1. pc[q] # "idle"
      BY <1>4, ServeCases, PhasesOfActions
    <2>2. CASE p = q
      BY <1>2, <1>4, <2>1, <2>2, Places
    <2>3. CASE p # q
      BY <1>2, <1>4, <2>3, Places
    <2> QED
      BY <2>2, <2>3
  <1> QED
    BY <1>1, <1>2, <1>3, <1>4, StepCases

LEMMA SeenStaysFit ==
  ASSUME NoFaults, StateTyped, VaultFaithful, Answered, SeenFits, Next
  PROVE  SeenFits'
  <1>1. removed \subseteq removed' /\ made \subseteq made' \cup removed'
    BY NotesGrow
  <1> SUFFICES ASSUME NEW p \in Proc
               PROVE  /\ job'[p].op \in Reads => seen'[p] \subseteq removed'
                      /\ job'[p].op = "listItems" => seen'[p] \subseteq made' \cup removed'
                      /\ calm'[p] => open'
                      /\ calm'[p] /\ pc'[p] = "send" /\ job'[p].op = "listItems"
                           => seen'[p] \ removed' \subseteq job'[p].done
    BY DEF SeenFits, ListedAll
  <1>2. ControlOK'
    BY StateStaysTyped DEF StateTyped
  <1>3. CASE pc'[p] = "idle"
    <2>1. job'[p].op = "none"
      BY <1>2, <1>3 DEF ControlOK, JobsFit, JobFits
    <2>2. calm'[p] => open'
      BY StepCases DEF Observe
    <2> QED
      BY <2>1, <2>2, <1>3 DEF Reads
  <1>4. CASE pc'[p] # "idle"
    <2>1. /\ \/ pc[p] = "idle" /\ UNCHANGED history /\ pc'[p] # "send"
             \/ /\ pc[p] # "idle" /\ job'[p].op = job[p].op
                /\ \/ pc'[p] = pc[p] /\ job'[p] = job[p]
                   \/ GoesOn(p) /\ Serve(p)
          /\ seen'[p] = IF pc[p] = "idle" THEN Seen(job'[p].op) ELSE seen[p]
          /\ calm'[p] => open /\ open' /\ (pc[p] = "idle" \/ calm[p])
      BY <1>4, WhereFrom
    <2>2. CASE pc[p] = "idle"
      BY <2>1, <2>2 DEF Seen, Reads, history, ids
    <2>3. CASE pc[p] # "idle"
      <3>1. /\ job'[p].op = job[p].op /\ seen'[p] = seen[p]
            /\ calm'[p] => calm[p] /\ open /\ open'
        BY <2>1, <2>3
      <3>2. /\ job'[p].op \in Reads => seen'[p] \subseteq removed'
            /\ job'[p].op = "listItems" => seen'[p] \subseteq made' \cup removed'
        BY <1>1, <3>1 DEF SeenFits
      <3>3. ASSUME calm'[p], pc'[p] = "send", job'[p].op = "listItems"
            PROVE  seen'[p] \ removed' \subseteq job'[p].done
        <4>1. CASE pc'[p] = pc[p] /\ job'[p] = job[p]
          BY <1>1, <3>1, <3>3, <4>1 DEF SeenFits, ListedAll
        <4>2. CASE GoesOn(p) /\ Serve(p)
          <5>1. pc \in [Proc -> Phases] /\ job \in [Proc -> Jobs] /\ JobFits(p)
            BY JobTyped DEF StateTyped, ControlOK, RpcsTyped
          <5>2. AfterVerify(job[p].op) # "send" \/ pc[p] # "verify"
            BY <5>1 DEF JobFits, AfterVerify, Creations
          <5>3. /\ pc[p] = "list"
                /\ Goes(p, [job[p] EXCEPT !.done = {i \in Id : Has(i)}], "send")
            BY <3>1, <3>3, <4>2, <5>1, <5>2 DEF GoesOn, Goes, Turns, JobFits
          <5>4. job'[p].done = {i \in Id : Has(i)}
            BY <5>1, <5>3 DEF Goes, Turns, Jobs
          <5>5. UNCHANGED ids
            BY <4>2, <5>3, ServeCases, PhasesOfActions DEF ListItems, history, ids
          <5>6. open /\ items = disk /\ made \subseteq Id
            BY <3>1, <3>3 DEF VaultFaithful, Mirrored, StateTyped, HistoryTyped
          <5> QED
            BY <3>1, <3>3, <5>4, <5>5, <5>6
               DEF SeenFits, Answered, Whole, Has, ids
        <4> QED
          BY <2>1, <2>3, <4>1, <4>2
      <3> QED
        BY <3>1, <3>2, <3>3
    <2> QED
      BY <2>2, <2>3
  <1> QED
    BY <1>3, <1>4

(* Which answers name items. *)
LEMMA OkReplies ==
  ASSUME StateTyped, NEW p \in Proc, Serve(p), reply'.res = "ok",
         reply'.op \in Reads \cup {"listItems"}
  PROVE  \/ ReadItemValue(p) /\ Answer(p, "ok", {job[p].id})
         \/ Send(p) /\ Answer(p, "ok", job[p].done)
  <1> USE ReplyResults DEF Dies, DiesIn
  <1>1. ASSUME NEW is, Answer(p, "ok", is)
        PROVE  job[p].op \in Reads \cup {"listItems"}
    BY <1>1
  <1>2. JobFits(p)
    BY JobTyped
  <1>3. ~(Verify(p) \/ Authenticate(p) \/ CreateItem(p) \/ Undo(p) \/ ListItems(p))
    BY DEF Verify, Authenticate, CreateItem, Undo, ListItems, Goto
  <1>4. ~(DeleteItem(p) \/ ReadItem(p) \/ SetRecoveryRecipient(p) \/ GetInfo(p))
    BY DEF DeleteItem, ReadItem, SetRecoveryRecipient, GetInfo, Goto
  <1>5. ~(SetItemValue(p) \/ Fetch(p))
    BY <1>1, <1>2 DEF SetItemValue, Fetch, At, Made, Unset, Goto, JobFits, Creations, Reads
  <1>6. ~(Reencrypt(p) \/ LockVault(p) \/ UnlockVault(p) \/ LoadItems(p))
    BY <1>1, <1>2 DEF Reencrypt, LockVault, UnlockVault, LoadItems, At, Goto, JobFits,
                      Reads
  <1>7. ReadItemValue(p) => Answer(p, "ok", {job[p].id})
    BY DEF ReadItemValue
  <1>8. Send(p) => Answer(p, "ok", job[p].done)
    BY DEF Send
  <1> QED
    BY <1>3, <1>4, <1>5, <1>6, <1>7, <1>8 DEF Serve

LEMMA RepliesAreTrue ==
  ASSUME NoFaults, StateTyped, VaultFaithful, ValueFits, Answered, SeenFits, Next
  PROVE  DeletedIsGone' /\ ListIsComplete'
  <1>1. removed \subseteq removed'
    BY NotesGrow
  <1>2. CASE Dies("none") \/ \E p \in Proc : Call(p)
    <2>1. CASE Dies("none")
      BY <2>1 DEF Dies, AllEnd, NoReply, DeletedIsGone, ListIsComplete
    <2>2. ASSUME NEW p \in Proc, Call(p)
          PROVE  DeletedIsGone' /\ ListIsComplete'
      <3>1. reply' = NoReply
        BY <2>2, CallGoes
      <3> QED
        BY <3>1 DEF NoReply, DeletedIsGone, ListIsComplete
    <2> QED
      BY <1>2, <2>1, <2>2
  <1>3. ASSUME NEW p \in Proc, Serve(p)
        PROVE  DeletedIsGone' /\ ListIsComplete'
    <2>1. ASSUME ReadItemValue(p), Answer(p, "ok", {job[p].id})
          PROVE  DeletedIsGone' /\ ListIsComplete'
      <3>1. pc[p] = "value" /\ job[p].op \in Reads /\ job[p].id \in Id
        BY <2>1, JobTyped, PhasesOfActions DEF JobFits, Reads
      <3>2. Has(job[p].id) /\ open /\ items = disk
        BY <3>1 DEF ValueFits, Readable, VaultFaithful, VaultSound, KeyFits, Mirrored
      <3>3. job[p].id \notin seen[p]
        BY <3>1, <3>2 DEF SeenFits, Answered, Has
      <3>4. /\ reply'.op = job[p].op /\ reply'.ids = {job[p].id}
            /\ reply'.seen = seen[p]
        BY <2>1, ReplyResults
      <3> QED
        BY <3>1, <3>3, <3>4 DEF DeletedIsGone, ListIsComplete, Reads
    <2>2. ASSUME Send(p), Answer(p, "ok", job[p].done)
          PROVE  DeletedIsGone' /\ ListIsComplete'
      <3>1. pc[p] = "send" /\ job[p].op \in {"listItems", "deleteItems"}
        BY <2>2, JobTyped DEF Send, JobFits
      <3>2. /\ reply'.op = job[p].op /\ reply'.ids = job[p].done
            /\ reply'.seen = seen[p] /\ reply'.calm = calm[p]
        BY <2>2, ReplyResults
      <3>3. calm[p] /\ job[p].op = "listItems" => seen[p] \ removed \subseteq job[p].done
        BY <3>1 DEF SeenFits, ListedAll
      <3> QED
        BY <1>1, <3>1, <3>2, <3>3 DEF DeletedIsGone, ListIsComplete, Reads
    <2>3. ASSUME ~(reply'.res = "ok" /\ reply'.op \in Reads \cup {"listItems"})
          PROVE  DeletedIsGone' /\ ListIsComplete'
      BY <2>3 DEF DeletedIsGone, ListIsComplete
    <2> QED
      BY <1>3, <2>1, <2>2, <2>3, OkReplies
  <1> QED
    BY <1>2, <1>3, StepCases

-----------------------------------------------------------------------------
(* The invariants *)

MakingSound == ReadsSound /\ MakersSound /\ FreshFits /\ NoLeftovers

LEMMA MakersStaySound ==
  ASSUME StateTyped, MakersSound, Next
  PROVE  MakersSound'
  <1>1. CASE Dies("none")
    <2>1. /\ \A p \in Proc : ~Making(p)'
          /\ UNCHANGED <<made, removed>> /\ fresh' = {} /\ born' = born
      BY <1>1 DEF Dies, AllEnd, Making, Unsettle, Close, vault
    <2> QED
      BY <2>1 DEF MakersSound, KnownIsBorn, MakingFits
  <1>2. ASSUME NEW p \in Proc, Call(p)
        PROVE  MakersSound'
    <2>1. PICK r \in Requests : Turns(p, r, FirstPhase(r.op))
      BY <1>2, CallGoes
    <2>2. FirstPhase(r.op) \notin {"set", "undo", "fetch"}
      BY <2>1, RequestFits DEF StateTyped, VaultTyped
    <2>3. /\ UNCHANGED <<vault, history>>
          /\ \A q \in Proc : Making(q)' => Making(q) /\ job'[q] = job[q]
      BY <1>2, <2>1, <2>2, CallGoes DEF Turns, Making, StateTyped, ControlOK, RpcsTyped
    <2> QED
      BY <2>3 DEF MakersSound, KnownIsBorn, MakingFits, vault, history, ids
  <1> QED
    BY <1>1, <1>2, StepCases, ServeKeepsMakers

LEMMA AlwaysMakingSound == Spec => []MakingSound
  <1>1. Init => MakingSound
    BY InitSound
       DEF Init, MakingSound, MakersSound, KnownIsBorn, MakingFits, Making, FreshFits,
           NoLeftovers
  <1>2. ReadsSound /\ ReadsSound' /\ MakingSound /\ [Next]_vars => MakingSound'
    <2> SUFFICES ASSUME ReadsSound, ReadsSound', MakingSound, [Next]_vars
                 PROVE  MakingSound'
      OBVIOUS
    <2>1. CASE UNCHANGED vars
      BY <2>1 DEF vars, vault, mind, control, history, ids, MakingSound, MakersSound,
                  KnownIsBorn, MakingFits, Making, FreshFits, NoLeftovers, Has
    <2>2. CASE Next
      BY <2>2, MakersStaySound, NothingIsLeftOver DEF MakingSound, ReadsSound
    <2> QED
      BY <2>1, <2>2
  <1> QED
    BY <1>1, <1>2, AlwaysSound, PTL DEF Spec

(* As long as the vault is not locked in between, CreateVaultItem leaves no
   item without a value behind, whichever of its calls fails. *)
THEOREM NoneIsLeftOver == Spec => []NoLeftovers
  BY AlwaysMakingSound, PTL DEF MakingSound

ServiceFaithful ==
  MakingSound /\ VaultFaithful /\ Answered /\ SeenFits /\ DeletedIsGone /\ ListIsComplete

LEMMA AlwaysFaithful ==
  ASSUME NoFaults
  PROVE  Spec => []ServiceFaithful
  <1>1. MakingSound /\ Init => ServiceFaithful
    BY DEF Init, VaultInit, MakingSound, ReadsSound, ServiceFaithful, VaultFaithful,
           Mirrored, Stored, Answered, SeenFits, NoJob, NoReply, DeletedIsGone,
           ListIsComplete, Reads
  <1>2. MakingSound' /\ ServiceFaithful /\ [Next]_vars => ServiceFaithful'
    <2> SUFFICES ASSUME MakingSound', ServiceFaithful, [Next]_vars
                 PROVE  ServiceFaithful'
      OBVIOUS
    <2>1. CASE UNCHANGED vars
      <3>1. VaultFaithful'
        BY <2>1, VaultStaysFaithful DEF vars, ServiceFaithful
      <3> QED
        BY <2>1, <3>1
           DEF vars, vault, disks, mind, told, control, history, ids, observed,
               ServiceFaithful, Answered, Whole, SeenFits, ListedAll, DeletedIsGone,
               ListIsComplete
    <2>2. CASE Next
      <3>1. StateTyped /\ ValueFits /\ MakersSound
        BY DEF ServiceFaithful, MakingSound, ReadsSound
      <3>2. VaultFaithful'
        BY <2>2, <3>1, NextIsVaultNext, VaultStaysFaithful DEF ServiceFaithful
      <3>3. Answered'
        <4>1. CASE Dies("none") \/ \E p \in Proc : Call(p)
          <5>1. disk' = disk /\ made' = made /\ removed' = removed
            <6>1. CASE Dies("none")
              BY <6>1 DEF Dies, Close, vault, disks
            <6>2. ASSUME NEW p \in Proc, Call(p)
                  PROVE  disk' = disk /\ made' = made /\ removed' = removed
              BY <3>1, <6>2, CallGoes DEF vault, disks, history, ids
            <6> QED
              BY <4>1, <6>1, <6>2
          <5> QED
            BY <5>1 DEF ServiceFaithful, Answered, Whole
        <4> QED
          BY <2>2, <3>1, <4>1, StepCases, AnsweredStays DEF ServiceFaithful
      <3>4. SeenFits' /\ DeletedIsGone' /\ ListIsComplete'
        BY <2>2, <3>1, SeenStaysFit, RepliesAreTrue DEF ServiceFaithful
      <3> QED
        BY <3>2, <3>3, <3>4 DEF ServiceFaithful
    <2> QED
      BY <2>1, <2>2
  <1> QED
    BY <1>1, <1>2, AlwaysMakingSound, PTL DEF Spec

(* An item whose creation was answered is complete on disk, with the value that
   was stored, until a client deletes it, whatever RPCs, panics, Locks and
   Unlocks come between the calls that make it. *)
THEOREM AnsweredIsComplete ==
  ASSUME NoFaults
  PROVE  Spec => []CreatedIsComplete
  <1>1. ServiceFaithful => CreatedIsComplete
    BY DEF ServiceFaithful, MakingSound, ReadsSound, VaultFaithful, VaultSound,
           VaultTyped, Stored, Answered, Whole, MakersSound, KnownIsBorn,
           CreatedIsComplete
  <1> QED
    BY <1>1, AlwaysFaithful, PTL

(* A read called after DeleteVaultItems has deleted its item does not get the
   item, through whatever Lock and Unlock since. *)
THEOREM DeletedIsNotRead ==
  ASSUME NoFaults
  PROVE  Spec => []DeletedIsGone
  BY AlwaysFaithful, PTL DEF ServiceFaithful

(* A list taken while the vault stays open names every item whose creation had
   been answered before it was asked for, but for those deleted meanwhile. *)
THEOREM CalmListIsComplete ==
  ASSUME NoFaults
  PROVE  Spec => []ListIsComplete
  BY AlwaysFaithful, PTL DEF ServiceFaithful
=============================================================================
