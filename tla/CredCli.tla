------------------------------ MODULE CredCli ------------------------------
(***************************************************************************)
(* The cred command line: commands that run one by one or side by side,    *)
(* each of them its own process, and what they share: the configuration    *)
(* file, the keyring of the desktop, and the file of an export.  A command *)
(* loads the configuration and what the keyring has for its store, asks    *)
(* its user, calls the store, and `configure` and `login` write both back, *)
(* file and keyring one entry after the other.                             *)
(*                                                                         *)
(* What is entered at a prompt is named by the login it was entered at.  A *)
(* store is known by what the file keeps of its address: the name, and the *)
(* port unless it is the default one.                                      *)
(***************************************************************************)
EXTENDS Integers, Sequences, FiniteSets

CONSTANTS
  Name, Port,    \* what is entered for the host name and the port of a store
  Process,
  Faults,        \* what may go wrong: subset of {"keyring", "write", "kill"}
  MaxStores, MaxLogins, \* bounds on the commands that write, and the logins
  MaxItems,      \* bound on the items an export lists
  MaxFaults,     \* bound on the faults
  MaxOverlaps,   \* bound on the commands begun beside another
  NoHost, Absent, Garbled, Nil

VARIABLES
  file, ring,    \* the configuration file and the keyring
  out,           \* the file exports are written to
  proc,          \* the commands that run
  stores, faults, overlaps, \* counters, for the bounds
  owner,         \* history: the hosts each login was entered for or carried to
  confirmed,     \* history: the hosts whose lack of TLS a user accepted
  last,          \* history: the login to each host that reads should present
  marks          \* history: the mishaps that the properties excuse

kept    == <<file, ring, out>>
history == <<stores, faults, overlaps, owner, confirmed, last, marks>>
vars    == <<kept, proc, history>>

Login == 1 .. MaxLogins
Maybe == 0 .. MaxLogins    \* a login, or none

(* A port that is entered is one that a store was reached at. *)
ASSUME PortAssumption == Port \subseteq 1 .. 65535

(* A store as the file keeps it and as the keys of the keyring name it.  Port 0
   is the one of the protocol, 443 with TLS and 80 without: a name has one set
   of keys for both of them. *)
Host == [name : Name, port : Port \cup {0}]
Kept(port, isTls) == IF port = (IF isTls THEN 443 ELSE 80) THEN 0 ELSE port

-----------------------------------------------------------------------------
(* The configuration: on file, in the keyring, and loaded *)

(* Plain are the credentials in the file, half if only the id is left of them. *)
Blank == [host |-> NoHost, tls |-> FALSE, plain |-> 0, half |-> FALSE, keeps |-> FALSE]
NoKeys == [id |-> 0, secret |-> 0, pass |-> 0]

(* Mutation: the secure values go to the file as well. *)
SavedWhole(c) == c
(* Mutation: UseTls is not written. *)
SavedWithoutTls(c) == [host |-> c.host, tls |-> FALSE, plain |-> c.plain,
                       half |-> c.half, keeps |-> c.keeps]
(* What goes to the file: the secure values do not. *)
Saved(c) == [host |-> c.host, tls |-> c.tls, plain |-> c.plain,
             half |-> c.half, keeps |-> c.keeps]

(* Load with loadSecureValues: a pair needs both of its entries, and the
   passphrase is looked for only where it was kept. *)
Load(f, keys) ==
  LET pair == keys.id # 0 /\ keys.secret # 0 IN
  [host |-> f.host, tls |-> f.tls, plain |-> f.plain, half |-> f.half, keeps |-> f.keeps,
   id     |-> IF pair THEN keys.id ELSE 0,
   secret |-> IF pair THEN keys.secret ELSE 0,
   pass   |-> IF f.keeps THEN keys.pass ELSE 0,
   moved  |-> FALSE]

KeysOf(h) == IF h \in Host THEN ring[h] ELSE NoKeys
Entries(h) == {e \in {"id", "secret", "pass"} : KeysOf(h)[e] # 0}
(* Each entry is looked up by itself, and one that cannot be read is as none. *)
Found(keys, lost) == [id     |-> IF "id" \in lost THEN 0 ELSE keys.id,
                      secret |-> IF "secret" \in lost THEN 0 ELSE keys.secret,
                      pass   |-> IF "pass" \in lost THEN 0 ELSE keys.pass]
HasSecrets(c) == c.id # 0 \/ c.plain # 0 \/ c.pass # 0
Configured == file \notin {Absent, Garbled} /\ file.host # NoHost

-----------------------------------------------------------------------------
(* Commands: what a command does first, how many questions it has to have
   answered with yes and whether it heeds the last answer, what it takes from
   the configuration for its call, and what comes after the call.  A passphrase
   that is typed, and what the store does, are not followed any further, so
   that some of them are the same. *)

Plain == [first |-> "request", asks |-> 0, heeds |-> TRUE, uses |-> "none", then |-> "answer"]
Asks(n) == [Plain EXCEPT !.first = "confirm", !.asks = n]

Configure   == [Plain EXCEPT !.first = "address"]
LogIn       == [Plain EXCEPT !.first = "enter"]
Info        == Plain
LockVault   == Plain
UnlockVault == Plain
SetRecoveryRecipient == [Asks(2) EXCEPT !.heeds = FALSE]
Export      == [Asks(2) EXCEPT !.then = "items"]
ListItems   == [Plain EXCEPT !.uses = "passphrase"]
ReadItem    == [Plain EXCEPT !.uses = "client"]
CreateItem  == [Asks(1) EXCEPT !.uses = "passphrase"]   \* the value is entered twice
DeleteItems == [Asks(1) EXCEPT !.uses = "passphrase"]
CreateClient == [Plain EXCEPT !.uses = "passphrase"]
DeleteClient == [Asks(1) EXCEPT !.uses = "passphrase"]

Commands == {Configure, LogIn, Info, LockVault, UnlockVault, SetRecoveryRecipient, Export,
             ListItems, ReadItem, CreateItem, DeleteItems, CreateClient, DeleteClient}

Writers == {Configure, LogIn}

Requests(c, id, secret, pass) ==
  [host |-> c.host, tls |-> c.tls, id |-> id, secret |-> secret, pass |-> pass]

(* The credentials of a client: those of the keyring first. *)
Present(c) ==
  IF c.id # 0 THEN Requests(c, c.id, c.secret, 0)
  ELSE IF c.plain # 0 THEN Requests(c, c.plain, IF c.half THEN 0 ELSE c.plain, 0)
  ELSE Requests(c, 0, 0, c.pass)

(* What a command that does not write takes from the configuration, which it
   does not load again, and sends when its user has answered. *)
Asking(cmd, c) ==
  CASE cmd.uses = "client"     -> Present(c)
    [] cmd.uses = "passphrase" -> Requests(c, 0, 0, c.pass)
    [] cmd.uses = "none"       -> Requests(c, 0, 0, 0)

Resting == [pc |-> "idle", cmd |-> Nil, cfg |-> Nil, req |-> Nil,
            todo |-> 0, missed |-> 0, new |-> 0,
            smooth |-> TRUE]

Fault(f) == f \in Faults /\ faults < MaxFaults /\ faults' = faults + 1

Ends(p) == proc' = [proc EXCEPT ![p] = Resting]
At(p, step) == proc[p].pc = step
Cfg(p) == proc[p].cfg

(* createState loads, and VerifyConnectionConfig lets no command but configure
   go on without a host.  Smooth is a writer that no other command overlaps and
   whose keyring works. *)
Begin(p, cmd) ==
  \E f \in {IF file = Absent THEN Blank ELSE file} \ {Garbled} :
   \E lost \in SUBSET Entries(f.host) :
    /\ At(p, "idle")
    /\ cmd # Configure => Configured
    /\ cmd \in Writers => stores < MaxStores
    /\ cmd = LogIn => Len(owner) < MaxLogins
    /\ IF lost = {} THEN UNCHANGED faults ELSE Fault("keyring")
    /\ IF \A q \in Process : At(q, "idle") THEN UNCHANGED overlaps
       ELSE overlaps < MaxOverlaps /\ overlaps' = overlaps + 1
    /\ LET alone == \A q \in Process : At(q, "idle")
           loaded == Load(f, Found(KeysOf(f.host), lost))
       IN
       proc' = [q \in Process |->
         IF q = p THEN [Resting EXCEPT !.pc = cmd.first, !.cmd = cmd,
                          !.cfg = IF cmd \in Writers THEN loaded ELSE Asking(cmd, loaded),
                          !.smooth = cmd \in Writers => alone /\ lost = {}]
         ELSE [proc[q] EXCEPT !.smooth = @ /\ proc[q].cmd \notin Writers]]
    /\ stores' = stores + (IF cmd \in Writers THEN 1 ELSE 0)
    /\ marks' = marks \cup (IF \E q \in Process : At(q, "secret") /\ Cfg(q).host = f.host
                            THEN {"overlapped"} ELSE {})
    /\ UNCHANGED <<kept, owner, confirmed, last>>

(* What any command may meet before it writes, and while it waits for the
   store: an invalid answer at a prompt, no connection, an error.  It is
   fatal. *)
Waiting == {"address", "prod", "enter", "store", "request", "answer", "open"}
Fatal(p) == proc[p].pc \in Waiting /\ Ends(p) /\ UNCHANGED <<kept, history>>

(* Before it writes, a command that is killed is as one that was declined or
   had an error. *)
Storing == {"keys", "secret", "pass", "encode"}
Killed(p) ==
  /\ proc[p].pc \in Storing \cup {"write"} /\ Fault("kill")
  /\ Ends(p)
  /\ marks' = marks \cup (IF At(p, "secret") THEN {"halfPair"} ELSE {})
                    \cup (IF At(p, "write") THEN {"cut"} ELSE {})
  /\ last' = IF proc[p].pc \in Storing
             THEN [h \in Host |-> 0] ELSE last
  /\ UNCHANGED <<kept, stores, overlaps, owner, confirmed>>

-----------------------------------------------------------------------------
(* Questions that are answered with yes or no *)

Asked == {"noTls", "notProd", "confirm", "reconfirm", "overwrite"}

NextOf(p) ==
  CASE At(p, "noTls")   -> "prod"
    [] At(p, "notProd") -> "store"
    [] At(p, "confirm") -> IF proc[p].cmd.asks = 2 THEN "reconfirm" ELSE "request"
    [] At(p, "reconfirm") -> "request"
    [] At(p, "overwrite") -> "open"

Accept(p) ==
  /\ proc[p].pc \in Asked
  /\ proc' = [proc EXCEPT ![p].pc = NextOf(p)]
  /\ confirmed' = confirmed \cup (IF At(p, "noTls") THEN {Cfg(p).host} ELSE {})
  /\ UNCHANGED <<kept, stores, faults, overlaps, owner, last, marks>>

(* A command that is declined ends, but SetRecoveryRecipient, whose last
   answer is not heeded: it says that it was aborted, and goes on. *)
Decline(p) ==
  /\ proc[p].pc \in Asked
  /\ IF At(p, "reconfirm") /\ ~proc[p].cmd.heeds
     THEN proc' = [proc EXCEPT ![p].pc = NextOf(p)]
     ELSE Ends(p)
  /\ UNCHANGED <<kept, history>>

-----------------------------------------------------------------------------
(* configure: the address, whether the store speaks TLS, whether it is in
   production mode *)

Address(p, name, port) ==
  /\ At(p, "address")
  /\ \E isTls \in BOOLEAN :
       LET h == [name |-> name, port |-> Kept(port, isTls)] IN
       proc' = [proc EXCEPT ![p].pc = IF isTls THEN "prod" ELSE "noTls",
                            ![p].cfg = [@ EXCEPT !.host = h, !.tls = isTls,
                               !.moved = h # Cfg(p).host /\ HasSecrets(Cfg(p))]]
  /\ UNCHANGED <<kept, history>>

CheckIfProd(p) ==
  /\ At(p, "prod")
  /\ \E isProd \in BOOLEAN :
       proc' = [proc EXCEPT ![p].pc = IF isProd THEN "store" ELSE "notProd",
                            ![p].req = Requests(Cfg(p), 0, 0, 0)]
  /\ UNCHANGED <<kept, history>>

-----------------------------------------------------------------------------
(* login, with client credentials or (-p) the passphrase, each to be kept in
   the keyring or (-t) not *)

(* Mutation: a login does not replace the pair that is loaded. *)
LogsInOnce(c, kind, n) ==
  CASE kind = "secure"     -> IF c.id # 0 THEN c
                                ELSE [c EXCEPT !.plain = 0, !.half = FALSE, !.id = n, !.secret = n]
    [] kind = "plain"      -> [c EXCEPT !.plain = n, !.half = FALSE]
    [] kind = "passphrase" -> [c EXCEPT !.keeps = TRUE, !.pass = n]
    [] kind = "askAlways"  -> [c EXCEPT !.keeps = FALSE]
LogsIn(c, kind, n) ==
  CASE kind = "secure"     -> [c EXCEPT !.plain = 0, !.half = FALSE, !.id = n, !.secret = n]
    [] kind = "plain"      -> [c EXCEPT !.plain = n, !.half = FALSE]
    [] kind = "passphrase" -> [c EXCEPT !.keeps = TRUE, !.pass = n]
    [] kind = "askAlways"  -> [c EXCEPT !.keeps = FALSE]

Enter(p, kind) ==
  /\ At(p, "enter") /\ Len(owner) < MaxLogins
  /\ LET n == Len(owner) + 1 IN
     proc' = [proc EXCEPT ![p].pc = "store", ![p].cfg = LogsIn(@, kind, n),
                          ![p].new = IF kind = "secure" \/ (kind = "plain" /\ Cfg(p).id = 0)
                                     THEN n ELSE 0]
  /\ owner' = Append(owner, {Cfg(p).host})
  /\ UNCHANGED <<kept, stores, faults, overlaps, confirmed, last, marks>>

-----------------------------------------------------------------------------
(* Store: the file is truncated, the keyring written, the file written *)

(* What a configure that moves to another host carries along is for that one
   too, from when it is stored. *)
Carried(c) == IF c.moved THEN {c.id, c.secret, c.plain, c.pass} ELSE {}

Truncate(p) ==
  /\ At(p, "store")
  /\ file' = Blank   \* what an empty file decodes to
  /\ proc' = [proc EXCEPT ![p].pc = IF Cfg(p).id = 0 THEN "pass" ELSE "keys"]
  /\ owner' = [n \in DOMAIN owner |->
                 IF n \in Carried(Cfg(p)) THEN owner[n] \cup {Cfg(p).host} ELSE owner[n]]
  /\ UNCHANGED <<ring, out, stores, faults, overlaps, confirmed, last, marks>>

(* Mutation: a key does not name the port. *)
SetSharedKey(p, entry, value) ==
  ring' = [h \in Host |-> IF h.name = Cfg(p).host.name
                          THEN [ring[h] EXCEPT ![entry] = value] ELSE ring[h]]
(* A key names a store as the file keeps it. *)
SetKey(p, entry, value) ==
  ring' = [ring EXCEPT ![Cfg(p).host] = [@ EXCEPT ![entry] = value]]
KeyringFails == Fault("keyring")

SetId(p) ==
  /\ At(p, "keys")
  /\ \/ /\ SetKey(p, "id", Cfg(p).id)
        /\ proc' = [proc EXCEPT ![p].pc = "secret"]
        /\ UNCHANGED faults
     \/ /\ KeyringFails
        /\ proc' = [proc EXCEPT ![p].pc = "pass", ![p].smooth = FALSE]
        /\ UNCHANGED ring
  /\ marks' = marks \cup (IF \E q \in Process \ {p} :
                               At(q, "secret") /\ Cfg(q).host = Cfg(p).host
                          THEN {"overlapped"} ELSE {})
  /\ UNCHANGED <<file, out, stores, overlaps, owner, confirmed, last>>

(* Mutation: the id stays beside the secret of an earlier login. *)
LeavesId(p) == UNCHANGED ring
RemovesId(p) == SetKey(p, "id", 0)

(* When the secret cannot be set, the id is removed, if that is possible. *)
SetSecret(p) ==
  /\ At(p, "secret")
  /\ \/ /\ SetKey(p, "secret", Cfg(p).secret)
        /\ proc' = [proc EXCEPT ![p].pc = "pass"]
        /\ UNCHANGED <<faults, marks>>
     \/ /\ KeyringFails
        /\ proc' = [proc EXCEPT ![p].pc = "pass", ![p].smooth = FALSE]
        /\ \/ RemovesId(p) /\ UNCHANGED marks
           \/ UNCHANGED ring /\ marks' = marks \cup {"halfPair"}
  /\ UNCHANGED <<file, out, stores, overlaps, owner, confirmed, last>>

SetPassphrase(p) ==
  /\ At(p, "pass")
  /\ \/ /\ IF Cfg(p).keeps /\ Cfg(p).pass # 0
           THEN SetKey(p, "pass", Cfg(p).pass) ELSE UNCHANGED ring
        /\ proc' = [proc EXCEPT ![p].pc = "encode"]
        /\ UNCHANGED faults
     \/ /\ KeyringFails /\ Cfg(p).keeps /\ Cfg(p).pass # 0
        /\ proc' = [proc EXCEPT ![p].pc = "encode", ![p].smooth = FALSE]
        /\ UNCHANGED ring
  /\ UNCHANGED <<file, out, stores, overlaps, owner, confirmed, last, marks>>

(* A file cut short may still decode, or not.  What it can lose, from its end:
   the secret of the credentials in it, these altogether, whether the
   passphrase is kept, TLS, the port or digits of it, and everything. *)
CutPorts(port) == {q \in Port \cup {0} : \E d \in {1, 10, 100, 1000, 10000} : q = port \div d}
                    \cup {0}
Short(c) == {Blank, Garbled,
    [Saved(c) EXCEPT !.half = c.plain # 0],
    [Saved(c) EXCEPT !.plain = 0, !.half = FALSE],
    [Blank EXCEPT !.host = c.host, !.tls = c.tls]}
  \cup {[Blank EXCEPT !.host = [c.host EXCEPT !.port = q]] : q \in CutPorts(c.host.port)}
(* Written over what another command wrote meanwhile, a shorter file keeps
   the other's tail, which is where the credentials are. *)
Over(f, c) == {Saved(c), Garbled} \cup
  (IF f # Garbled /\ c.plain = 0 THEN {[Saved(c) EXCEPT !.plain = f.plain, !.half = f.half]} ELSE {})

Presented(p) ==
  IF ~proc[p].smooth THEN [h \in Host |-> 0]
  ELSE IF Cfg(p).moved \/ proc[p].new # 0 THEN [last EXCEPT ![Cfg(p).host] = proc[p].new]
  ELSE last

Encode(p) ==
  /\ At(p, "encode") /\ Ends(p)
  /\ \/ /\ file = Blank /\ file' = Saved(Cfg(p))
        /\ last' = Presented(p) /\ UNCHANGED <<faults, marks>>
     \/ /\ file # Blank /\ file' \in Over(file, Cfg(p))
        /\ last' = Presented(p) /\ marks' = marks \cup {"overlaid"} /\ UNCHANGED faults
     \/ /\ Fault("write") /\ file' \in Short(Cfg(p))
        /\ last' = [h \in Host |-> 0] /\ marks' = marks \cup {"cut"}
  /\ UNCHANGED <<ring, out, stores, overlaps, owner, confirmed>>

-----------------------------------------------------------------------------
(* Calls of the store *)

(* The call of an export is that for the list of items. *)
Request(p) ==
  /\ At(p, "request")
  /\ \E n \in IF proc[p].cmd = Export THEN 0 .. MaxItems ELSE {0} :
       proc' = [proc EXCEPT ![p].pc = proc[p].cmd.then, ![p].req = Cfg(p),
                            ![p].cfg = Nil, ![p].todo = n]
  /\ UNCHANGED <<kept, history>>

Answered(p) == At(p, "answer") /\ Ends(p) /\ UNCHANGED <<kept, history>>

-----------------------------------------------------------------------------
(* export: every item it listed is read; what cannot be read, as others may
   delete it or lock the store, is fatal. *)

ExportItem(p) ==
  /\ At(p, "items") /\ proc[p].todo > 0
  /\ proc' = [proc EXCEPT ![p].todo = @ - 1]
  /\ UNCHANGED <<kept, history>>

(* Mutation: what cannot be read is skipped. *)
SkipsItem(p) == proc' = [proc EXCEPT ![p].todo = @ - 1, ![p].missed = @ + 1]
GivesUp(p) == Ends(p)

ExportItemFails(p) ==
  /\ At(p, "items") /\ proc[p].todo > 0 /\ GivesUp(p)
  /\ UNCHANGED <<kept, history>>

Stat(p) ==
  /\ At(p, "items") /\ proc[p].todo = 0
  /\ proc' = [proc EXCEPT ![p].pc = IF out = Absent THEN "open" ELSE "overwrite"]
  /\ UNCHANGED <<kept, history>>

OpenOutput(p) ==
  /\ At(p, "open") /\ out' = "torn"
  /\ proc' = [proc EXCEPT ![p].pc = "write"]
  /\ UNCHANGED <<file, ring, history>>

WriteOutput(p) ==
  LET written == IF proc[p].missed = 0 THEN "whole" ELSE "torn" IN
  /\ At(p, "write") /\ Ends(p)
  /\ \/ out = "torn" /\ out' = written /\ UNCHANGED <<faults, marks>>
     \/ /\ out # "torn" /\ out' \in {written, "torn"}
        /\ marks' = marks \cup {"overlaid"} /\ UNCHANGED faults
     \/ Fault("write") /\ out' = "torn" /\ marks' = marks \cup {"cut"}
  /\ UNCHANGED <<file, ring, stores, overlaps, owner, confirmed, last>>

-----------------------------------------------------------------------------
Init ==
  /\ file = Absent /\ ring = [h \in Host |-> NoKeys] /\ out = Absent
  /\ proc = [p \in Process |-> Resting]
  /\ stores = 0 /\ faults = 0 /\ overlaps = 0 /\ owner = <<>>
  /\ confirmed = {} /\ last = [h \in Host |-> 0] /\ marks = {}

Step(p) ==
  \/ \E cmd \in Commands : Begin(p, cmd)
  \/ Accept(p) \/ Decline(p) \/ Fatal(p) \/ Killed(p)
  \/ \E name \in Name, port \in Port : Address(p, name, port)
  \/ CheckIfProd(p)
  \/ \E kind \in {"secure", "plain", "passphrase", "askAlways"} : Enter(p, kind)
  \/ Truncate(p) \/ SetId(p) \/ SetSecret(p) \/ SetPassphrase(p) \/ Encode(p)
  \/ Request(p) \/ Answered(p)
  \/ ExportItem(p) \/ ExportItemFails(p) \/ Stat(p) \/ OpenOutput(p) \/ WriteOutput(p)

Next == \E p \in Process : Step(p)
Spec == Init /\ [][Next]_vars

-----------------------------------------------------------------------------
(* Properties *)

Config == [host : Host \cup {NoHost}, tls : BOOLEAN, plain : Maybe,
           half : BOOLEAN, keeps : BOOLEAN]
Loaded == [host : Host \cup {NoHost}, tls : BOOLEAN, plain : Maybe,
           half : BOOLEAN, keeps : BOOLEAN,
           id : Maybe, secret : Maybe, pass : Maybe, moved : BOOLEAN]
Sent == [host : Host, tls : BOOLEAN, id : Maybe, secret : Maybe, pass : Maybe]
Steps == {"idle", "address", "prod", "enter", "store", "keys", "secret", "pass",
          "encode", "request", "answer", "items", "open", "write"} \cup Asked

ASSUME BoundsAssumption ==
  {MaxStores, MaxLogins, MaxItems, MaxFaults, MaxOverlaps} \subseteq Nat

(* A file that is absent or cannot be decoded is none that can. *)
ASSUME MarksAssumption ==
  {Absent, Garbled} \cap Config = {} /\ Absent # Garbled /\ Absent # "torn"

(* The values of the variables; a host is known before anything is sent, and
   the file never has an entry of the keyring only. *)
TypeOK ==
  /\ file \in Config \cup {Absent, Garbled}
  /\ ring \in [Host -> [id : Maybe, secret : Maybe, pass : Maybe]]
  /\ out \in {Absent, "torn", "whole"}
  /\ \A p \in Process :
       /\ proc[p].pc \in Steps /\ proc[p].cmd \in Commands \cup {Nil}
       /\ proc[p].cfg \in Loaded \cup Sent \cup {Nil} /\ proc[p].req \in Sent \cup {Nil}
       /\ proc[p].todo \in 0 .. MaxItems /\ proc[p].missed \in 0 .. MaxItems
       /\ proc[p].new \in Maybe
       /\ proc[p].smooth \in BOOLEAN
  /\ stores \in 0 .. MaxStores
  /\ faults \in 0 .. MaxFaults /\ overlaps \in 0 .. MaxOverlaps
  /\ owner \in Seq(SUBSET Host) /\ Len(owner) \in Maybe
  /\ confirmed \subseteq Host /\ last \in [Host -> Maybe]
  /\ marks \subseteq {"overlapped", "halfPair", "overlaid", "cut"}

(* The id and the secret a read presents were entered together, whichever
   writes of the keyring failed before, and only a file that was cut short lets
   a read present an id without its secret; unless the process died between the
   two, the id could not be removed, or two logins ran at once. *)
PairOfOneLogin ==
  marks \cap {"halfPair", "overlapped"} = {} =>
    \A p \in Process : LET req == proc[p].req IN req # Nil =>
      req.id = req.secret \/ ("cut" \in marks /\ req.secret = 0)

(* What is sent to a store was entered for that store, or was loaded by a
   configure that moved to it; however the file was cut short, whichever
   entries of the keyring could not be read and wherever commands died.  The
   two default ports of a name are one store in this, as they are in the
   keyring.  Two commands that write the file at once are left out. *)
CredentialsOfHost ==
  "overlaid" \notin marks =>
    \A p \in Process : LET req == proc[p].req IN req # Nil =>
      \A n \in {req.id, req.secret, req.pass} \ {0} : req.host \in owner[n]

(* Nothing is sent in the clear to a host unless a user was told that it has
   no TLS and went on; unless a full disk cut the configuration short, which
   reads like one without TLS. *)
ClearTextWasConfirmed ==
  "cut" \notin marks =>
    \A p \in Process :
      proc[p].req # Nil /\ ~proc[p].req.tls => proc[p].req.host \in confirmed

(* When a login has been stored by a command that nothing disturbed, a read
   presents it, until something else is stored for that host (last). *)
LoginIsKept ==
  (Configured /\ \A p \in Process : proc[p].pc \notin Storing)
    => LET r == Present(Load(file, KeysOf(file.host))) IN
       last[file.host] # 0 => r.id = last[file.host] /\ r.secret = last[file.host]

(* The file of an export that is not being written is one of a whole export:
   what could not be read in between has left it alone. *)
ExportIsWhole ==
  (marks \cap {"cut", "overlaid"} = {} /\ \A p \in Process : ~At(p, "write"))
    => out # "torn"
=============================================================================
