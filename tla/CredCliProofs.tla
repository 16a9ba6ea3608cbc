--------------------------- MODULE CredCliProofs ---------------------------
(***************************************************************************)
(* What the commands of CredCli keep true, for every set of hosts and of   *)
(* processes and all bounds: the types of the variables, then what the     *)
(* configuration file, the keyring, the file of an export and each command *)
(* know of one another.                                                    *)
(***************************************************************************)
EXTENDS CredCli, TLAPS

Keys == [id : Maybe, secret : Maybe, pass : Maybe]
Run == [pc : Steps, cmd : Commands \cup {Nil}, cfg : Loaded \cup Sent \cup {Nil},
        req : Sent \cup {Nil}, todo : 0 .. MaxItems, missed : {0}, new : Maybe,
        smooth : BOOLEAN]

Writes == {"address", "noTls", "prod", "notProd", "enter", "store"} \cup Storing
Sends == {"confirm", "reconfirm", "request"}
Calls == {"answer", "items", "overwrite", "open", "write"}

-----------------------------------------------------------------------------
(* The commands and the configuration *)

LEMMA CommandIs ==
  ASSUME NEW cmd \in Commands
  PROVE  /\ cmd.first \in {"request", "confirm", "address", "enter"}
         /\ cmd.first = "address" <=> cmd = Configure
         /\ cmd.first = "enter" <=> cmd = LogIn
         /\ cmd.first \in Sends <=> cmd \notin Writers
         /\ cmd.then \in {"answer", "items"}
         /\ cmd.uses \in {"client", "passphrase", "none"}
         /\ cmd.heeds \in BOOLEAN
  <1> DEFINE K == [first : {"request", "confirm", "address", "enter"}, asks : 0 .. 2,
                   heeds : BOOLEAN, uses : {"client", "passphrase", "none"},
                   then : {"answer", "items"}]
  <1>1. Plain \in K /\ Plain.first = "request"
    BY DEF Plain
  <1>2. \A n \in 0 .. 2 : Asks(n) \in K /\ Asks(n).first = "confirm"
    BY DEF Asks, Plain
  <1>3. /\ Configure \in K /\ Configure.first = "address"
        /\ LogIn \in K /\ LogIn.first = "enter"
    BY <1>1 DEF Configure, LogIn
  <1>4. \A c \in {Info, LockVault, UnlockVault, ListItems, ReadItem, CreateClient} :
          c \in K /\ c.first = "request"
    BY <1>1 DEF Info, LockVault, UnlockVault, ListItems, ReadItem, CreateClient
  <1>5. \A c \in {SetRecoveryRecipient, Export, CreateItem, DeleteItems, DeleteClient} :
          c \in K /\ c.first = "confirm"
    <2>1. Asks(1) \in K /\ Asks(2) \in K /\ Asks(1).first = "confirm" /\ Asks(2).first = "confirm"
      BY <1>2
    <2>2. \A a \in K : /\ [a EXCEPT !.heeds = FALSE] \in K
                      /\ [a EXCEPT !.heeds = FALSE].first = a.first
                      /\ [a EXCEPT !.then = "items"] \in K
                      /\ [a EXCEPT !.then = "items"].first = a.first
                      /\ [a EXCEPT !.uses = "passphrase"] \in K
                      /\ [a EXCEPT !.uses = "passphrase"].first = a.first
      OBVIOUS
    <2> HIDE DEF K
    <2> QED BY <2>1, <2>2 DEF SetRecoveryRecipient, Export, CreateItem, DeleteItems, DeleteClient
  <1>6. cmd \in K
    BY <1>3, <1>4, <1>5 DEF Commands
  <1>7. \/ cmd = Configure \/ cmd = LogIn
        \/ cmd \notin Writers /\ cmd.first \in {"request", "confirm"}
    <2>1. cmd \in Commands \ Writers => cmd.first \in {"request", "confirm"}
      BY <1>4, <1>5 DEF Commands, Writers
    <2> QED BY <2>1 DEF Writers
  <1>8. Configure \in Writers /\ LogIn \in Writers
    BY DEF Writers
  <1> HIDE DEF K
  <1>9. cmd.then \in {"answer", "items"} /\ cmd.heeds \in BOOLEAN
        /\ cmd.uses \in {"client", "passphrase", "none"}
    BY <1>6 DEF K
  <1> QED BY <1>3, <1>7, <1>8, <1>9 DEF Sends

LEMMA BlankIs == Blank \in Config /\ NoKeys \in Keys
  BY BoundsAssumption DEF Blank, NoKeys, Config, Keys, Maybe

LEMMA KeysIs ==
  ASSUME ring \in [Host -> Keys], NEW h
  PROVE  KeysOf(h) \in Keys
  BY BlankIs DEF KeysOf

(* Entries that cannot be read are as none. *)
LEMMA FoundIs ==
  ASSUME NEW keys \in Keys, NEW lost
  PROVE  LET k == Found(keys, lost) IN
         /\ k \in Keys
         /\ k.id \in {0, keys.id} /\ k.secret \in {0, keys.secret} /\ k.pass \in {0, keys.pass}
         /\ lost = {} => k.id = keys.id /\ k.secret = keys.secret /\ k.pass = keys.pass
  BY BoundsAssumption DEF Found, Keys, Maybe

LEMMA LoadIs ==
  ASSUME NEW f \in Config, NEW keys \in Keys
  PROVE  LET l == Load(f, keys) IN
         /\ l \in Loaded /\ ~l.moved
         /\ l.host = f.host /\ l.tls = f.tls
         /\ l.plain = f.plain /\ l.half = f.half /\ l.keeps = f.keeps
         /\ \/ l.id = 0 /\ l.secret = 0 /\ (keys.id = 0 \/ keys.secret = 0)
            \/ l.id = keys.id /\ l.secret = keys.secret /\ keys.id # 0 /\ keys.secret # 0
         /\ l.pass \in {0, keys.pass}
  BY BoundsAssumption DEF Load, Config, Keys, Loaded, Maybe

LEMMA SavedIs ==
  ASSUME NEW c \in Loaded
  PROVE  /\ Saved(c) \in Config
         /\ Saved(c).host = c.host /\ Saved(c).tls = c.tls
         /\ Saved(c).plain = c.plain /\ Saved(c).half = c.half /\ Saved(c).keeps = c.keeps
  BY DEF Saved, Loaded, Config

LEMMA RequestIs ==
  ASSUME NEW c \in Loaded, c.host \in Host,
         NEW i \in Maybe, NEW s \in Maybe, NEW w \in Maybe
  PROVE  LET r == Requests(c, i, s, w) IN
         /\ r \in Sent /\ r.host = c.host /\ r.tls = c.tls
         /\ r.id = i /\ r.secret = s /\ r.pass = w
  BY DEF Requests, Loaded, Sent

(* What is sent names a pair, what the file has, or the passphrase. *)
LEMMA AskingIs ==
  ASSUME NEW c \in Loaded, c.host \in Host, NEW cmd \in Commands
  PROVE  LET r == Asking(cmd, c) IN
         /\ r \in Sent /\ r.host = c.host /\ r.tls = c.tls
         /\ \/ r.id = c.id /\ r.secret = c.secret
            \/ r.id = c.plain /\ r.secret = IF c.half THEN 0 ELSE c.plain
            \/ r.id = 0 /\ r.secret = 0
         /\ r.pass \in {0, c.pass}
  <1>0. 0 \in Maybe /\ c.id \in Maybe /\ c.secret \in Maybe /\ c.plain \in Maybe
        /\ c.pass \in Maybe
    BY BoundsAssumption DEF Maybe, Loaded
  <1>1. CASE cmd.uses = "client"
    <2>1. Asking(cmd, c) = Present(c)
      BY <1>1 DEF Asking
    <2> QED BY <2>1, <1>0, RequestIs DEF Present
  <1>2. CASE cmd.uses = "passphrase"
    <2>1. Asking(cmd, c) = Requests(c, 0, 0, c.pass)
      BY <1>2 DEF Asking
    <2> QED BY <2>1, <1>0, RequestIs
  <1>3. CASE cmd.uses = "none"
    <2>1. Asking(cmd, c) = Requests(c, 0, 0, 0)
      BY <1>3 DEF Asking
    <2> QED BY <2>1, <1>0, RequestIs
  <1> QED BY <1>1, <1>2, <1>3, CommandIs

-----------------------------------------------------------------------------
(* The types, with what a command holds at each of its steps *)

RunOK(r) ==
  /\ r.pc \in Writes => r.cmd \in Writers /\ r.cfg \in Loaded
  /\ r.pc \in Writes \ {"address"} => r.cfg.host \in Host
  /\ r.pc \in Sends => r.cmd \in Commands \ Writers /\ r.cfg \in Sent
  /\ r.pc \in Calls => r.cmd \in Commands \ Writers /\ r.req \in Sent
  /\ r.pc = "enter" => r.cmd = LogIn
  /\ r.pc \in {"keys", "secret"} => r.cfg.id # 0
  /\ r.pc \in Writes => (r.cfg.id = 0 <=> r.cfg.secret = 0)

SharedOK ==
  /\ file \in Config \cup {Absent, Garbled}
  /\ ring \in [Host -> Keys]
  /\ out \in {Absent, "torn", "whole"}

HistoryOK ==
  /\ stores \in 0 .. MaxStores
  /\ faults \in 0 .. MaxFaults /\ overlaps \in 0 .. MaxOverlaps
  /\ owner \in Seq(SUBSET Host) /\ Len(owner) \in Maybe
  /\ confirmed \subseteq Host /\ last \in [Host -> Maybe]
  /\ marks \subseteq {"overlapped", "halfPair", "overlaid", "cut"}

RunsOK == proc \in [Process -> Run] /\ \A p \in Process : RunOK(proc[p])
LEMMA RestingIs == Resting \in Run /\ RunOK(Resting) /\ Resting.pc = "idle"
                   /\ Resting.req = Nil /\ Resting.new = 0
  BY BoundsAssumption DEF Resting, Run, RunOK, Steps, Maybe, Writes, Storing, Sends, Calls

(* A command that begins holds what it has loaded, or what it will send of it,
   and of the others only their smoothness is touched. *)
Beginning(p, cmd, l) ==
  LET r == proc'[p] IN
  /\ r.pc = cmd.first /\ r.cmd = cmd
  /\ r.cfg = IF cmd \in Writers THEN l ELSE Asking(cmd, l)
  /\ r.req = Nil /\ r.todo = 0 /\ r.missed = 0 /\ r.new = 0
  /\ r.smooth => cmd \notin Writers \/ \A q \in Process : At(q, "idle")

Beside(q) ==
  LET r == proc[q]  s == proc'[q] IN
  /\ s.pc = r.pc /\ s.cmd = r.cmd /\ s.cfg = r.cfg /\ s.req = r.req
  /\ s.todo = r.todo /\ s.missed = r.missed /\ s.new = r.new
  /\ s.smooth => r.smooth /\ r.cmd \notin Writers

(* What Begin does with the configuration f when the entries lost of the
   keyring cannot be read. *)
Starts(p, cmd, f, lost) ==
  /\ At(p, "idle")
  /\ cmd # Configure => Configured
  /\ cmd \in Writers => stores < MaxStores
  /\ cmd = LogIn => Len(owner) < MaxLogins
  /\ IF lost = {} THEN UNCHANGED faults ELSE Fault("keyring")
  /\ IF \A q \in Process : At(q, "idle") THEN UNCHANGED overlaps
     ELSE overlaps < MaxOverlaps /\ overlaps' = overlaps + 1
  /\ LET alone == \A q \in Process : At(q, "idle")
         loaded == Load(f, Found(KeysOf(f.host), lost))
     IN
     proc' = [q \in Process |->
       IF q = p THEN [Resting EXCEPT !.pc = cmd.first, !.cmd = cmd,
                        !.cfg = IF cmd \in Writers THEN loaded ELSE Asking(cmd, loaded),
                        !.smooth = cmd \in Writers => alone /\ lost = {}]
       ELSE [proc[q] EXCEPT !.smooth = @ /\ proc[q].cmd \notin Writers]]
  /\ stores' = stores + (IF cmd \in Writers THEN 1 ELSE 0)
  /\ marks' = marks \cup (IF \E q \in Process : At(q, "secret") /\ Cfg(q).host = f.host
                          THEN {"overlapped"} ELSE {})
  /\ UNCHANGED <<kept, owner, confirmed, last>>

LEMMA BeginIs ==
  ASSUME SharedOK, RunsOK, NEW p \in Process, NEW cmd \in Commands, Begin(p, cmd)
  PROVE  \E f \in Config, lost \in SUBSET {"id", "secret", "pass"} :
           LET l == Load(f, Found(KeysOf(f.host), lost)) IN
           /\ f = IF file = Absent THEN Blank ELSE file
           /\ file # Garbled
           /\ cmd # Configure => file # Absent /\ f.host \in Host \ {NoHost}
           /\ proc' \in [Process -> Run]
           /\ Beginning(p, cmd, l)
           /\ lost # {} /\ cmd \in Writers => ~proc'[p].smooth
           /\ \A q \in Process \ {p} : Beside(q)
           /\ marks \subseteq marks'
           /\ \A q \in Process : At(q, "secret") /\ Cfg(q).host = f.host
                 => "overlapped" \in marks'
  <1>0. PICK f \in {IF file = Absent THEN Blank ELSE file} \ {Garbled} :
          \E lost \in SUBSET Entries(f.host) : Starts(p, cmd, f, lost)
    BY Zenon DEF Begin, Starts
  <1>1. PICK lost \in SUBSET Entries(f.host) : Starts(p, cmd, f, lost)
    BY <1>0
  <1>2. f \in Config /\ (cmd # Configure => file # Absent /\ f.host \in Host \ {NoHost})
    <2>1. f # Garbled /\ f = IF file = Absent THEN Blank ELSE file
      BY <1>0
    <2>2. cmd # Configure => Configured
      BY <1>1 DEF Starts
    <2> QED BY <2>1, <2>2, BlankIs DEF SharedOK, Configured, Config
  <1> DEFINE l == Load(f, Found(KeysOf(f.host), lost))
             c == IF cmd \in Writers THEN l ELSE Asking(cmd, l)
             calm == cmd \in Writers => (\A q \in Process : At(q, "idle")) /\ lost = {}
             mine == [Resting EXCEPT !.pc = cmd.first, !.cmd = cmd, !.cfg = c,
                                     !.smooth = calm]
             other(q) == [proc[q] EXCEPT !.smooth = @ /\ proc[q].cmd \notin Writers]
  <1>3. proc' = [q \in Process |-> IF q = p THEN mine ELSE other(q)]
    BY <1>1 DEF Starts
  <1>4. l \in Loaded /\ l.host = f.host
    BY <1>2, LoadIs, FoundIs, KeysIs DEF SharedOK
  <1>5. c \in Loaded \cup Sent
    <2>1. CASE cmd \in Writers
      BY <2>1, <1>4
    <2>2. CASE cmd \notin Writers
      <3>1. l.host \in Host
        BY <2>2, <1>2, <1>4 DEF Writers
      <3> HIDE DEF l
      <3> QED BY <2>2, <3>1, <1>4, AskingIs
    <2> QED BY <2>1, <2>2
  <1>6. cmd.first \in Steps
    BY CommandIs DEF Steps, Asked
  <1>7. calm \in BOOLEAN
    OBVIOUS
  <1>8. /\ mine \in Run /\ mine.pc = cmd.first /\ mine.cmd = cmd /\ mine.cfg = c
        /\ mine.req = Nil /\ mine.todo = 0 /\ mine.missed = 0 /\ mine.new = 0
        /\ mine.smooth = calm
    <2>1. /\ Resting \in Run /\ Resting.req = Nil /\ Resting.todo = 0
          /\ Resting.missed = 0 /\ Resting.new = 0
      BY RestingIs DEF Resting
    <2>2. cmd.first \in Steps /\ cmd \in Commands \cup {Nil}
          /\ c \in Loaded \cup Sent \cup {Nil}
      BY <1>5, <1>6
    <2> HIDE DEF c, calm
    <2> QED BY <2>1, <2>2, <1>7 DEF Run
  <1>9. ASSUME NEW q \in Process
        PROVE  /\ other(q) \in Run
               /\ LET r == proc[q]  s == other(q) IN
                  /\ s.pc = r.pc /\ s.cmd = r.cmd /\ s.cfg = r.cfg /\ s.req = r.req
                  /\ s.todo = r.todo /\ s.missed = r.missed /\ s.new = r.new
                  /\ s.smooth => r.smooth /\ r.cmd \notin Writers
    <2>1. proc[q] \in Run
      BY DEF RunsOK
    <2> QED BY <2>1 DEF Run
  <1>10. proc' \in [Process -> Run]
    <2> HIDE DEF mine, other
    <2> QED BY <1>3, <1>8, <1>9
  <1>11. proc'[p] = mine /\ \A q \in Process \ {p} : proc'[q] = other(q)
    <2> HIDE DEF mine, other
    <2> QED BY <1>3
  <1>12. Beginning(p, cmd, l) /\ (lost # {} /\ cmd \in Writers => ~proc'[p].smooth)
    <2> HIDE DEF mine, l
    <2> QED BY <1>8, <1>11 DEF Beginning
  <1>13. \A q \in Process \ {p} : Beside(q)
    <2> HIDE DEF other
    <2> QED BY <1>9, <1>11 DEF Beside
  <1>14. /\ marks \subseteq marks'
         /\ \A q \in Process : At(q, "secret") /\ Cfg(q).host = f.host
              => "overlapped" \in marks'
    BY <1>1 DEF Starts
  <1> HIDE DEF l
  <1>15. /\ f \in Config /\ lost \in SUBSET {"id", "secret", "pass"} /\ file # Garbled
         /\ f = IF file = Absent THEN Blank ELSE file
    <2>1. f # Garbled /\ f = IF file = Absent THEN Blank ELSE file
      BY <1>0
    <2>2. lost \in SUBSET {"id", "secret", "pass"}
      BY <1>1 DEF Entries
    <2> QED BY <1>2, <2>1, <2>2, MarksAssumption
  <1> QED BY <1>2, <1>10, <1>12, <1>13, <1>14, <1>15 DEF l

(* The steps of a command after its beginning change no other. *)
Only(p, r) == proc' = [proc EXCEPT ![p] = r]

LEMMA OnlyIs ==
  ASSUME RunsOK, NEW p \in Process, NEW r \in Run, RunOK(r), Only(p, r)
  PROVE  RunsOK' /\ proc'[p] = r /\ \A q \in Process \ {p} : proc'[q] = proc[q]
  BY DEF RunsOK, Only

LEMMA EndsIs ==
  ASSUME RunsOK, NEW p \in Process, Ends(p)
  PROVE  RunsOK' /\ proc'[p] = Resting /\ \A q \in Process \ {p} : proc'[q] = proc[q]
  BY RestingIs, OnlyIs DEF Ends, Only

Others(p) == RunsOK' /\ \A q \in Process \ {p} : proc'[q] = proc[q]
Rests(p) == Others(p) /\ proc'[p] = Resting

(* A command goes on to one of some steps, with all that it holds. *)
Goes(p, steps) ==
  /\ Others(p) /\ proc'[p].pc \in steps
  /\ LET r == proc[p]  s == proc'[p] IN
     s.cfg = r.cfg /\ s.req = r.req /\ s.new = r.new /\ s.smooth = r.smooth

LEMMA AcceptIs ==
  ASSUME RunsOK, NEW p \in Process, Accept(p)
  PROVE  \/ At(p, "noTls") /\ Goes(p, {"prod"})
         \/ At(p, "notProd") /\ Goes(p, {"store"})
         \/ At(p, "confirm") /\ Goes(p, {"reconfirm", "request"})
         \/ At(p, "reconfirm") /\ Goes(p, {"request"})
         \/ At(p, "overwrite") /\ Goes(p, {"open"})
  <1> DEFINE r == proc[p]
             s == [r EXCEPT !.pc = NextOf(p)]
  <1>1. r \in Run /\ RunOK(r) /\ r.pc \in Asked
    BY DEF RunsOK, Accept
  <1>2. /\ r.pc = "noTls" => NextOf(p) = "prod"
        /\ r.pc = "notProd" => NextOf(p) = "store"
        /\ r.pc = "confirm" => NextOf(p) \in {"reconfirm", "request"}
        /\ r.pc = "reconfirm" => NextOf(p) = "request"
        /\ r.pc = "overwrite" => NextOf(p) = "open"
    BY DEF NextOf, At
  <1>3. NextOf(p) \in {"prod", "store", "reconfirm", "request", "open"}
    BY <1>1, <1>2 DEF Asked
  <1>4. /\ s \in Run /\ s.pc = NextOf(p)
        /\ s.cmd = r.cmd /\ s.cfg = r.cfg /\ s.req = r.req /\ s.new = r.new
        /\ s.smooth = r.smooth
    BY <1>1, <1>3 DEF Run, Steps, Asked
  <1>5. RunOK(s)
    <2> HIDE DEF s, r
    <2> QED BY <1>1, <1>2, <1>3, <1>4
         DEF RunOK, Writes, Storing, Sends, Calls, Asked
  <1>6. Only(p, s)
    BY DEF Accept, Only
  <1> HIDE DEF s
  <1>7. Others(p) /\ proc'[p] = s
    BY <1>1, <1>4, <1>5, <1>6, OnlyIs DEF Others
  <1> QED BY <1>1, <1>2, <1>4, <1>7 DEF Goes, At, Asked

LEMMA DeclineIs ==
  ASSUME RunsOK, NEW p \in Process, Decline(p)
  PROVE  \/ proc[p].pc \in Asked /\ Rests(p)
         \/ At(p, "reconfirm") /\ Goes(p, {"request"})
  <1>1. CASE At(p, "reconfirm") /\ ~proc[p].cmd.heeds
    <2> DEFINE r == proc[p]
               s == [r EXCEPT !.pc = NextOf(p)]
    <2>1. r \in Run /\ RunOK(r) /\ r.pc = "reconfirm"
      BY <1>1 DEF RunsOK, At
    <2>2. NextOf(p) = "request"
      BY <1>1 DEF NextOf, At
    <2>3. /\ s \in Run /\ s.pc = "request" /\ s.cmd = r.cmd /\ s.cfg = r.cfg
          /\ s.req = r.req /\ s.new = r.new /\ s.smooth = r.smooth
      BY <2>1, <2>2 DEF Run, Steps
    <2>4. RunOK(s)
      <3> HIDE DEF s
      <3> QED BY <1>1, <2>1, <2>3 DEF RunOK, Writes, Storing, Sends, Calls
    <2>5. Only(p, s)
      BY <1>1, <2>1 DEF Decline, Only
    <2> HIDE DEF s
    <2> QED BY <1>1, <2>3, <2>4, <2>5, OnlyIs DEF Others, Goes
  <1>2. CASE ~(At(p, "reconfirm") /\ ~proc[p].cmd.heeds)
    BY <1>2, EndsIs DEF Decline, Rests, Others
  <1> QED BY <1>1, <1>2

(* The steps that end a command. *)
LEMMA EndIs ==
  ASSUME RunsOK, NEW p \in Process
  PROVE  /\ Fatal(p) \/ Killed(p) \/ Answered(p) \/ ExportItemFails(p) => Rests(p)
         /\ Encode(p) \/ WriteOutput(p) => Rests(p)
  BY EndsIs DEF Fatal, Killed, Answered, ExportItemFails, GivesUp, Encode, WriteOutput,
                Rests, Others

LEMMA KeptIs ==
  ASSUME NEW name \in Name, NEW port \in Port, NEW isTls \in BOOLEAN
  PROVE  [name |-> name, port |-> Kept(port, isTls)] \in Host
  BY DEF Kept, Host

LEMMA AddressIs ==
  ASSUME RunsOK, NEW p \in Process, NEW name \in Name, NEW port \in Port,
         Address(p, name, port)
  PROVE  /\ Others(p) /\ At(p, "address")
         /\ LET r == proc[p]  s == proc'[p]  c == r.cfg  d == s.cfg IN
            /\ s.pc = IF d.tls THEN "prod" ELSE "noTls"
            /\ s.req = r.req /\ s.new = r.new /\ s.smooth = r.smooth
            /\ c \in Loaded /\ d \in Loaded /\ d.host \in Host
            /\ d.plain = c.plain /\ d.half = c.half /\ d.keeps = c.keeps
            /\ d.id = c.id /\ d.secret = c.secret /\ d.pass = c.pass
            /\ d.moved <=> d.host # c.host /\ HasSecrets(c)
  <1>1. PICK isTls \in BOOLEAN :
       LET h == [name |-> name, port |-> Kept(port, isTls)] IN
       proc' = [proc EXCEPT ![p].pc = IF isTls THEN "prod" ELSE "noTls",
                            ![p].cfg = [@ EXCEPT !.host = h, !.tls = isTls,
                               !.moved = h # Cfg(p).host /\ HasSecrets(Cfg(p))]]
    BY DEF Address
  <1> DEFINE r == proc[p]
             h == [name |-> name, port |-> Kept(port, isTls)]
             c == r.cfg
             far == h # c.host /\ HasSecrets(c)
             d == [c EXCEPT !.host = h, !.tls = isTls, !.moved = far]
             s == [r EXCEPT !.pc = IF isTls THEN "prod" ELSE "noTls", !.cfg = d]
  <1>2. r \in Run /\ RunOK(r) /\ r.pc = "address"
    BY DEF RunsOK, Address, At
  <1>3. c \in Loaded /\ r.cmd \in Writers /\ (c.id = 0 <=> c.secret = 0)
    BY <1>2 DEF RunOK, Writes
  <1>4. far \in BOOLEAN /\ h \in Host
    BY KeptIs DEF HasSecrets
  <1>5. /\ d \in Loaded /\ d.host = h /\ d.tls = isTls /\ d.moved = far
        /\ d.plain = c.plain /\ d.half = c.half /\ d.keeps = c.keeps
        /\ d.id = c.id /\ d.secret = c.secret /\ d.pass = c.pass
    <2> HIDE DEF c, far, h
    <2> QED BY <1>3, <1>4 DEF Loaded
  <1>6. /\ s \in Run /\ s.pc = (IF isTls THEN "prod" ELSE "noTls") /\ s.cfg = d
        /\ s.cmd = r.cmd /\ s.req = r.req /\ s.new = r.new
        /\ s.smooth = r.smooth
    <2> HIDE DEF d, c
    <2> QED BY <1>2, <1>5 DEF Run, Steps, Asked
  <1>7. RunOK(s)
    <2> HIDE DEF s, d, h
    <2> QED BY <1>2, <1>3, <1>4, <1>5, <1>6 DEF RunOK, Writes, Storing, Sends, Calls
  <1>8. Only(p, s)
    <2> HIDE DEF h
    <2> QED BY <1>1 DEF Only, Cfg, h
  <1>9. Others(p) /\ proc'[p] = s
    <2> HIDE DEF s
    <2> QED BY <1>6, <1>7, <1>8, OnlyIs DEF Others
  <1> HIDE DEF s, d, far, h
  <1> QED BY <1>2, <1>3, <1>4, <1>5, <1>6, <1>9 DEF At, far

LEMMA ProdIs ==
  ASSUME RunsOK, NEW p \in Process, CheckIfProd(p)
  PROVE  /\ Others(p) /\ At(p, "prod")
         /\ LET r == proc[p]  s == proc'[p]  c == r.cfg IN
            /\ s.pc \in {"store", "notProd"} /\ c \in Loaded /\ c.host \in Host
            /\ s.cfg = c /\ s.new = r.new /\ s.smooth = r.smooth
            /\ s.req.host = c.host /\ s.req.tls = c.tls
            /\ s.req.id = 0 /\ s.req.secret = 0 /\ s.req.pass = 0
  <1>1. PICK isProd \in BOOLEAN :
       proc' = [proc EXCEPT ![p].pc = IF isProd THEN "store" ELSE "notProd",
                            ![p].req = Requests(Cfg(p), 0, 0, 0)]
    BY DEF CheckIfProd
  <1> DEFINE r == proc[p]
             q == Requests(r.cfg, 0, 0, 0)
             s == [r EXCEPT !.pc = IF isProd THEN "store" ELSE "notProd", !.req = q]
  <1>2. r \in Run /\ RunOK(r) /\ r.pc = "prod"
    BY DEF RunsOK, CheckIfProd, At
  <1>3. /\ r.cfg \in Loaded /\ r.cfg.host \in Host /\ r.cmd \in Writers
        /\ (r.cfg.id = 0 <=> r.cfg.secret = 0)
    BY <1>2 DEF RunOK, Writes
  <1>4. /\ q \in Sent /\ q.host = r.cfg.host /\ q.tls = r.cfg.tls
        /\ q.id = 0 /\ q.secret = 0 /\ q.pass = 0
    BY <1>3, RequestIs, BoundsAssumption DEF Maybe
  <1>5. /\ s \in Run /\ s.pc \in {"store", "notProd"} /\ s.req = q
        /\ s.cmd = r.cmd /\ s.cfg = r.cfg /\ s.new = r.new
        /\ s.smooth = r.smooth
    <2> HIDE DEF q
    <2> QED BY <1>2, <1>4 DEF Run, Steps, Asked
  <1>6. RunOK(s)
    <2> HIDE DEF s, q
    <2> QED BY <1>2, <1>3, <1>5 DEF RunOK, Writes, Storing, Sends, Calls
  <1>7. Only(p, s)
    BY <1>1 DEF Only, Cfg
  <1>8. Others(p) /\ proc'[p] = s
    <2> HIDE DEF s
    <2> QED BY <1>5, <1>6, <1>7, OnlyIs DEF Others
  <1> HIDE DEF s, q
  <1> QED BY <1>2, <1>3, <1>4, <1>5, <1>8 DEF At

LEMMA LogsInIs ==
  ASSUME NEW c \in Loaded, NEW n \in Login,
         NEW kind \in {"secure", "plain", "passphrase", "askAlways"}
  PROVE  LET d == LogsIn(c, kind, n) IN
         /\ d \in Loaded /\ d.host = c.host /\ d.tls = c.tls /\ d.moved = c.moved
         /\ d.half => c.half
         /\ \/ kind = "secure" /\ d.plain = 0 /\ d.id = n /\ d.secret = n /\ d.pass = c.pass
            \/ kind = "plain" /\ d.plain = n /\ ~d.half /\ d.id = c.id /\ d.secret = c.secret
               /\ d.pass = c.pass
            \/ kind = "passphrase" /\ d.plain = c.plain /\ d.half = c.half /\ d.id = c.id
               /\ d.secret = c.secret /\ d.pass = n
            \/ kind = "askAlways" /\ d.plain = c.plain /\ d.half = c.half /\ d.id = c.id
               /\ d.secret = c.secret /\ d.pass = c.pass
  <1>1. n \in Maybe /\ 0 \in Maybe
    BY BoundsAssumption DEF Login, Maybe
  <1>2. CASE kind = "secure"
    BY <1>1, <1>2 DEF LogsIn, Loaded
  <1>3. CASE kind = "plain"
    BY <1>1, <1>3 DEF LogsIn, Loaded
  <1>4. CASE kind = "passphrase"
    BY <1>1, <1>4 DEF LogsIn, Loaded
  <1>5. CASE kind = "askAlways"
    BY <1>1, <1>5 DEF LogsIn, Loaded
  <1> QED BY <1>2, <1>3, <1>4, <1>5

LEMMA EnterIs ==
  ASSUME RunsOK, HistoryOK, NEW p \in Process,
         NEW kind \in {"secure", "plain", "passphrase", "askAlways"}, Enter(p, kind)
  PROVE  LET n == Len(owner) + 1  r == proc[p]  s == proc'[p]  c == r.cfg  d == s.cfg IN
         /\ Others(p) /\ At(p, "enter") /\ n \in Login
         /\ s.pc = "store" /\ s.req = r.req /\ s.smooth = r.smooth
         /\ c \in Loaded /\ c.host \in Host /\ d = LogsIn(c, kind, n)
         /\ d.host = c.host /\ d.tls = c.tls /\ d.moved = c.moved
         /\ s.new = IF kind = "secure" \/ (kind = "plain" /\ c.id = 0) THEN n ELSE 0
         /\ owner' = Append(owner, {c.host})
  <1> DEFINE n == Len(owner) + 1
             r == proc[p]
             c == r.cfg
             d == LogsIn(c, kind, n)
             m == IF kind = "secure" \/ (kind = "plain" /\ c.id = 0) THEN n ELSE 0
             s == [r EXCEPT !.pc = "store", !.cfg = d, !.new = m]
  <1>1. r \in Run /\ RunOK(r) /\ r.pc = "enter"
    BY DEF RunsOK, Enter, At
  <1>2. /\ c \in Loaded /\ c.host \in Host /\ r.cmd \in Writers
        /\ (c.id = 0 <=> c.secret = 0)
    BY <1>1 DEF RunOK, Writes
  <1>3. n \in Login /\ n # 0 /\ m \in Maybe
    BY BoundsAssumption DEF HistoryOK, Enter, Login, Maybe
  <1>4. d \in Loaded /\ d.host = c.host /\ d.tls = c.tls /\ d.moved = c.moved
        /\ (d.id = 0 <=> d.secret = 0)
    <2>0. d = LogsIn(c, kind, n)
      OBVIOUS
    <2> HIDE DEF n, c, m, s, d
    <2>1. /\ d \in Loaded /\ d.host = c.host /\ d.tls = c.tls /\ d.moved = c.moved
          /\ (d.id = n /\ d.secret = n) \/ (d.id = c.id /\ d.secret = c.secret)
      <3>1. c \in Loaded /\ n \in Login
        BY <1>2, <1>3
      <3> QED BY <2>0, <3>1, LogsInIs, SMTT(30)
    <2> QED BY <1>2, <1>3, <2>1
  <1>5. /\ s \in Run /\ s.pc = "store" /\ s.cfg = d /\ s.new = m
        /\ s.cmd = r.cmd /\ s.req = r.req
        /\ s.smooth = r.smooth
    <2> HIDE DEF d, m
    <2> QED BY <1>1, <1>3, <1>4 DEF Run, Steps
  <1>6. RunOK(s)
    <2> HIDE DEF s, d, c
    <2> QED BY <1>1, <1>2, <1>4, <1>5 DEF RunOK, Writes, Storing, Sends, Calls, c
  <1>7. Only(p, s) /\ owner' = Append(owner, {c.host})
    BY DEF Only, Cfg, Enter
  <1>8. Others(p) /\ proc'[p] = s
    <2> HIDE DEF s
    <2> QED BY <1>5, <1>6, <1>7, OnlyIs DEF Others
  <1> HIDE DEF s
  <1> QED BY <1>1, <1>2, <1>3, <1>4, <1>5, <1>7, <1>8 DEF At

(* What the steps that only move on have in common: to is where they go, and
   calm whether the writer stays smooth. *)
LEMMA MovedOn ==
  ASSUME RunsOK, NEW p \in Process, NEW to \in Steps, NEW calm \in BOOLEAN,
         Only(p, [proc[p] EXCEPT !.pc = to, !.smooth = calm]),
         \A r \in Run : /\ r.pc = to /\ r.cmd = proc[p].cmd /\ r.cfg = proc[p].cfg
                       /\ r.req = proc[p].req
                       => RunOK(r)
  PROVE  /\ Others(p) /\ proc'[p].pc = to /\ proc'[p].smooth = calm
         /\ LET r == proc[p]  s == proc'[p] IN
            s.cfg = r.cfg /\ s.req = r.req /\ s.new = r.new
  <1> DEFINE s == [proc[p] EXCEPT !.pc = to, !.smooth = calm]
  <1>1. proc[p] \in Run
    BY DEF RunsOK
  <1>2. /\ s \in Run /\ s.pc = to /\ s.smooth = calm
        /\ s.cmd = proc[p].cmd /\ s.cfg = proc[p].cfg /\ s.req = proc[p].req
        /\ s.new = proc[p].new
    BY <1>1 DEF Run
  <1> HIDE DEF s
  <1>3. RunOK(s)
    BY <1>2
  <1>4. Only(p, s)
    BY DEF s
  <1> QED BY <1>2, <1>3, <1>4, OnlyIs DEF Others

LEMMA TruncateIs ==
  ASSUME RunsOK, NEW p \in Process, Truncate(p)
  PROVE  LET c == Cfg(p) IN
         /\ At(p, "store") /\ Goes(p, {IF c.id = 0 THEN "pass" ELSE "keys"})
         /\ c \in Loaded /\ c.host \in Host
  <1> DEFINE r == proc[p]
             to == IF r.cfg.id = 0 THEN "pass" ELSE "keys"
  <1>1. r \in Run /\ RunOK(r) /\ r.pc = "store"
    BY DEF RunsOK, Truncate, At
  <1>2. /\ r.cfg \in Loaded /\ r.cfg.host \in Host /\ r.cmd \in Writers
        /\ (r.cfg.id = 0 <=> r.cfg.secret = 0)
    BY <1>1 DEF RunOK, Writes
  <1>3. to \in Steps /\ r.smooth \in BOOLEAN
    BY <1>1 DEF Steps, Run
  <1>4. Only(p, [r EXCEPT !.pc = to, !.smooth = r.smooth])
    <2>1. [r EXCEPT !.pc = to, !.smooth = r.smooth] = [r EXCEPT !.pc = to]
      BY <1>1 DEF Run
    <2> QED BY <2>1 DEF Truncate, Only, Cfg
  <1>5. ASSUME NEW s \in Run, s.pc = to, s.cmd = r.cmd, s.cfg = r.cfg, s.req = r.req
        PROVE  RunOK(s)
    BY <1>1, <1>2, <1>5 DEF RunOK, Writes, Storing, Sends, Calls
  <1>6. /\ Others(p) /\ proc'[p].pc = to /\ proc'[p].smooth = r.smooth
        /\ proc'[p].cfg = r.cfg /\ proc'[p].req = r.req /\ proc'[p].new = r.new
    <2> HIDE DEF to
    <2> QED BY <1>3, <1>4, <1>5, MovedOn
  <1> QED BY <1>1, <1>2, <1>6 DEF Goes, Cfg, At

LEMMA SetKeyIs ==
  ASSUME SharedOK, NEW p \in Process, Cfg(p).host \in Host,
         NEW entry \in {"id", "secret", "pass"}, NEW v \in Maybe, SetKey(p, entry, v)
  PROVE  LET h == Cfg(p).host IN
         /\ ring' \in [Host -> Keys]
         /\ \A g \in Host \ {h} : ring'[g] = ring[g]
         /\ ring'[h].id = IF entry = "id" THEN v ELSE ring[h].id
         /\ ring'[h].secret = IF entry = "secret" THEN v ELSE ring[h].secret
         /\ ring'[h].pass = IF entry = "pass" THEN v ELSE ring[h].pass
  <1> DEFINE h == Cfg(p).host
             k == [ring[h] EXCEPT ![entry] = v]
  <1>1. ring[h] \in Keys
    BY DEF SharedOK
  <1>2. /\ k \in Keys
        /\ k.id = IF entry = "id" THEN v ELSE ring[h].id
        /\ k.secret = IF entry = "secret" THEN v ELSE ring[h].secret
        /\ k.pass = IF entry = "pass" THEN v ELSE ring[h].pass
    <2>1. CASE entry = "id"
      BY <1>1, <2>1 DEF Keys
    <2>2. CASE entry = "secret"
      BY <1>1, <2>2 DEF Keys
    <2>3. CASE entry = "pass"
      BY <1>1, <2>3 DEF Keys
    <2> QED BY <2>1, <2>2, <2>3
  <1>3. ring' = [ring EXCEPT ![h] = k]
    BY DEF SetKey
  <1> HIDE DEF k
  <1> QED BY <1>2, <1>3 DEF SharedOK

(* A writer whose keyring fails goes on, and is smooth no more. *)
Stumbles(p, steps) ==
  /\ Others(p) /\ proc'[p].pc \in steps /\ ~proc'[p].smooth
  /\ LET r == proc[p]  s == proc'[p] IN
     s.cfg = r.cfg /\ s.req = r.req /\ s.new = r.new

LEMMA WriterIs ==
  ASSUME RunsOK, NEW p \in Process, proc[p].pc \in Storing
  PROVE  LET c == Cfg(p) IN
         /\ c \in Loaded /\ c.host \in Host
         /\ c.id \in Maybe /\ c.secret \in Maybe /\ c.pass \in Maybe
         /\ proc[p].pc \in {"keys", "secret"} => c.id # 0
  BY DEF RunsOK, RunOK, Writes, Storing, Cfg, Loaded

LEMMA WriterMoves ==
  ASSUME RunsOK, NEW p \in Process, proc[p].pc \in Storing,
         NEW to \in {"secret", "pass", "encode"}, to = "secret" => Cfg(p).id # 0
  PROVE  /\ proc' = [proc EXCEPT ![p].pc = to] => Goes(p, {to})
         /\ proc' = [proc EXCEPT ![p].pc = to, ![p].smooth = FALSE] => Stumbles(p, {to})
  <1> DEFINE r == proc[p]
  <1>1. r \in Run /\ RunOK(r) /\ to \in Steps
    BY DEF RunsOK, Steps
  <1>2. ASSUME NEW s \in Run, s.pc = to, s.cmd = r.cmd, s.cfg = r.cfg, s.req = r.req
        PROVE  RunOK(s)
    BY <1>1, <1>2 DEF RunOK, Writes, Storing, Sends, Calls, Cfg
  <1>3. ASSUME proc' = [proc EXCEPT ![p].pc = to]
        PROVE  Goes(p, {to})
    <2>1. Only(p, [r EXCEPT !.pc = to, !.smooth = r.smooth]) /\ r.smooth \in BOOLEAN
      <3>1. [r EXCEPT !.pc = to, !.smooth = r.smooth] = [r EXCEPT !.pc = to]
        BY <1>1 DEF Run
      <3> QED BY <3>1, <1>1, <1>3 DEF Only, Run
    <2>2. /\ Others(p) /\ proc'[p].pc = to /\ proc'[p].smooth = r.smooth
          /\ proc'[p].cfg = r.cfg /\ proc'[p].req = r.req /\ proc'[p].new = r.new
      BY <1>1, <1>2, <2>1, MovedOn
    <2> QED BY <2>2 DEF Goes
  <1>4. ASSUME proc' = [proc EXCEPT ![p].pc = to, ![p].smooth = FALSE]
        PROVE  Stumbles(p, {to})
    <2>1. Only(p, [r EXCEPT !.pc = to, !.smooth = FALSE])
      BY <1>4 DEF Only
    <2>2. /\ Others(p) /\ proc'[p].pc = to /\ proc'[p].smooth = FALSE
          /\ proc'[p].cfg = r.cfg /\ proc'[p].req = r.req /\ proc'[p].new = r.new
      BY <1>1, <1>2, <2>1, MovedOn
    <2> QED BY <2>2 DEF Stumbles
  <1> QED BY <1>3, <1>4

LEMMA SetIdIs ==
  ASSUME RunsOK, NEW p \in Process, SetId(p)
  PROVE  /\ At(p, "keys")
         /\ \/ SetKey(p, "id", Cfg(p).id) /\ Goes(p, {"secret"})
            \/ ring' = ring /\ Stumbles(p, {"pass"})
  <1>1. proc[p].pc \in Storing /\ Cfg(p).id # 0
    BY WriterIs DEF SetId, At, Storing
  <1> QED BY <1>1, WriterMoves DEF SetId

LEMMA SetSecretIs ==
  ASSUME RunsOK, NEW p \in Process, SetSecret(p)
  PROVE  /\ At(p, "secret")
         /\ \/ SetKey(p, "secret", Cfg(p).secret) /\ Goes(p, {"pass"}) /\ marks' = marks
            \/ SetKey(p, "id", 0) /\ Stumbles(p, {"pass"}) /\ marks' = marks
            \/ ring' = ring /\ Stumbles(p, {"pass"}) /\ marks' = marks \cup {"halfPair"}
  <1>1. proc[p].pc \in Storing
    BY DEF SetSecret, At, Storing
  <1> QED BY <1>1, WriterMoves DEF SetSecret, RemovesId

LEMMA SetPassphraseIs ==
  ASSUME RunsOK, NEW p \in Process, SetPassphrase(p)
  PROVE  /\ At(p, "pass")
         /\ \/ SetKey(p, "pass", Cfg(p).pass) /\ Goes(p, {"encode"})
            \/ ring' = ring /\ Goes(p, {"encode"})
            \/ ring' = ring /\ Stumbles(p, {"encode"})
  <1>1. proc[p].pc \in Storing
    BY DEF SetPassphrase, At, Storing
  <1> QED BY <1>1, WriterMoves DEF SetPassphrase

LEMMA CallIs ==
  ASSUME RunsOK, NEW p \in Process, Request(p)
  PROVE  /\ Others(p) /\ At(p, "request")
         /\ LET r == proc[p]  s == proc'[p] IN
            /\ s.pc \in {"answer", "items"} /\ r.cfg \in Sent
            /\ s.cfg = Nil /\ s.req = r.cfg
  <1>1. PICK n \in IF proc[p].cmd = Export THEN 0 .. MaxItems ELSE {0} :
       proc' = [proc EXCEPT ![p].pc = proc[p].cmd.then, ![p].req = Cfg(p),
                            ![p].cfg = Nil, ![p].todo = n]
    BY DEF Request
  <1> DEFINE r == proc[p]
             to == r.cmd.then
             s == [r EXCEPT !.pc = to, !.req = r.cfg, !.cfg = Nil, !.todo = n]
  <1>2. r \in Run /\ RunOK(r) /\ r.pc = "request"
    BY DEF RunsOK, Request, At
  <1>3. r.cmd \in Commands \ Writers /\ r.cfg \in Sent
    BY <1>2 DEF RunOK, Sends
  <1>4. to \in {"answer", "items"} /\ n \in 0 .. MaxItems
    BY <1>1, <1>3, CommandIs, BoundsAssumption
  <1>5. /\ s \in Run /\ s.pc = to /\ s.req = r.cfg /\ s.cfg = Nil
        /\ s.cmd = r.cmd
    <2> HIDE DEF to
    <2> QED BY <1>2, <1>3, <1>4 DEF Run, Steps
  <1>6. RunOK(s)
    <2> HIDE DEF s, to
    <2> QED BY <1>2, <1>3, <1>4, <1>5 DEF RunOK, Writes, Storing, Sends, Calls
  <1>7. Only(p, s)
    BY <1>1 DEF Only, Cfg
  <1>8. Others(p) /\ proc'[p] = s
    <2> HIDE DEF s
    <2> QED BY <1>5, <1>6, <1>7, OnlyIs DEF Others
  <1> HIDE DEF s, to
  <1> QED BY <1>2, <1>3, <1>4, <1>5, <1>8 DEF At

(* Between its call and its end an export only goes on. *)
LEMMA ExportIs ==
  ASSUME RunsOK, NEW p \in Process, ExportItem(p) \/ Stat(p) \/ OpenOutput(p)
  PROVE  /\ proc[p].pc \in {"items", "open"}
         /\ ExportItem(p) \/ Stat(p) => Goes(p, {"items", "open", "overwrite"})
         /\ OpenOutput(p) => Goes(p, {"write"})
  <1> DEFINE r == proc[p]
  <1>1. r \in Run /\ RunOK(r) /\ r.pc \in {"items", "open"}
    BY DEF RunsOK, ExportItem, Stat, OpenOutput, At
  <1>2. PICK to \in {"items", "open", "overwrite", "write"}, n \in 0 .. MaxItems :
          /\ Only(p, [r EXCEPT !.pc = to, !.todo = n])
          /\ ExportItem(p) \/ Stat(p) => to # "write"
          /\ OpenOutput(p) => to = "write"
    <2>1. CASE ExportItem(p)
      <3>1. r.todo - 1 \in 0 .. MaxItems /\ r.pc = "items"
        BY <2>1, <1>1, BoundsAssumption DEF ExportItem, Run, At
      <3>2. [r EXCEPT !.pc = "items", !.todo = r.todo - 1] = [r EXCEPT !.todo = r.todo - 1]
        BY <3>1, <1>1 DEF Run
      <3>3. Only(p, [r EXCEPT !.pc = "items", !.todo = r.todo - 1])
        BY <2>1, <3>2 DEF ExportItem, Only
      <3> QED BY <2>1, <3>1, <3>3 DEF OpenOutput, At
    <2>2. CASE Stat(p)
      <3> DEFINE to == IF out = Absent THEN "open" ELSE "overwrite"
      <3>1. r.todo \in 0 .. MaxItems /\ r.pc = "items"
        BY <2>2, <1>1 DEF Stat, Run, At
      <3>2. [r EXCEPT !.pc = to, !.todo = r.todo] = [r EXCEPT !.pc = to]
        BY <3>1, <1>1 DEF Run
      <3>3. Only(p, [r EXCEPT !.pc = to, !.todo = r.todo])
        BY <2>2, <3>2 DEF Stat, Only
      <3> QED BY <3>1, <3>3 DEF OpenOutput, At
    <2>3. CASE OpenOutput(p)
      <3>1. r.todo \in 0 .. MaxItems /\ r.pc = "open"
        BY <2>3, <1>1 DEF OpenOutput, Run, At
      <3>2. [r EXCEPT !.pc = "write", !.todo = r.todo] = [r EXCEPT !.pc = "write"]
        BY <3>1, <1>1 DEF Run
      <3>3. Only(p, [r EXCEPT !.pc = "write", !.todo = r.todo])
        BY <2>3, <3>2 DEF OpenOutput, Only
      <3> QED BY <2>3, <3>1, <3>3 DEF ExportItem, Stat, At
    <2> QED BY <2>1, <2>2, <2>3
  <1> DEFINE s == [r EXCEPT !.pc = to, !.todo = n]
  <1>3. /\ s \in Run /\ s.pc = to /\ s.cfg = r.cfg /\ s.req = r.req /\ s.new = r.new
        /\ s.smooth = r.smooth /\ s.cmd = r.cmd
    BY <1>1 DEF Run, Steps, Asked
  <1> HIDE DEF s
  <1>4. RunOK(s)
    BY <1>1, <1>3 DEF RunOK, Writes, Storing, Sends, Calls
  <1>5. Only(p, s)
    BY <1>2 DEF s
  <1>6. Others(p) /\ proc'[p] = s
    BY <1>1, <1>3, <1>4, <1>5, OnlyIs DEF Others
  <1> QED BY <1>1, <1>2, <1>3, <1>6 DEF Goes

-----------------------------------------------------------------------------
(* Types *)

LEMMA BeginRuns ==
  ASSUME SharedOK, RunsOK, NEW p \in Process, NEW cmd \in Commands, Begin(p, cmd)
  PROVE  RunsOK'
  <1>1. PICK f \in Config, lost \in SUBSET {"id", "secret", "pass"} :
          LET l == Load(f, Found(KeysOf(f.host), lost)) IN
          /\ cmd # Configure => f.host \in Host
          /\ proc' \in [Process -> Run]
          /\ Beginning(p, cmd, l)
          /\ \A q \in Process \ {p} : Beside(q)
    BY BeginIs
  <1> DEFINE l == Load(f, Found(KeysOf(f.host), lost))
  <1>2. l \in Loaded /\ (l.id = 0 <=> l.secret = 0) /\ l.host = f.host
    BY LoadIs, FoundIs, KeysIs DEF SharedOK
  <1>3. RunOK(proc'[p])
    <2> DEFINE s == proc'[p]
    <2>1. /\ s.pc = cmd.first /\ s.cmd = cmd
          /\ s.cfg = IF cmd \in Writers THEN l ELSE Asking(cmd, l)
      BY <1>1 DEF Beginning
    <2> HIDE DEF l, s
    <2>2. CASE cmd \in Writers
      <3>1. s.pc \in {"address", "enter"} /\ (s.pc = "enter" => cmd = LogIn /\ l.host \in Host)
        BY <1>1, <1>2, <2>1, <2>2, CommandIs DEF Sends
      <3> QED BY <1>2, <2>1, <2>2, <3>1 DEF RunOK, Writes, Storing, Sends, Calls, s
    <2>3. CASE cmd \notin Writers
      <3>1. Asking(cmd, l) \in Sent
        BY <1>1, <1>2, <2>3, AskingIs DEF Writers
      <3>2. s.pc \in Sends
        BY <2>1, <2>3, CommandIs
      <3> QED BY <2>1, <2>3, <3>1, <3>2 DEF RunOK, Writes, Storing, Sends, Calls, s
    <2> QED BY <2>2, <2>3
  <1>4. ASSUME NEW q \in Process \ {p}
        PROVE  RunOK(proc'[q])
    BY <1>1 DEF Beside, RunOK, RunsOK
  <1> QED BY <1>1, <1>3, <1>4 DEF RunsOK

LEMMA RunsStep ==
  ASSUME SharedOK, HistoryOK, RunsOK, [Next]_vars
  PROVE  RunsOK'
  <1>1. CASE UNCHANGED vars
    BY <1>1 DEF vars, RunsOK
  <1>2. ASSUME NEW p \in Process, Step(p)
        PROVE  RunsOK'
    <2>1. ASSUME NEW cmd \in Commands, Begin(p, cmd)
          PROVE  RunsOK'
      BY <2>1, BeginRuns
    <2>2. ASSUME NEW name \in Name, NEW port \in Port, Address(p, name, port)
          PROVE  RunsOK'
      BY <2>2, AddressIs DEF Others
    <2>3. ASSUME NEW kind \in {"secure", "plain", "passphrase", "askAlways"}, Enter(p, kind)
          PROVE  RunsOK'
      BY <2>3, EnterIs DEF Others
    <2>4. CASE Accept(p) \/ Decline(p) \/ CheckIfProd(p) \/ Truncate(p)
      BY <2>4, AcceptIs, DeclineIs, ProdIs, TruncateIs DEF Others, Goes, Rests
    <2>5. CASE SetId(p) \/ SetSecret(p) \/ SetPassphrase(p)
      BY <2>5, SetIdIs, SetSecretIs, SetPassphraseIs DEF Others, Goes, Stumbles
    <2>6. CASE \/ Fatal(p) \/ Killed(p) \/ Encode(p) \/ Answered(p)
               \/ ExportItemFails(p) \/ WriteOutput(p)
      BY <2>6, EndIs DEF Others, Rests
    <2>7. CASE Request(p) \/ ExportItem(p) \/ Stat(p) \/ OpenOutput(p)
      BY <2>7, CallIs, ExportIs DEF Others, Goes
    <2> QED BY <1>2, <2>1, <2>2, <2>3, <2>4, <2>5, <2>6, <2>7 DEF Step
  <1> QED BY <1>1, <1>2 DEF Next

(* The file is there from the time that a writer has truncated it. *)
FileOK == \A p \in Process : proc[p].pc \in Storing => file # Absent

LEMMA WrittenIs ==
  ASSUME NEW c \in Loaded, c.host \in Host, NEW g
  PROVE  /\ g \in Short(c) => g \in (Config \cup {Garbled}) \ {Absent}
         /\ file \in Config /\ g \in Over(file, c) => g \in (Config \cup {Garbled}) \ {Absent}
         /\ file = Garbled /\ g \in Over(file, c) => g \in (Config \cup {Garbled}) \ {Absent}
  <1>1. Saved(c) \in Config /\ Blank \in Config /\ 0 \in Maybe /\ c.plain \in Maybe
        /\ c.tls \in BOOLEAN
    BY SavedIs, BlankIs, BoundsAssumption DEF Maybe, Loaded
  <1>2. ASSUME NEW b \in Config
        PROVE  /\ \A h \in Host : [b EXCEPT !.host = h] \in Config
               /\ \A h \in Host, t \in BOOLEAN : [b EXCEPT !.host = h, !.tls = t] \in Config
               /\ \A x \in BOOLEAN : [b EXCEPT !.half = x] \in Config
               /\ \A n \in Maybe, x \in BOOLEAN : [b EXCEPT !.plain = n, !.half = x] \in Config
    BY DEF Config
  <1>3. \A q \in CutPorts(c.host.port) : [c.host EXCEPT !.port = q] \in Host
    BY DEF CutPorts, Host
  <1>4. g \in Short(c) => g \in Config \cup {Garbled}
    <2>1. (c.plain # 0) \in BOOLEAN
      OBVIOUS
    <2>2. /\ [Saved(c) EXCEPT !.half = c.plain # 0] \in Config
          /\ [Saved(c) EXCEPT !.plain = 0, !.half = FALSE] \in Config
      BY <1>1, <1>2, <2>1
    <2>3. [Blank EXCEPT !.host = c.host, !.tls = c.tls] \in Config
      BY <1>1, <1>2
    <2>4. \A q \in CutPorts(c.host.port) :
            [Blank EXCEPT !.host = [c.host EXCEPT !.port = q]] \in Config
      BY <1>1, <1>2, <1>3
    <2> QED BY <1>1, <2>2, <2>3, <2>4 DEF Short
  <1>5. file \in Config /\ g \in Over(file, c) => g \in Config \cup {Garbled}
    <2>1. file \in Config => file.plain \in Maybe /\ file.half \in BOOLEAN
      BY DEF Config
    <2> QED BY <1>1, <1>2, <2>1 DEF Over
  <1>6. file = Garbled /\ g \in Over(file, c) => g \in Config \cup {Garbled}
    BY <1>1 DEF Over
  <1> QED BY <1>4, <1>5, <1>6, MarksAssumption

LEMMA EncodeIs ==
  ASSUME SharedOK, FileOK, RunsOK, NEW p \in Process, Encode(p)
  PROVE  /\ Rests(p) /\ At(p, "encode") /\ Cfg(p) \in Loaded /\ Cfg(p).host \in Host
         /\ file' \in (Config \cup {Garbled}) \ {Absent}
         /\ ring' = ring /\ out' = out
  <1>1. /\ At(p, "encode") /\ Cfg(p) \in Loaded /\ Cfg(p).host \in Host
        /\ file \in Config \cup {Garbled}
    BY WriterIs DEF Encode, At, Storing, FileOK, SharedOK
  <1>2. Saved(Cfg(p)) \in Config
    BY <1>1, SavedIs
  <1>3. file' \in (Config \cup {Garbled}) \ {Absent}
    BY <1>1, <1>2, WrittenIs, MarksAssumption DEF Encode
  <1> QED BY <1>1, <1>3, EndIs DEF Encode

LEMMA SharedStep ==
  ASSUME SharedOK, FileOK, HistoryOK, RunsOK, [Next]_vars
  PROVE  SharedOK' /\ FileOK'
  <1>1. CASE UNCHANGED vars
    BY <1>1 DEF vars, kept, SharedOK, FileOK
  <1>2. ASSUME NEW p \in Process, Step(p)
        PROVE  SharedOK' /\ FileOK'
    <2>1. ASSUME NEW cmd \in Commands, Begin(p, cmd)
          PROVE  SharedOK' /\ FileOK'
      <3>1. file' = file /\ ring' = ring /\ out' = out
        BY <2>1 DEF Begin, kept
      <3>2. \A q \in Process : proc'[q].pc \in Storing => q # p /\ proc[q].pc \in Storing
        <4>1. cmd.first \notin Storing
          BY CommandIs DEF Storing
        <4> QED BY <2>1, <4>1, BeginIs DEF Beginning, Beside
      <3> QED BY <3>1, <3>2 DEF SharedOK, FileOK
    <2>2. ASSUME NEW name \in Name, NEW port \in Port, Address(p, name, port)
          PROVE  SharedOK' /\ FileOK'
      BY <2>2, AddressIs DEF Others, Address, kept, SharedOK, FileOK, Storing
    <2>3. ASSUME NEW kind \in {"secure", "plain", "passphrase", "askAlways"}, Enter(p, kind)
          PROVE  SharedOK' /\ FileOK'
      BY <2>3, EnterIs DEF Others, Enter, kept, SharedOK, FileOK, Storing
    <2>4. CASE Accept(p) \/ Decline(p) \/ CheckIfProd(p)
      BY <2>4, AcceptIs, DeclineIs, ProdIs, RestingIs
         DEF Others, Goes, Rests, Accept, Decline, CheckIfProd, kept, SharedOK, FileOK, Storing
    <2>5. CASE Truncate(p)
      BY <2>5, BlankIs, TruncateIs, MarksAssumption DEF Others, Goes, Truncate, SharedOK, FileOK
    <2>6. CASE SetId(p) \/ SetSecret(p) \/ SetPassphrase(p)
      <3>1. proc[p].pc \in Storing /\ file' = file /\ out' = out
        BY <2>6 DEF SetId, SetSecret, SetPassphrase, At, Storing
      <3>2. ring' \in [Host -> Keys]
        <4>1. Cfg(p).host \in Host /\ Cfg(p).id \in Maybe /\ Cfg(p).secret \in Maybe
              /\ Cfg(p).pass \in Maybe /\ 0 \in Maybe
          BY <3>1, WriterIs, BoundsAssumption DEF Maybe
        <4> QED BY <2>6, <4>1, SetIdIs, SetSecretIs, SetPassphraseIs, SetKeyIs DEF SharedOK
      <3>3. \A q \in Process \ {p} : proc'[q] = proc[q]
        BY <2>6, SetIdIs, SetSecretIs, SetPassphraseIs DEF Others, Goes, Stumbles
      <3> QED BY <3>1, <3>2, <3>3 DEF SharedOK, FileOK
    <2>7. CASE Encode(p)
      BY <2>7, EncodeIs, RestingIs DEF Rests, Others, SharedOK, FileOK, Storing
    <2>8. CASE Fatal(p) \/ Killed(p) \/ Answered(p) \/ ExportItemFails(p) \/ WriteOutput(p)
      <3>1. file' = file /\ ring' = ring /\ out' \in {out, "torn", "whole"}
        BY <2>8 DEF Fatal, Killed, Answered, ExportItemFails, WriteOutput, kept
      <3> QED BY <2>8, <3>1, EndIs, RestingIs DEF Rests, Others, SharedOK, FileOK, Storing
    <2>9. CASE Request(p) \/ ExportItem(p) \/ Stat(p) \/ OpenOutput(p)
      <3>1. file' = file /\ ring' = ring /\ out' \in {out, "torn"}
        BY <2>9 DEF Request, ExportItem, Stat, OpenOutput, kept
      <3> QED BY <2>9, <3>1, CallIs, ExportIs DEF Goes, Others, SharedOK, FileOK, Storing
    <2> QED BY <1>2, <2>1, <2>2, <2>3, <2>4, <2>5, <2>6, <2>7, <2>8, <2>9 DEF Step
  <1> QED BY <1>1, <1>2 DEF Next

LEMMA FaultIs ==
  ASSUME faults \in 0 .. MaxFaults, NEW f, Fault(f)
  PROVE  faults' \in 0 .. MaxFaults
  BY BoundsAssumption DEF Fault

LEMMA PresentedIs ==
  ASSUME HistoryOK, RunsOK, NEW p \in Process
  PROVE  Presented(p) \in [Host -> Maybe] /\ [h \in Host |-> 0] \in [Host -> Maybe]
  <1>1. 0 \in Maybe /\ proc[p].new \in Maybe /\ last \in [Host -> Maybe]
    BY BoundsAssumption DEF HistoryOK, RunsOK, Run, Maybe
  <1> QED BY <1>1 DEF Presented

(* What a writer carries to another host is for that one, too. *)
LEMMA CarriedIs ==
  ASSUME owner \in Seq(SUBSET Host), NEW p \in Process, Truncate(p), Cfg(p).host \in Host
  PROVE  /\ owner' \in Seq(SUBSET Host) /\ Len(owner') = Len(owner)
         /\ \A n \in 1 .. Len(owner) :
              /\ owner[n] \subseteq owner'[n]
              /\ n \in Carried(Cfg(p)) => Cfg(p).host \in owner'[n]
  <1>1. Len(owner) \in Nat /\ DOMAIN owner = 1 .. Len(owner)
        /\ \A n \in 1 .. Len(owner) : owner[n] \in SUBSET Host
    OBVIOUS
  <1>2. owner' = [n \in 1 .. Len(owner) |->
                   IF n \in Carried(Cfg(p)) THEN owner[n] \cup {Cfg(p).host} ELSE owner[n]]
    BY <1>1 DEF Truncate
  <1>3. owner' \in [1 .. Len(owner) -> SUBSET Host]
    BY <1>1, <1>2
  <1>4. owner' \in Seq(SUBSET Host) /\ Len(owner') = Len(owner)
    BY <1>1, <1>3
  <1> QED BY <1>2, <1>4

LEMMA HistoryStep ==
  ASSUME SharedOK, FileOK, HistoryOK, RunsOK, [Next]_vars
  PROVE  HistoryOK'
  <1>1. CASE UNCHANGED vars
    BY <1>1 DEF vars, history, HistoryOK
  <1>2. ASSUME NEW p \in Process, Step(p)
        PROVE  HistoryOK'
    <2>1. ASSUME NEW cmd \in Commands, Begin(p, cmd)
          PROVE  HistoryOK'
      <3>1. /\ owner' = owner /\ confirmed' = confirmed /\ last' = last
            /\ marks' \subseteq marks \cup {"overlapped"}
        BY <2>1 DEF Begin
      <3>2. stores' \in 0 .. MaxStores
        <4>1. \/ stores' = stores + 0
              \/ stores' = stores + 1 /\ stores < MaxStores
          BY <2>1 DEF Begin
        <4> QED BY <4>1, BoundsAssumption DEF HistoryOK
      <3>3. faults' \in 0 .. MaxFaults
        BY <2>1, FaultIs DEF Begin, HistoryOK
      <3>4. overlaps' \in 0 .. MaxOverlaps
        <4>1. \/ overlaps' = overlaps
              \/ overlaps < MaxOverlaps /\ overlaps' = overlaps + 1
          BY <2>1 DEF Begin
        <4> QED BY <4>1, BoundsAssumption DEF HistoryOK
      <3> QED BY <3>1, <3>2, <3>3, <3>4 DEF HistoryOK
    <2>2. ASSUME NEW name \in Name, NEW port \in Port, Address(p, name, port)
          PROVE  HistoryOK'
      BY <2>2 DEF Address, history, HistoryOK
    <2>3. ASSUME NEW kind \in {"secure", "plain", "passphrase", "askAlways"}, Enter(p, kind)
          PROVE  HistoryOK'
      <3>1. owner' = Append(owner, {Cfg(p).host}) /\ Cfg(p).host \in Host
            /\ Len(owner) + 1 \in Login
        BY <2>3, EnterIs DEF Cfg
      <3>2. owner' \in Seq(SUBSET Host) /\ Len(owner') \in Maybe
        BY <3>1 DEF HistoryOK, Login, Maybe
      <3> QED BY <2>3, <3>2 DEF Enter, HistoryOK
    <2>4. CASE Accept(p)
      <3>1. At(p, "noTls") => Cfg(p).host \in Host
        BY DEF RunsOK, RunOK, Writes, At, Cfg
      <3> QED BY <2>4, <3>1 DEF Accept, HistoryOK
    <2>5. CASE \/ Decline(p) \/ CheckIfProd(p) \/ Fatal(p) \/ Answered(p) \/ Request(p)
               \/ ExportItem(p) \/ ExportItemFails(p) \/ Stat(p) \/ OpenOutput(p)
      <3>1. UNCHANGED history
        BY <2>5 DEF Decline, CheckIfProd, Fatal, Answered, Request, ExportItem,
                    ExportItemFails, Stat, OpenOutput
      <3> QED BY <3>1 DEF history, HistoryOK
    <2>6. CASE SetId(p) \/ SetSecret(p) \/ SetPassphrase(p)
      <3>1. /\ UNCHANGED <<stores, overlaps, owner, confirmed, last>>
            /\ marks' \subseteq marks \cup {"overlapped", "halfPair"}
        BY <2>6 DEF SetId, SetSecret, SetPassphrase
      <3>2. faults' \in 0 .. MaxFaults
        BY <2>6, FaultIs DEF SetId, SetSecret, SetPassphrase, KeyringFails, HistoryOK
      <3> QED BY <3>1, <3>2 DEF HistoryOK
    <2>8. CASE Truncate(p)
      <3>1. owner' \in Seq(SUBSET Host) /\ Len(owner') = Len(owner)
        <4>1. Cfg(p).host \in Host
          BY <2>8, TruncateIs
        <4> QED BY <2>8, <4>1, CarriedIs DEF HistoryOK
      <3> QED BY <2>8, <3>1 DEF Truncate, HistoryOK
    <2>7. CASE Killed(p) \/ Encode(p) \/ WriteOutput(p)
      <3>1. /\ UNCHANGED <<stores, overlaps, owner, confirmed>>
            /\ marks' \subseteq marks \cup {"halfPair", "cut", "overlaid"}
        BY <2>7 DEF Killed, Encode, WriteOutput
      <3>2. faults' \in 0 .. MaxFaults
        BY <2>7, FaultIs DEF Killed, Encode, WriteOutput, HistoryOK
      <3>3. last' \in {last, Presented(p), [h \in Host |-> 0]}
        BY <2>7 DEF Killed, Encode, WriteOutput
      <3> QED BY <3>1, <3>2, <3>3, PresentedIs DEF HistoryOK
    <2> QED BY <1>2, <2>1, <2>2, <2>3, <2>4, <2>5, <2>6, <2>7, <2>8 DEF Step
  <1> QED BY <1>1, <1>2 DEF Next

(* The export: the file is torn only while some export writes it. *)
OutOK == marks \cap {"cut", "overlaid"} = {} /\ out = "torn" => \E p \in Process : At(p, "write")

ShapeOK == SharedOK /\ FileOK /\ HistoryOK /\ RunsOK /\ OutOK

LEMMA OutStep ==
  ASSUME ShapeOK, [Next]_vars
  PROVE  OutOK'
  <1>1. CASE UNCHANGED vars
    BY <1>1 DEF vars, kept, history, ShapeOK, OutOK, At
  <1>2. ASSUME NEW p \in Process, Step(p)
        PROVE  OutOK'
    <2>0. RunsOK /\ SharedOK /\ HistoryOK /\ FileOK /\ OutOK
      BY DEF ShapeOK
    <2>1. CASE OpenOutput(p)
      <3>1. At(p, "write")'
        BY <2>0, <2>1, ExportIs DEF Goes, At
      <3> QED BY <3>1 DEF OutOK
    <2>2. CASE WriteOutput(p)
      <3>1. proc[p].missed = 0
        BY <2>0 DEF RunsOK, Run
      <3> QED BY <2>2, <3>1 DEF WriteOutput, OutOK
    <2>3. CASE Killed(p)
      <3>1. out' = out /\ marks \subseteq marks' /\ (At(p, "write") => "cut" \in marks')
        BY <2>3 DEF Killed, kept
      <3>2. \A q \in Process \ {p} : proc'[q] = proc[q]
        BY <2>0, <2>3, EndIs DEF Rests, Others
      <3> QED BY <2>0, <3>1, <3>2 DEF OutOK, At
    <2>4. ASSUME ~OpenOutput(p), ~WriteOutput(p), ~Killed(p)
          PROVE  OutOK'
      <3>1. out' = out /\ marks \subseteq marks' /\ ~At(p, "write")
        BY <1>2, <2>4 DEF Step, Begin, Accept, Decline, Fatal, Address, CheckIfProd, Enter,
           Truncate, SetId, SetSecret, SetPassphrase, Encode, Request, Answered, ExportItem,
           ExportItemFails, Stat, At, Asked, Waiting, kept, history
      <3>2. \A q \in Process \ {p} : proc'[q].pc = proc[q].pc
        BY <1>2, <2>0, <2>4, BeginIs, AcceptIs, DeclineIs, AddressIs, ProdIs, EnterIs,
           TruncateIs, SetIdIs, SetSecretIs, SetPassphraseIs, EndIs, CallIs, ExportIs
           DEF Step, Beside, Others, Goes, Rests, Stumbles
      <3> QED BY <2>0, <3>1, <3>2 DEF OutOK, At
    <2> QED BY <2>1, <2>2, <2>3, <2>4
  <1> QED BY <1>1, <1>2 DEF Next

LEMMA ShapeInit == Init => ShapeOK
  <1> SUFFICES ASSUME Init PROVE ShapeOK
    OBVIOUS
  <1>1. SharedOK
    BY BlankIs DEF Init, SharedOK
  <1>2. RunsOK /\ FileOK
    BY RestingIs DEF Init, RunsOK, FileOK, Storing
  <1>3. HistoryOK
    <2>1. owner \in Seq(SUBSET Host) /\ Len(owner) = 0
      BY DEF Init
    <2> QED BY <2>1, BoundsAssumption DEF Init, HistoryOK, Maybe
  <1>4. OutOK
    BY MarksAssumption DEF Init, OutOK
  <1> QED BY <1>1, <1>2, <1>3, <1>4 DEF ShapeOK

LEMMA ShapeStep ==
  ASSUME ShapeOK, [Next]_vars
  PROVE  ShapeOK'
  <1>1. SharedOK /\ FileOK /\ HistoryOK /\ RunsOK
    BY DEF ShapeOK
  <1>2. SharedOK' /\ FileOK' /\ HistoryOK' /\ RunsOK'
    BY <1>1, SharedStep, HistoryStep, RunsStep
  <1> QED BY <1>2, OutStep DEF ShapeOK

LEMMA ShapeHolds == Spec => []ShapeOK
  BY ShapeInit, ShapeStep, PTL DEF Spec

(* The variables keep their types: a host is known before anything is sent,
   and the file never has an entry of the keyring only. *)
THEOREM TypeCorrect == Spec => []TypeOK
  <1>1. ShapeOK => TypeOK
    <2> SUFFICES ASSUME ShapeOK PROVE TypeOK
      OBVIOUS
    <2>1. \A p \in Process : proc[p] \in Run
      BY DEF ShapeOK, RunsOK
    <2> QED BY <2>1, BoundsAssumption DEF ShapeOK, SharedOK, HistoryOK, TypeOK, Run, Keys
  <1> QED BY <1>1, ShapeHolds, PTL

(* What is left in the file of an export is a whole export. *)
THEOREM ExportsAreWhole == Spec => []ExportIsWhole
  <1>1. ShapeOK => ExportIsWhole
    BY DEF ShapeOK, OutOK, ExportIsWhole
  <1> QED BY <1>1, ShapeHolds, PTL

-----------------------------------------------------------------------------
(* Clear text.  A writer that has asked whether to go on without TLS, and what
   is on file or about to be sent, knows of a host without TLS only what a user
   has confirmed. *)

Past(r) == r.pc \in (Writes \ {"address", "noTls"}) \cup Sends
Warned(c) == ~c.tls => c.host \in confirmed

ClearOK == "cut" \notin marks =>
  /\ file \notin {Absent, Garbled} /\ file.host # NoHost => Warned(file)
  /\ \A p \in Process : Past(proc[p]) => Warned(proc[p].cfg)
  /\ \A p \in Process : proc[p].req # Nil => Warned(proc[p].req)

LEMMA HistoryGrows ==
  ASSUME [Next]_vars
  PROVE  marks \subseteq marks' /\ confirmed \subseteq confirmed'
  <1>1. CASE UNCHANGED vars
    BY <1>1 DEF vars, history
  <1>2. ASSUME NEW p \in Process, Step(p)
        PROVE  marks \subseteq marks' /\ confirmed \subseteq confirmed'
    BY <1>2 DEF Step, Begin, Accept, Decline, Fatal, Killed, Address, CheckIfProd, Enter,
       Truncate, SetId, SetSecret, SetPassphrase, Encode, Request, Answered, ExportItem,
       ExportItemFails, Stat, OpenOutput, WriteOutput, history
  <1> QED BY <1>1, <1>2 DEF Next

(* What a step leaves alone. *)
LEMMA OthersKeep ==
  ASSUME ShapeOK, NEW p \in Process, Step(p), NEW q \in Process \ {p}
  PROVE  LET r == proc[q]  s == proc'[q] IN
         /\ s.pc = r.pc /\ s.cfg = r.cfg /\ s.req = r.req /\ s.new = r.new
         /\ s.smooth => r.smooth
  <1>1. SharedOK /\ FileOK /\ HistoryOK /\ RunsOK
    BY DEF ShapeOK
  <1> QED BY <1>1, BeginIs, AcceptIs, DeclineIs, AddressIs, ProdIs, EnterIs,
             TruncateIs, SetIdIs, SetSecretIs, SetPassphraseIs, EndIs, CallIs, ExportIs
             DEF Step, Beside, Others, Goes, Rests, Stumbles

LEMMA FileKept ==
  ASSUME NEW p \in Process, Step(p), ~Truncate(p), ~Encode(p)
  PROVE  file' = file
  BY DEF Step, Begin, Accept, Decline, Fatal, Killed, Address, CheckIfProd, Enter,
     SetId, SetSecret, SetPassphrase, Request, Answered, ExportItem, ExportItemFails,
     Stat, OpenOutput, WriteOutput, kept

LEMMA RingKept ==
  ASSUME NEW p \in Process, Step(p), ~SetId(p), ~SetSecret(p), ~SetPassphrase(p)
  PROVE  ring' = ring
  BY DEF Step, Begin, Accept, Decline, Fatal, Killed, Address, CheckIfProd, Enter,
     Truncate, Encode, Request, Answered, ExportItem, ExportItemFails, Stat, OpenOutput,
     WriteOutput, kept

LEMMA OwnerKept ==
  ASSUME NEW p \in Process, Step(p), ~Truncate(p),
         \A kind \in {"secure", "plain", "passphrase", "askAlways"} : ~Enter(p, kind)
  PROVE  owner' = owner
  BY DEF Step, Begin, Accept, Decline, Fatal, Killed, Address, CheckIfProd,
     SetId, SetSecret, SetPassphrase, Encode, Request, Answered, ExportItem,
     ExportItemFails, Stat, OpenOutput, WriteOutput, history

(* The steps by what they do to the command that takes them. *)
Keeps(p) == LET r == proc[p]  s == proc'[p] IN s.cfg = r.cfg /\ s.req = r.req

LEMMA StepCases ==
  ASSUME ShapeOK, NEW p \in Process, Step(p)
  PROVE  \/ \E cmd \in Commands : Begin(p, cmd)
         \/ \E name \in Name, port \in Port : Address(p, name, port)
         \/ \E kind \in {"secure", "plain", "passphrase", "askAlways"} : Enter(p, kind)
         \/ CheckIfProd(p)
         \/ Request(p)
         \/ Rests(p)
         \/ At(p, "noTls") /\ proc'[p].pc = "prod" /\ Keeps(p) /\ Accept(p)
         \/ /\ Keeps(p)
            /\ \/ At(p, "notProd") /\ proc'[p].pc = "store"
               \/ proc[p].pc \in Sends /\ proc'[p].pc \in Sends
               \/ proc[p].pc \in Calls /\ proc'[p].pc \in Calls
               \/ Truncate(p) /\ At(p, "store") /\ proc'[p].pc \in {"keys", "pass"}
               \/ SetId(p) /\ At(p, "keys") /\ proc'[p].pc \in {"secret", "pass"}
               \/ SetSecret(p) /\ At(p, "secret") /\ proc'[p].pc = "pass"
               \/ SetPassphrase(p) /\ At(p, "pass") /\ proc'[p].pc = "encode"
  <1>1. SharedOK /\ FileOK /\ HistoryOK /\ RunsOK
    BY DEF ShapeOK
  <1>2. CASE Accept(p) \/ Decline(p)
    BY <1>1, <1>2, AcceptIs, DeclineIs DEF Goes, Keeps, Sends, Calls, At
  <1>3. CASE Truncate(p) \/ SetId(p) \/ SetSecret(p) \/ SetPassphrase(p)
    BY <1>1, <1>3, TruncateIs, SetIdIs, SetSecretIs, SetPassphraseIs
       DEF Goes, Stumbles, Keeps
  <1>4. CASE \/ Fatal(p) \/ Killed(p) \/ Encode(p) \/ Answered(p)
             \/ ExportItemFails(p) \/ WriteOutput(p)
    BY <1>1, <1>4, EndIs
  <1>5. CASE ExportItem(p) \/ Stat(p) \/ OpenOutput(p)
    BY <1>1, <1>5, ExportIs DEF Goes, Keeps, Calls
  <1> QED BY <1>2, <1>3, <1>4, <1>5 DEF Step

LEMMA ClearStep ==
  ASSUME ShapeOK, ClearOK, [Next]_vars
  PROVE  ClearOK'
  <1> SUFFICES ASSUME "cut" \notin marks'
               PROVE  /\ file' \notin {Absent, Garbled} /\ file'.host # NoHost => Warned(file)'
                      /\ \A p \in Process : Past(proc'[p]) => Warned(proc[p].cfg)'
                      /\ \A p \in Process : proc'[p].req # Nil => Warned(proc[p].req)'
    BY DEF ClearOK, Past
  <1>0. /\ ShapeOK /\ SharedOK /\ FileOK /\ HistoryOK /\ RunsOK
        /\ file \notin {Absent, Garbled} /\ file.host # NoHost => Warned(file)
        /\ \A p \in Process : Past(proc[p]) => Warned(proc[p].cfg)
        /\ \A p \in Process : proc[p].req # Nil => Warned(proc[p].req)
        /\ confirmed \subseteq confirmed'
    BY HistoryGrows DEF ClearOK, ShapeOK
  <1>1. CASE UNCHANGED vars
    BY <1>0, <1>1 DEF vars, kept, history, Warned
  <1>2. ASSUME NEW p \in Process, Step(p)
        PROVE  /\ file' \notin {Absent, Garbled} /\ file'.host # NoHost => Warned(file)'
               /\ \A q \in Process : Past(proc'[q]) => Warned(proc[q].cfg)'
               /\ \A q \in Process : proc'[q].req # Nil => Warned(proc[q].req)'
    <2>1. file' \notin {Absent, Garbled} /\ file'.host # NoHost => Warned(file)'
      <3>1. CASE Truncate(p)
        BY <3>1 DEF Truncate, Blank, Warned
      <3>2. CASE Encode(p)
        <4>1. Cfg(p) \in Loaded /\ Warned(Cfg(p)) /\ confirmed' = confirmed
          BY <1>0, <3>2, EncodeIs DEF Past, Writes, Storing, At, Cfg, Encode
        <4>2. file' = Saved(Cfg(p)) \/ file' \in Over(file, Cfg(p))
          BY <3>2 DEF Encode
        <4>3. file' # Garbled => file'.host = Cfg(p).host /\ file'.tls = Cfg(p).tls
          <5>1. /\ Saved(Cfg(p)) \in Config /\ Saved(Cfg(p)).host = Cfg(p).host
                /\ Saved(Cfg(p)).tls = Cfg(p).tls
            BY <4>1, SavedIs
          <5> QED BY <4>2, <5>1 DEF Over, Config
        <4> QED BY <4>1, <4>3 DEF Warned
      <3> QED BY <1>0, <1>2, <3>1, <3>2, FileKept DEF Warned
    <2>2. ASSUME NEW q \in Process \ {p}
          PROVE  /\ Past(proc'[q]) => Warned(proc[q].cfg)'
                 /\ proc'[q].req # Nil => Warned(proc[q].req)'
      BY <1>0, <1>2, OthersKeep DEF Past, Warned
    <2>3. /\ Past(proc'[p]) => Warned(proc[p].cfg)'
          /\ proc'[p].req # Nil => Warned(proc[p].req)'
      <3>1. ASSUME NEW cmd \in Commands, Begin(p, cmd)
            PROVE  Past(proc'[p]) => Warned(proc[p].cfg)'
        <4>1. PICK f \in Config, lost \in SUBSET {"id", "secret", "pass"} :
                LET l == Load(f, Found(KeysOf(f.host), lost)) IN
                /\ f = IF file = Absent THEN Blank ELSE file
                /\ file # Garbled
                /\ cmd # Configure => file # Absent /\ f.host \in Host \ {NoHost}
                /\ Beginning(p, cmd, l)
          BY <1>0, <3>1, BeginIs
        <4> DEFINE l == Load(f, Found(KeysOf(f.host), lost))
        <4>2. l \in Loaded /\ l.host = f.host /\ l.tls = f.tls
          BY <1>0, LoadIs, FoundIs, KeysIs DEF SharedOK
        <4>3. /\ proc'[p].pc = cmd.first
              /\ proc'[p].cfg = IF cmd \in Writers THEN l ELSE Asking(cmd, l)
          BY <4>1 DEF Beginning
        <4> HIDE DEF l
        <4>4. CASE cmd = Configure
          <5>1. cmd.first = "address"
            BY <4>4, CommandIs
          <5> QED BY <4>3, <5>1 DEF Past, Writes, Storing, Sends
        <4>5. CASE cmd # Configure
          <5>1. Warned(l)
            BY <1>0, <4>1, <4>2, <4>5 DEF Warned
          <5>2. cmd \notin Writers => Warned(Asking(cmd, l))
            BY <4>1, <4>2, <4>5, <5>1, AskingIs DEF Warned
          <5> QED BY <1>0, <4>3, <5>1, <5>2 DEF Warned
        <4> QED BY <4>4, <4>5
      <3>2. ASSUME NEW cmd \in Commands, Begin(p, cmd)
            PROVE  ~(proc'[p].req # Nil)
        BY <1>0, <3>2, BeginIs DEF Beginning
      <3>3. ASSUME NEW name \in Name, NEW port \in Port, Address(p, name, port)
            PROVE  /\ Past(proc'[p]) => Warned(proc[p].cfg)'
                   /\ proc'[p].req # Nil => Warned(proc[p].req)'
        BY <1>0, <3>3, AddressIs DEF Past, Warned, Writes, Storing, Sends
      <3>4. ASSUME NEW kind \in {"secure", "plain", "passphrase", "askAlways"}, Enter(p, kind)
            PROVE  /\ Past(proc'[p]) => Warned(proc[p].cfg)'
                   /\ proc'[p].req # Nil => Warned(proc[p].req)'
        <4>1. /\ proc'[p].cfg.host = proc[p].cfg.host /\ proc'[p].cfg.tls = proc[p].cfg.tls
              /\ proc'[p].req = proc[p].req /\ At(p, "enter")
          BY <1>0, <3>4, EnterIs
        <4> QED BY <1>0, <4>1 DEF Past, Warned, Writes, At
      <3>5. CASE CheckIfProd(p)
        BY <1>0, <3>5, ProdIs DEF Past, Warned, Writes, At
      <3>6. CASE Request(p)
        BY <1>0, <3>6, CallIs DEF Past, Warned, Writes, Storing, Sends, At
      <3>7. CASE Rests(p)
        BY <3>7, RestingIs DEF Rests, Past, Writes, Storing, Sends
      <3>8. CASE At(p, "noTls") /\ proc'[p].pc = "prod" /\ Keeps(p) /\ Accept(p)
        <4>1. Cfg(p).host \in confirmed'
          BY <3>8 DEF Accept
        <4> QED BY <1>0, <3>8, <4>1 DEF Keeps, Warned, Cfg
      <3>9. CASE Keeps(p) /\ (Past(proc'[p]) => Past(proc[p]))
        BY <1>0, <3>9 DEF Keeps, Warned
      <3> QED BY <1>0, <1>2, <3>1, <3>2, <3>3, <3>4, <3>5, <3>6, <3>7, <3>8, <3>9, StepCases
               DEF Past, Writes, Storing, Sends, Calls, At
    <2> QED BY <2>1, <2>2, <2>3
  <1> QED BY <1>1, <1>2 DEF Next

(* Nothing is sent in the clear to a host unless a user was told that it has no
   TLS and went on; unless a full disk cut the configuration short. *)
THEOREM ClearTextIsConfirmed == Spec => []ClearTextWasConfirmed
  <1>1. Init => ClearOK
    BY RestingIs DEF Init, ClearOK, Past, Writes, Storing, Sends
  <1>2. ShapeOK /\ ClearOK /\ [Next]_vars => ClearOK'
    BY ClearStep
  <1>3. ClearOK => ClearTextWasConfirmed
    BY DEF ClearOK, ClearTextWasConfirmed, Warned
  <1> QED BY <1>1, <1>2, <1>3, ShapeHolds, PTL DEF Spec

-----------------------------------------------------------------------------
(* Half of the credentials are only ever in a file that was cut short, or in
   what a writer has loaded of one. *)

HalfOK == "cut" \notin marks =>
  /\ file \notin {Absent, Garbled} => ~file.half
  /\ \A p \in Process : proc[p].pc \in Writes => ~proc[p].cfg.half

LEMMA HalfHeld ==
  ASSUME ShapeOK, HalfOK, "cut" \notin marks, NEW p \in Process, Step(p)
  PROVE  proc'[p].pc \in Writes => ~proc'[p].cfg.half
  <1>0. /\ SharedOK /\ FileOK /\ HistoryOK /\ RunsOK
        /\ file \notin {Absent, Garbled} => ~file.half
        /\ proc[p].pc \in Writes => ~proc[p].cfg.half
    BY DEF ShapeOK, HalfOK
  <1>1. ASSUME NEW cmd \in Commands, Begin(p, cmd)
        PROVE  proc'[p].pc \in Writes => ~proc'[p].cfg.half
    <2>1. PICK f \in Config, lost \in SUBSET {"id", "secret", "pass"} :
            LET l == Load(f, Found(KeysOf(f.host), lost)) IN
            /\ f = IF file = Absent THEN Blank ELSE file
            /\ file # Garbled
            /\ Beginning(p, cmd, l)
      BY <1>0, <1>1, BeginIs
    <2> DEFINE l == Load(f, Found(KeysOf(f.host), lost))
    <2>2. l.half = f.half
      BY <1>0, LoadIs, FoundIs, KeysIs DEF SharedOK
    <2>3. ~f.half
      BY <1>0, <2>1 DEF Blank
    <2>4. Beginning(p, cmd, l)
      BY <2>1
    <2> HIDE DEF l
    <2>5. cmd.first \in Writes => cmd \in Writers
      BY CommandIs DEF Writes, Storing, Sends
    <2> QED BY <2>2, <2>3, <2>4, <2>5 DEF Beginning
  <1>2. ASSUME NEW name \in Name, NEW port \in Port, Address(p, name, port)
        PROVE  proc'[p].pc \in Writes => ~proc'[p].cfg.half
    BY <1>0, <1>2, AddressIs DEF Writes, At
  <1>3. ASSUME NEW kind \in {"secure", "plain", "passphrase", "askAlways"}, Enter(p, kind)
        PROVE  proc'[p].pc \in Writes => ~proc'[p].cfg.half
    <2> DEFINE n == Len(owner) + 1
               c == proc[p].cfg
               d == proc'[p].cfg
    <2>1. c \in Loaded /\ n \in Login /\ d = LogsIn(c, kind, n) /\ At(p, "enter")
      BY <1>0, <1>3, EnterIs
    <2> HIDE DEF n, d
    <2>2. d.half => c.half
      <3> HIDE DEF c
      <3> QED BY <2>1, LogsInIs
    <2> QED BY <1>0, <2>1, <2>2 DEF Writes, At, d
  <1>4. CASE CheckIfProd(p)
    BY <1>0, <1>4, ProdIs DEF Writes, At
  <1>5. CASE Request(p)
    BY <1>0, <1>5, CallIs DEF Writes, Storing
  <1>6. CASE Rests(p)
    BY <1>6, RestingIs DEF Rests, Writes, Storing
  <1>7. CASE Keeps(p) /\ (proc'[p].pc \in Writes => proc[p].pc \in Writes)
    BY <1>0, <1>7 DEF Keeps
  <1> QED BY <1>0, <1>1, <1>2, <1>3, <1>4, <1>5, <1>6, <1>7, StepCases
           DEF Writes, Storing, Sends, Calls, At

LEMMA HalfStep ==
  ASSUME ShapeOK, HalfOK, [Next]_vars
  PROVE  HalfOK'
  <1> SUFFICES ASSUME "cut" \notin marks'
               PROVE  /\ file' \notin {Absent, Garbled} => ~file'.half
                      /\ \A p \in Process : proc'[p].pc \in Writes => ~proc'[p].cfg.half
    BY DEF HalfOK
  <1>0. /\ SharedOK /\ FileOK /\ HistoryOK /\ RunsOK /\ "cut" \notin marks
        /\ file \notin {Absent, Garbled} => ~file.half
        /\ \A p \in Process : proc[p].pc \in Writes => ~proc[p].cfg.half
    BY HistoryGrows DEF HalfOK, ShapeOK
  <1>1. CASE UNCHANGED vars
    BY <1>0, <1>1 DEF vars, kept
  <1>2. ASSUME NEW p \in Process, Step(p)
        PROVE  /\ file' \notin {Absent, Garbled} => ~file'.half
               /\ \A q \in Process : proc'[q].pc \in Writes => ~proc'[q].cfg.half
    <2>3. file' \notin {Absent, Garbled} => ~file'.half
      <3>1. CASE Truncate(p)
        BY <3>1 DEF Truncate, Blank
      <3>2. CASE Encode(p)
        <4>1. Cfg(p) \in Loaded /\ ~Cfg(p).half /\ file # Absent
          BY <1>0, <3>2, EncodeIs DEF Writes, Storing, At, Cfg, FileOK
        <4>2. file' = Saved(Cfg(p)) \/ file' \in Over(file, Cfg(p))
          BY <3>2 DEF Encode
        <4>3. Saved(Cfg(p)) \in Config /\ ~Saved(Cfg(p)).half
          BY <4>1, SavedIs
        <4>4. [Saved(Cfg(p)) EXCEPT !.plain = file.plain, !.half = file.half].half = file.half
          BY <4>3 DEF Config
        <4> QED BY <1>0, <4>1, <4>2, <4>3, <4>4 DEF Over
      <3> QED BY <1>0, <1>2, <3>1, <3>2, FileKept
    <2>4. ASSUME NEW q \in Process
          PROVE  proc'[q].pc \in Writes => ~proc'[q].cfg.half
      <3>1. CASE q = p
        BY <1>0, <1>2, <3>1, HalfHeld
      <3>2. CASE q # p
        BY <1>0, <1>2, <3>2, OthersKeep
      <3> QED BY <3>1, <3>2
    <2> QED BY <2>3, <2>4
  <1> QED BY <1>1, <1>2 DEF Next

LEMMA HalfHolds == Spec => []HalfOK
  <1>1. Init => HalfOK
    BY RestingIs DEF Init, HalfOK, Writes, Storing
  <1>2. ShapeOK /\ HalfOK /\ [Next]_vars => HalfOK'
    BY HalfStep
  <1> QED BY <1>1, <1>2, ShapeHolds, PTL DEF Spec

-----------------------------------------------------------------------------
(* Pairs.  The entries of a host are those of one login, or its id is missing,
   but for the one writer that has set the id and not yet the secret. *)

IsPair(c) == c.id = c.secret
Shown(r) == IsPair(r) \/ ("cut" \in marks /\ r.secret = 0)
RunPairs(r) ==
  /\ r.pc \in Writes => IsPair(r.cfg)
  /\ r.pc \in Sends => Shown(r.cfg)
  /\ r.req # Nil => Shown(r.req)
Between(p, h) == At(p, "secret") /\ Cfg(p).host = h

PairOK == marks \cap {"halfPair", "overlapped"} = {} =>
  /\ \A p \in Process : RunPairs(proc[p])
  /\ \A h \in Host, p \in Process : Between(p, h) =>
       /\ ring[h].id = Cfg(p).id
       /\ \A q \in Process \ {p} : ~Between(q, h)
  /\ \A h \in Host : (\A p \in Process : ~Between(p, h)) => ring[h].id \in {0, ring[h].secret}

LEMMA PairHeld ==
  ASSUME ShapeOK, HalfOK, PairOK, NEW p \in Process, Step(p), [Next]_vars,
         marks \cap {"halfPair", "overlapped"} = {}, marks' \cap {"halfPair", "overlapped"} = {}
  PROVE  RunPairs(proc[p])'
  <1>0. /\ SharedOK /\ FileOK /\ HistoryOK /\ RunsOK /\ RunPairs(proc[p])
        /\ marks \subseteq marks'
        /\ \A h \in Host : (\A q \in Process : ~Between(q, h)) => ring[h].id \in {0, ring[h].secret}
    BY HistoryGrows DEF ShapeOK, PairOK
  <1>1. ASSUME NEW cmd \in Commands, Begin(p, cmd)
        PROVE  RunPairs(proc[p])'
    <2>1. PICK f \in Config, lost \in SUBSET {"id", "secret", "pass"} :
            LET l == Load(f, Found(KeysOf(f.host), lost)) IN
            /\ f = IF file = Absent THEN Blank ELSE file
            /\ file # Garbled
            /\ cmd # Configure => f.host \in Host \ {NoHost}
            /\ Beginning(p, cmd, l)
            /\ \A q \in Process : At(q, "secret") /\ Cfg(q).host = f.host
                 => "overlapped" \in marks'
      BY <1>0, <1>1, BeginIs
    <2> DEFINE k == KeysOf(f.host)
               keys == Found(k, lost)
               l == Load(f, keys)
    <2>2. k \in Keys /\ k.id \in {0, k.secret}
      <3>1. CASE f.host \notin Host
        BY <3>1, BlankIs DEF KeysOf, NoKeys
      <3>2. CASE f.host \in Host
        <4>1. \A q \in Process : ~Between(q, f.host)
          BY <2>1 DEF Between
        <4> QED BY <1>0, <3>2, <4>1 DEF KeysOf, SharedOK
      <3> QED BY <3>1, <3>2
    <2>3. Beginning(p, cmd, l)
      BY <2>1
    <2> HIDE DEF k
    <2>4. keys \in Keys /\ (keys.id # 0 /\ keys.secret # 0 => keys.id = keys.secret)
      BY <2>2, FoundIs
    <2> HIDE DEF keys
    <2>5. l \in Loaded /\ IsPair(l) /\ l.host = f.host /\ l.half = f.half
      BY <2>4, LoadIs DEF IsPair
    <2> HIDE DEF l
    <2>6. f.half => "cut" \in marks'
      BY <1>0, <2>1 DEF HalfOK, Blank
    <2> DEFINE r == Asking(cmd, l)
    <2>7. cmd \notin Writers => r.id = r.secret \/ ("cut" \in marks' /\ r.secret = 0)
      BY <2>1, <2>5, <2>6, AskingIs DEF IsPair, Writers
    <2>8. /\ proc'[p].pc = cmd.first /\ proc'[p].req = Nil
          /\ proc'[p].cfg = IF cmd \in Writers THEN l ELSE r
      BY <2>3 DEF Beginning
    <2>9. /\ cmd.first \in Writes => cmd \in Writers
          /\ cmd.first \in Sends => cmd \notin Writers
      BY CommandIs DEF Writes, Storing, Sends
    <2>10. /\ cmd.first \in Writes => proc'[p].cfg.id = proc'[p].cfg.secret
           /\ cmd.first \in Sends =>
                proc'[p].cfg.id = proc'[p].cfg.secret \/ ("cut" \in marks' /\ proc'[p].cfg.secret = 0)
      <3> HIDE DEF r
      <3>1. l.id = l.secret
        BY <2>5 DEF IsPair
      <3>2. CASE cmd \in Writers
        BY <2>8, <2>9, <3>1, <3>2
      <3>3. CASE cmd \notin Writers
        BY <2>7, <2>8, <2>9, <3>3
      <3> QED BY <3>2, <3>3
    <2> QED BY <2>8, <2>10 DEF RunPairs, IsPair, Shown
  <1>2. ASSUME NEW name \in Name, NEW port \in Port, Address(p, name, port)
        PROVE  RunPairs(proc[p])'
    BY <1>0, <1>2, AddressIs DEF RunPairs, IsPair, Shown, Writes, Sends, At
  <1>3. ASSUME NEW kind \in {"secure", "plain", "passphrase", "askAlways"}, Enter(p, kind)
        PROVE  RunPairs(proc[p])'
    <2> DEFINE n == Len(owner) + 1
               c == proc[p].cfg
               d == proc'[p].cfg
    <2>1. /\ c \in Loaded /\ n \in Login /\ d = LogsIn(c, kind, n) /\ At(p, "enter")
          /\ proc'[p].req = proc[p].req /\ proc'[p].pc = "store"
      BY <1>0, <1>3, EnterIs
    <2> HIDE DEF n, d
    <2>2. (d.id = n /\ d.secret = n) \/ (d.id = c.id /\ d.secret = c.secret)
      <3> HIDE DEF c
      <3> QED BY <2>1, LogsInIs
    <2>3. IsPair(c)
      BY <1>0, <2>1 DEF RunPairs, Writes, At
    <2> QED BY <1>0, <2>1, <2>2, <2>3 DEF RunPairs, Shown, IsPair, Sends, d
  <1>4. CASE CheckIfProd(p)
    BY <1>0, <1>4, ProdIs DEF RunPairs, IsPair, Shown, Writes, Sends, At
  <1>5. CASE Request(p)
    BY <1>0, <1>5, CallIs DEF RunPairs, IsPair, Shown, Writes, Storing, Sends, At
  <1>6. CASE Rests(p)
    BY <1>6, RestingIs DEF Rests, RunPairs, Writes, Storing, Sends
  <1>7. CASE /\ Keeps(p) /\ (proc'[p].pc \in Writes => proc[p].pc \in Writes)
             /\ proc'[p].pc \in Sends => proc[p].pc \in Sends
    BY <1>0, <1>7 DEF Keeps, RunPairs, IsPair, Shown
  <1> QED BY <1>0, <1>1, <1>2, <1>3, <1>4, <1>5, <1>6, <1>7, StepCases
           DEF Writes, Storing, Sends, Calls, At

(* Who is between the two entries of a pair changes with these steps only. *)
LEMMA BetweenKept ==
  ASSUME ShapeOK, NEW p \in Process, Step(p), ~SetId(p), ~SetSecret(p),
         "halfPair" \notin marks', NEW q \in Process, NEW h
  PROVE  /\ Between(q, h)' <=> Between(q, h)
         /\ Between(q, h) => Cfg(q)' = Cfg(q)
  <1>1. CASE q # p
    BY <1>1, OthersKeep DEF Between, At, Cfg
  <1>2. CASE q = p
    <2>1. ~At(p, "secret")
      BY <1>2 DEF Step, Begin, Accept, Decline, Fatal, Killed, Address, CheckIfProd, Enter,
         Truncate, SetPassphrase, Encode, Request, Answered, ExportItem, ExportItemFails,
         Stat, OpenOutput, WriteOutput, At, Asked, Waiting
    <2>2. ~At(p, "secret")'
      <3>0. SharedOK /\ FileOK /\ HistoryOK /\ RunsOK
        BY DEF ShapeOK
      <3>1. ASSUME NEW cmd \in Commands, Begin(p, cmd)
            PROVE  proc'[p].pc # "secret"
        BY <3>0, <3>1, BeginIs, CommandIs DEF Beginning
      <3> QED BY <3>0, <3>1, StepCases, AddressIs, EnterIs, ProdIs, CallIs, RestingIs
               DEF At, Rests, Sends, Calls
    <2> QED BY <1>2, <2>1, <2>2 DEF Between
  <1> QED BY <1>1, <1>2

LEMMA PairStep ==
  ASSUME ShapeOK, HalfOK, PairOK, [Next]_vars
  PROVE  PairOK'
  <1> DEFINE Ring(h) == (\A p \in Process : ~Between(p, h)) => ring[h].id \in {0, ring[h].secret}
             Sole(h, p) == Between(p, h) => /\ ring[h].id = Cfg(p).id
                                           /\ \A q \in Process \ {p} : ~Between(q, h)
  <1> SUFFICES ASSUME marks' \cap {"halfPair", "overlapped"} = {}
               PROVE  /\ \A p \in Process : RunPairs(proc[p])'
                      /\ \A h \in Host : \A p \in Process : Sole(h, p)'
                      /\ \A h \in Host : Ring(h)'
    BY DEF PairOK
  <1>0. /\ ShapeOK /\ SharedOK /\ FileOK /\ HistoryOK /\ RunsOK
        /\ marks \cap {"halfPair", "overlapped"} = {}
        /\ \A p \in Process : RunPairs(proc[p])
        /\ marks \subseteq marks'
        /\ \A h \in Host : \A p \in Process : Sole(h, p)
        /\ \A h \in Host : Ring(h)
    BY HistoryGrows DEF PairOK, ShapeOK
  <1>1. CASE UNCHANGED vars
    <2>1. proc' = proc /\ ring' = ring /\ marks' = marks
      BY <1>1 DEF vars, kept, history
    <2> QED BY <1>0, <2>1 DEF RunPairs, Shown, IsPair, Between, At, Cfg
  <1>2. ASSUME NEW p \in Process, Step(p)
        PROVE  /\ \A q \in Process : RunPairs(proc[q])'
               /\ \A h \in Host : \A q \in Process : Sole(h, q)'
               /\ \A h \in Host : Ring(h)'
    <2>1. ASSUME NEW q \in Process
          PROVE  RunPairs(proc[q])'
      <3>1. CASE q = p
        BY <1>0, <1>2, <3>1, PairHeld
      <3>2. CASE q # p
        BY <1>0, <1>2, <3>2, OthersKeep DEF RunPairs, Shown, IsPair
      <3> QED BY <3>1, <3>2
    <2>2. \A q \in Process \ {p} : \A h :
            (Between(q, h)' <=> Between(q, h)) /\ Cfg(q)' = Cfg(q)
      BY <1>0, <1>2, OthersKeep DEF Between, At, Cfg
    <2> DEFINE g == Cfg(p).host
    <2>3. CASE SetId(p)
      <3>1. g \in Host /\ Cfg(p).id \in Maybe /\ At(p, "keys")
        BY <1>0, <2>3, WriterIs, SetIdIs DEF At, Storing
      <3>2. \A h \in Host : ~Between(p, h)
        BY <3>1 DEF Between, At
      <3>3. \A q \in Process \ {p} : ~Between(q, g)
        BY <2>3 DEF SetId, Between
      <3>4. CASE SetKey(p, "id", Cfg(p).id) /\ Goes(p, {"secret"})
        <4>1. /\ \A h \in Host \ {g} : ring'[h] = ring[h]
              /\ ring'[g].id = Cfg(p).id
          BY <1>0, <3>1, <3>4, SetKeyIs
        <4>2. Cfg(p)' = Cfg(p) /\ At(p, "secret")'
          BY <3>4 DEF Goes, Cfg, At
        <4>3. \A h : Between(p, h)' <=> h = g
          BY <4>2 DEF Between
        <4>4. ASSUME NEW h \in Host
              PROVE  (\A q \in Process : Sole(h, q)') /\ Ring(h)'
          <5>1. CASE h = g
            BY <2>2, <3>3, <4>1, <4>2, <4>3, <5>1
          <5>2. CASE h # g
            BY <1>0, <2>2, <3>2, <4>1, <4>3, <5>2
          <5> QED BY <5>1, <5>2
        <4> QED BY <2>1, <4>4
      <3>5. CASE ring' = ring /\ Stumbles(p, {"pass"})
        <4>1. \A h \in Host : ~Between(p, h)'
          BY <3>5 DEF Stumbles, Between, At
        <4> QED BY <1>0, <2>1, <2>2, <3>2, <3>5, <4>1
      <3> QED BY <1>0, <2>3, <3>4, <3>5, SetIdIs
    <2>4. CASE SetSecret(p)
      <3>1. /\ g \in Host /\ Cfg(p).secret \in Maybe /\ 0 \in Maybe /\ Between(p, g)
            /\ IsPair(Cfg(p))
        BY <1>0, <2>4, WriterIs, SetSecretIs, BoundsAssumption
           DEF At, Storing, Writes, RunPairs, Between, Cfg, Maybe
      <3>2. ring[g].id = Cfg(p).id /\ \A q \in Process \ {p} : ~Between(q, g)
        BY <1>0, <3>1
      <3>3. \A h : ~Between(p, h)'
        BY <1>0, <2>4, SetSecretIs DEF Goes, Stumbles, Between, At
      <3>4. \A h : h # g => ~Between(p, h)
        BY DEF Between
      <3>5. /\ \A h \in Host \ {g} : ring'[h] = ring[h]
            /\ ring'[g].id \in {0, ring'[g].secret}
        <4>1. ~(ring' = ring /\ marks' = marks \cup {"halfPair"})
          OBVIOUS
        <4>2. CASE SetKey(p, "secret", Cfg(p).secret)
          BY <1>0, <3>1, <3>2, <4>2, SetKeyIs DEF IsPair
        <4>3. CASE SetKey(p, "id", 0)
          BY <1>0, <3>1, <4>3, SetKeyIs
        <4> QED BY <1>0, <2>4, <4>1, <4>2, <4>3, SetSecretIs
      <3>6. ASSUME NEW h \in Host
            PROVE  (\A q \in Process : Sole(h, q)') /\ Ring(h)'
        <4>1. CASE h = g
          BY <2>2, <3>2, <3>3, <3>5, <4>1
        <4>2. CASE h # g
          BY <1>0, <2>2, <3>3, <3>4, <3>5, <4>2
        <4> QED BY <4>1, <4>2
      <3> QED BY <2>1, <3>6
    <2>5. CASE ~SetId(p) /\ ~SetSecret(p)
      <3>1. \A h \in Host : ring'[h].id = ring[h].id /\ ring'[h].secret = ring[h].secret
        <4>1. CASE SetPassphrase(p)
          <5>1. g \in Host /\ Cfg(p).pass \in Maybe
            BY <1>0, <4>1, WriterIs, SetPassphraseIs DEF At, Storing
          <5>2. CASE SetKey(p, "pass", Cfg(p).pass)
            BY <1>0, <5>1, <5>2, SetKeyIs
          <5> QED BY <1>0, <4>1, <5>2, SetPassphraseIs
        <4>2. CASE ~SetPassphrase(p)
          BY <1>2, <2>5, <4>2, RingKept
        <4> QED BY <4>1, <4>2
      <3>2. ASSUME NEW h \in Host
            PROVE  (\A q \in Process : Sole(h, q)') /\ Ring(h)'
        <4>1. Ring(h) /\ \A q \in Process : Sole(h, q)
          BY <1>0
        <4>2. ring'[h].id = ring[h].id /\ ring'[h].secret = ring[h].secret
          BY <3>1
        <4>3. ASSUME NEW q \in Process
              PROVE  /\ Between(q, h)' <=> Between(q, h)
                     /\ Between(q, h) => Cfg(q)' = Cfg(q)
          BY <1>0, <1>2, <2>5, BetweenKept
        <4>4. Ring(h)'
          <5> SUFFICES ASSUME \A q \in Process : ~Between(q, h)'
                       PROVE  ring'[h].id \in {0, ring'[h].secret}
            OBVIOUS
          <5>1. \A q \in Process : ~Between(q, h)
            BY <4>3
          <5> QED BY <4>1, <4>2, <5>1
        <4>5. ASSUME NEW q \in Process
              PROVE  Sole(h, q)'
          <5> SUFFICES ASSUME Between(q, h)'
                       PROVE  /\ ring'[h].id = Cfg(q)'.id
                              /\ \A r \in Process \ {q} : ~Between(r, h)'
            OBVIOUS
          <5>1. Between(q, h) /\ Cfg(q)' = Cfg(q)
            BY <4>3
          <5>2. ring[h].id = Cfg(q).id /\ \A r \in Process \ {q} : ~Between(r, h)
            BY <4>1, <5>1
          <5> QED BY <4>2, <4>3, <5>1, <5>2
        <4> QED BY <4>4, <4>5
      <3> QED BY <2>1, <3>2
    <2> QED BY <2>3, <2>4, <2>5
  <1> QED BY <1>1, <1>2 DEF Next

(* The id and the secret a read presents were entered together, or only the id
   is left in a file that was cut short; unless the process died between the two, the id could not be removed, or two logins ran
   at once. *)
THEOREM PairsAreOfOneLogin == Spec => []PairOfOneLogin
  <1>1. Init => PairOK
    BY RestingIs DEF Init, PairOK, NoKeys, RunPairs, Between, At, Writes, Storing, Sends
  <1>2. ShapeOK /\ HalfOK /\ PairOK /\ [Next]_vars => PairOK'
    BY PairStep
  <1>3. PairOK => PairOfOneLogin
    BY DEF PairOK, PairOfOneLogin, RunPairs, Shown, IsPair
  <1> QED BY <1>1, <1>2, <1>3, ShapeHolds, HalfHolds, PTL DEF Spec

-----------------------------------------------------------------------------
(* Owners.  What is kept for a host, on file and in the keyring, and what a
   command holds for it, was entered for that host or carried to it.  What a
   configure carries is the new host's from when it starts to write. *)

OwnedBy(n, h) == n # 0 => n \in 1 .. Len(owner) /\ h \in owner[n]
Entered(n) == n # 0 => n \in 1 .. Len(owner)
EnteredAll(c) == Entered(c.id) /\ Entered(c.secret) /\ Entered(c.plain) /\ Entered(c.pass)
Owns(c) == OwnedBy(c.id, c.host) /\ OwnedBy(c.secret, c.host) /\ OwnedBy(c.pass, c.host)
OwnsAll(c) == Owns(c) /\ OwnedBy(c.plain, c.host)

(* What a command may hold at each of its steps. *)
RunOwns(r) ==
  /\ r.pc \in Writes /\ ~r.cfg.moved => OwnsAll(r.cfg)
  /\ r.pc \in Writes => EnteredAll(r.cfg)
  /\ r.pc \in Storing => OwnsAll(r.cfg)
  /\ r.pc = "address" => ~r.cfg.moved
  /\ r.pc \in Sends => Owns(r.cfg)
  /\ r.req # Nil => Owns(r.req)

FileOwns == file \notin {Absent, Garbled} => OwnedBy(file.plain, file.host)
RingOwns == \A h \in Host :
  OwnedBy(ring[h].id, h) /\ OwnedBy(ring[h].secret, h) /\ OwnedBy(ring[h].pass, h)

OwnerOK == "overlaid" \notin marks =>
  FileOwns /\ RingOwns /\ \A p \in Process : RunOwns(proc[p])

(* The same of the next state, for a login and a host of any state. *)
OwnedNext(n, h) == n # 0 => n \in 1 .. Len(owner') /\ h \in owner'[n]
EnteredNext(n) == n # 0 => n \in 1 .. Len(owner')

LEMMA AppendIs ==
  ASSUME owner \in Seq(SUBSET Host), NEW g \in Host, owner' = Append(owner, {g})
  PROVE  /\ OwnedNext(Len(owner) + 1, g)
         /\ \A n, h : OwnedBy(n, h) => OwnedNext(n, h)
         /\ \A n : Entered(n) => EnteredNext(n)
  <1>1. Len(owner') = Len(owner) + 1 /\ Len(owner) \in Nat
        /\ owner'[Len(owner) + 1] = {g}
        /\ \A i \in 1 .. Len(owner) : owner'[i] = owner[i]
    OBVIOUS
  <1> QED BY <1>1 DEF OwnedBy, OwnedNext, Entered, EnteredNext

(* A login keeps its owners. *)
LEMMA OwnerStays ==
  ASSUME ShapeOK, [Next]_vars, NEW n, NEW h
  PROVE  (OwnedBy(n, h) => OwnedNext(n, h)) /\ (Entered(n) => EnteredNext(n))
  <1>0. owner \in Seq(SUBSET Host) /\ SharedOK /\ FileOK /\ HistoryOK /\ RunsOK
    BY DEF ShapeOK, HistoryOK
  <1>1. CASE owner' = owner
    BY <1>1 DEF OwnedBy, OwnedNext, Entered, EnteredNext
  <1>2. CASE \E g \in Host : owner' = Append(owner, {g})
    BY <1>0, <1>2, AppendIs
  <1>3. CASE UNCHANGED vars
    BY <1>1, <1>3 DEF vars, history
  <1>4. ASSUME NEW p \in Process, Step(p)
        PROVE  (OwnedBy(n, h) => OwnedNext(n, h)) /\ (Entered(n) => EnteredNext(n))
    <2>1. ASSUME NEW kind \in {"secure", "plain", "passphrase", "askAlways"}, Enter(p, kind)
          PROVE  \E g \in Host : owner' = Append(owner, {g})
      BY <1>0, <2>1, EnterIs
    <2>2. CASE Truncate(p)
      <3>1. /\ Len(owner') = Len(owner)
            /\ \A i \in 1 .. Len(owner) : owner[i] \subseteq owner'[i]
        BY <1>0, <2>2, TruncateIs, CarriedIs
      <3> QED BY <3>1 DEF OwnedBy, OwnedNext, Entered, EnteredNext
    <2> QED BY <1>1, <1>2, <1>4, <2>1, <2>2, OwnerKept
  <1> QED BY <1>3, <1>4 DEF Next

OwnsNext(c) == OwnedNext(c.id, c.host) /\ OwnedNext(c.secret, c.host) /\ OwnedNext(c.pass, c.host)

LEMMA OwnsStays ==
  ASSUME ShapeOK, [Next]_vars, NEW c
  PROVE  /\ Owns(c) => OwnsNext(c)
         /\ OwnsAll(c) => OwnsNext(c) /\ OwnedNext(c.plain, c.host)
         /\ EnteredAll(c) => /\ EnteredNext(c.id) /\ EnteredNext(c.secret)
                             /\ EnteredNext(c.plain) /\ EnteredNext(c.pass)
  BY OwnerStays DEF Owns, OwnsAll, OwnsNext, EnteredAll

LEMMA OwnsPrimed ==
  ASSUME NEW q
  PROVE  /\ OwnsNext(proc'[q].cfg) => Owns(proc[q].cfg)'
         /\ OwnsNext(proc'[q].req) => Owns(proc[q].req)'
         /\ OwnsNext(proc'[q].cfg) /\ OwnedNext(proc'[q].cfg.plain, proc'[q].cfg.host)
              => OwnsAll(proc[q].cfg)'
         /\ LET c == proc'[q].cfg IN
            /\ EnteredNext(c.id) /\ EnteredNext(c.secret)
            /\ EnteredNext(c.plain) /\ EnteredNext(c.pass)
            => EnteredAll(proc[q].cfg)'
  BY DEF Owns, OwnsAll, OwnsNext, OwnedBy, OwnedNext, EnteredAll, Entered, EnteredNext

LEMMA NoneOwns == \A h : OwnedBy(0, h)
  BY DEF OwnedBy

LEMMA OwnedWasEntered ==
  ASSUME NEW c, OwnsAll(c)
  PROVE  EnteredAll(c)
  BY DEF OwnsAll, Owns, OwnedBy, EnteredAll, Entered

LEMMA BeginOwns ==
  ASSUME ShapeOK, FileOwns, RingOwns, NEW p \in Process, NEW cmd \in Commands, Begin(p, cmd)
  PROVE  LET s == proc'[p] IN
         /\ s.pc = cmd.first /\ s.req = Nil /\ Owns(s.cfg)
         /\ cmd \in Writers => ~s.cfg.moved /\ OwnsAll(s.cfg)
  <1>0. SharedOK /\ FileOK /\ HistoryOK /\ RunsOK
    BY DEF ShapeOK
  <1>1. PICK f \in Config, lost \in SUBSET {"id", "secret", "pass"} :
          LET l == Load(f, Found(KeysOf(f.host), lost)) IN
          /\ f = IF file = Absent THEN Blank ELSE file
          /\ file # Garbled
          /\ cmd # Configure => file # Absent /\ f.host \in Host \ {NoHost}
          /\ Beginning(p, cmd, l)
    BY <1>0, BeginIs
  <1> DEFINE keys == Found(KeysOf(f.host), lost)
             l == Load(f, keys)
  <1>2. keys \in Keys /\ OwnedBy(keys.id, f.host) /\ OwnedBy(keys.secret, f.host)
        /\ OwnedBy(keys.pass, f.host)
    <2> DEFINE k == KeysOf(f.host)
    <2>1. k \in Keys /\ OwnedBy(k.id, f.host) /\ OwnedBy(k.secret, f.host)
          /\ OwnedBy(k.pass, f.host)
      <3>1. CASE f.host \notin Host
        BY <3>1, BlankIs, NoneOwns DEF KeysOf, NoKeys
      <3>2. CASE f.host \in Host
        BY <1>0, <3>2 DEF KeysOf, SharedOK, RingOwns
      <3> QED BY <3>1, <3>2
    <2> HIDE DEF k
    <2>2. /\ keys \in Keys
          /\ keys.id \in {0, k.id} /\ keys.secret \in {0, k.secret} /\ keys.pass \in {0, k.pass}
      <3> HIDE DEF l
      <3>1. keys = Found(k, lost)
        BY DEF k
      <3> HIDE DEF keys
      <3> QED BY <2>1, <3>1, FoundIs
    <2> HIDE DEF keys
    <2> QED BY <2>1, <2>2, NoneOwns
  <1>3. OwnedBy(f.plain, f.host)
    BY <1>1, NoneOwns DEF FileOwns, Blank
  <1>4. Beginning(p, cmd, l)
    BY <1>1
  <1> HIDE DEF keys
  <1>5. /\ l \in Loaded /\ ~l.moved /\ l.host = f.host /\ l.plain = f.plain
        /\ \/ l.id = 0 /\ l.secret = 0
           \/ l.id = keys.id /\ l.secret = keys.secret
        /\ l.pass \in {0, keys.pass}
    BY <1>2, LoadIs
  <1> HIDE DEF l
  <1>6. OwnsAll(l)
    BY <1>2, <1>3, <1>5, NoneOwns DEF OwnsAll, Owns
  <1>7. cmd \notin Writers => Owns(Asking(cmd, l))
    <2> SUFFICES ASSUME cmd \notin Writers
                 PROVE  Owns(Asking(cmd, l))
      OBVIOUS
    <2> DEFINE r == Asking(cmd, l)
    <2>1. /\ r.host = l.host
          /\ \/ r.id = l.id /\ r.secret = l.secret
             \/ r.id = l.plain /\ r.secret \in {0, l.plain}
             \/ r.id = 0 /\ r.secret = 0
          /\ r.pass \in {0, l.pass}
      BY <1>1, <1>5, AskingIs DEF Writers
    <2> HIDE DEF r
    <2>2. Owns(r)
      BY <1>6, <2>1, NoneOwns DEF OwnsAll, Owns
    <2> QED BY <2>2 DEF r
  <1> QED BY <1>4, <1>5, <1>6, <1>7 DEF Beginning, OwnsAll

LEMMA EnterOwns ==
  ASSUME ShapeOK, NEW p \in Process, RunOwns(proc[p]), [Next]_vars,
         NEW kind \in {"secure", "plain", "passphrase", "askAlways"}, Enter(p, kind)
  PROVE  LET s == proc'[p] IN
         /\ s.pc = "store" /\ s.req = proc[p].req
         /\ ~s.cfg.moved => OwnsAll(Cfg(p))'
         /\ EnteredAll(Cfg(p))'
  <1> DEFINE n == Len(owner) + 1
             c == proc[p].cfg
             d == proc'[p].cfg
  <1>1. /\ c \in Loaded /\ n \in Login /\ d = LogsIn(c, kind, n) /\ At(p, "enter")
        /\ proc'[p].pc = "store" /\ proc'[p].req = proc[p].req
        /\ owner' = Append(owner, {c.host}) /\ c.host \in Host
        /\ d.host = c.host /\ d.moved = c.moved
    BY EnterIs DEF ShapeOK
  <1>2. /\ OwnedNext(n, c.host) /\ \A m, h : OwnedBy(m, h) => OwnedNext(m, h)
        /\ \A m : Entered(m) => EnteredNext(m)
    <2>1. owner \in Seq(SUBSET Host)
      BY DEF ShapeOK, HistoryOK
    <2> HIDE DEF c
    <2> QED BY <1>1, <2>1, AppendIs
  <1> HIDE DEF n, d
  <1>3. /\ d.id \in {n, c.id} /\ d.secret \in {n, c.secret} /\ d.pass \in {n, c.pass}
        /\ d.plain \in {0, n, c.plain}
    <2> HIDE DEF c
    <2> QED BY <1>1, LogsInIs
  <1>4. ASSUME ~d.moved
        PROVE  /\ OwnedNext(d.id, d.host) /\ OwnedNext(d.secret, d.host)
               /\ OwnedNext(d.pass, d.host) /\ OwnedNext(d.plain, d.host)
    <2>1. OwnsAll(c)
      BY <1>1, <1>4 DEF RunOwns, Writes, At
    <2>2. OwnedNext(0, d.host)
      BY DEF OwnedNext
    <2> QED BY <1>1, <1>2, <1>3, <2>1, <2>2 DEF OwnsAll, Owns
  <1>6. /\ EnteredNext(d.id) /\ EnteredNext(d.secret)
        /\ EnteredNext(d.pass) /\ EnteredNext(d.plain)
    <2>1. EnteredAll(c)
      BY <1>1 DEF RunOwns, Writes, At
    <2>2. EnteredNext(0) /\ EnteredNext(n)
      BY <1>2 DEF EnteredNext, OwnedNext
    <2> QED BY <1>2, <1>3, <2>1, <2>2 DEF EnteredAll
  <1>5. d = Cfg(p)'
    BY DEF d, Cfg
  <1> HIDE DEF c
  <1>7. ~proc'[p].cfg.moved => OwnsAll(Cfg(p))'
    BY <1>4, <1>5 DEF OwnsAll, Owns, OwnedBy, OwnedNext, d
  <1>8. EnteredAll(Cfg(p))'
    BY <1>5, <1>6 DEF EnteredAll, Entered, EnteredNext
  <1> QED BY <1>1, <1>7, <1>8

LEMMA RunOwnsKept ==
  ASSUME ShapeOK, [Next]_vars, NEW q \in Process, RunOwns(proc[q]),
         proc'[q].cfg = proc[q].cfg, proc'[q].req = proc[q].req,
         proc'[q].pc \in Writes => proc[q].pc \in Writes,
         proc'[q].pc \in Sends => proc[q].pc \in Sends,
         proc'[q].pc \in Storing => OwnsAll(proc[q].cfg),
         proc'[q].pc = "address" => ~proc[q].cfg.moved
  PROVE  RunOwns(proc[q])'
  <1>1. Owns(proc[q].cfg) => Owns(proc[q].cfg)'
    BY OwnsStays, OwnsPrimed
  <1>2. OwnsAll(proc[q].cfg) => OwnsAll(proc[q].cfg)'
    BY OwnsStays, OwnsPrimed
  <1>3. Owns(proc[q].req) => Owns(proc[q].req)'
    BY OwnsStays, OwnsPrimed
  <1>4. EnteredAll(proc[q].cfg) => EnteredAll(proc[q].cfg)'
    BY OwnsStays, OwnsPrimed
  <1> QED BY <1>1, <1>2, <1>3, <1>4 DEF RunOwns, Writes, Sends, Storing

(* The writer that starts to write owns what it has carried along. *)
LEMMA TruncateOwns ==
  ASSUME ShapeOK, [Next]_vars, NEW p \in Process, RunOwns(proc[p]), Truncate(p)
  PROVE  RunOwns(proc[p])'
  <1>0. SharedOK /\ FileOK /\ HistoryOK /\ RunsOK /\ owner \in Seq(SUBSET Host)
    BY DEF ShapeOK, HistoryOK
  <1> DEFINE c == Cfg(p)
  <1>1. /\ At(p, "store") /\ proc'[p].pc \in {"pass", "keys"} /\ c.host \in Host
        /\ proc'[p].cfg = c /\ proc'[p].req = proc[p].req
    BY <1>0, TruncateIs DEF Goes, Cfg
  <1>2. EnteredAll(c) /\ (~c.moved => OwnsAll(c))
    BY <1>1 DEF RunOwns, Writes, At, Cfg
  <1>3. OwnsAll(c)'
    <2>1. CASE ~c.moved
      <3>1. OwnsNext(c) /\ OwnedNext(c.plain, c.host)
        BY <1>2, <2>1, OwnsStays
      <3> QED BY <1>1, <3>1 DEF OwnsAll, Owns, OwnsNext, OwnedBy, OwnedNext, Cfg
    <2>2. CASE c.moved
      <3>1. /\ Len(owner') = Len(owner)
            /\ \A n \in 1 .. Len(owner) : n \in Carried(c) => c.host \in owner'[n]
        BY <1>0, <1>1, CarriedIs
      <3>2. Carried(c) = {c.id, c.secret, c.plain, c.pass}
        BY <2>2 DEF Carried
      <3>3. \A n \in {c.id, c.secret, c.plain, c.pass} : OwnedNext(n, c.host)
        BY <1>2, <3>1, <3>2 DEF EnteredAll, Entered, OwnedNext
      <3> QED BY <1>1, <3>3 DEF OwnsAll, Owns, OwnedBy, OwnedNext, Cfg
    <2> QED BY <2>1, <2>2
  <1>4. EnteredAll(c)'
    BY <1>3, OwnedWasEntered DEF OwnsAll, Owns, OwnedBy, EnteredAll, Entered
  <1>5. proc[p].req # Nil => Owns(proc[p].req)'
    <2>1. Owns(proc[p].req) => Owns(proc[p].req)'
      BY <1>1, OwnsStays, OwnsPrimed
    <2> QED BY <2>1 DEF RunOwns
  <1> QED BY <1>1, <1>3, <1>4, <1>5 DEF RunOwns, Sends, Cfg

LEMMA RunOwnsStep ==
  ASSUME ShapeOK, FileOwns, RingOwns, [Next]_vars, NEW p \in Process, Step(p),
         RunOwns(proc[p])
  PROVE  RunOwns(proc[p])'
  <1>0. SharedOK /\ FileOK /\ HistoryOK /\ RunsOK
    BY DEF ShapeOK
  <1>1. ASSUME NEW cmd \in Commands, Begin(p, cmd)
        PROVE  RunOwns(proc[p])'
    <2>1. /\ proc'[p].pc = cmd.first /\ proc'[p].req = Nil /\ Owns(proc'[p].cfg)
          /\ cmd \in Writers => ~proc'[p].cfg.moved /\ OwnsAll(proc'[p].cfg)
      BY <1>1, BeginOwns
    <2>2. owner' = owner
      BY <1>1 DEF Begin
    <2>3. /\ Owns(proc[p].cfg)'
          /\ OwnsAll(proc'[p].cfg) => OwnsAll(proc[p].cfg)' /\ EnteredAll(proc[p].cfg)'
      <3>1. OwnsAll(proc'[p].cfg) => EnteredAll(proc'[p].cfg)
        BY OwnedWasEntered
      <3> QED BY <2>1, <2>2, <3>1 DEF Owns, OwnsAll, OwnedBy, EnteredAll, Entered
    <2>4. cmd.first \notin Storing /\ (cmd.first \in Writes => cmd \in Writers)
          /\ (cmd.first = "address" => cmd \in Writers)
      BY CommandIs DEF Storing, Writes, Sends
    <2> QED BY <2>1, <2>3, <2>4 DEF RunOwns
  <1>2. ASSUME NEW name \in Name, NEW port \in Port, Address(p, name, port)
        PROVE  RunOwns(proc[p])'
    <2> DEFINE c == proc[p].cfg
               d == proc'[p].cfg
               h == d.host
    <2>1. /\ proc'[p].pc \in {"prod", "noTls"} /\ proc'[p].req = proc[p].req
          /\ d.plain = c.plain /\ d.id = c.id /\ d.secret = c.secret /\ d.pass = c.pass
          /\ (~d.moved => h = c.host \/ ~HasSecrets(c)) /\ At(p, "address")
      BY <1>0, <1>2, AddressIs
    <2>2. OwnsAll(c) /\ (c.id = 0 <=> c.secret = 0)
      BY <1>0, <2>1 DEF RunOwns, Writes, At, RunsOK, RunOK
    <2>3. ~d.moved => OwnsAll(proc[p].cfg)'
      <3>1. CASE h = c.host
        <4>1. /\ OwnedNext(c.id, h) /\ OwnedNext(c.secret, h)
              /\ OwnedNext(c.pass, h) /\ OwnedNext(c.plain, h)
          BY <2>2, <3>1, OwnerStays DEF OwnsAll, Owns
        <4> QED BY <2>1, <4>1 DEF OwnsAll, Owns, OwnedBy, OwnedNext
      <3>2. CASE ~HasSecrets(c)
        <4>1. c.id = 0 /\ c.secret = 0 /\ c.pass = 0 /\ c.plain = 0
          BY <2>2, <3>2 DEF HasSecrets
        <4> QED BY <2>1, <4>1 DEF OwnsAll, Owns, OwnedBy
      <3> QED BY <2>1, <3>1, <3>2
    <2>4. proc[p].req # Nil => Owns(proc[p].req)'
      <3>1. Owns(proc[p].req) => Owns(proc[p].req)'
        BY <2>1, OwnsStays, OwnsPrimed
      <3> QED BY <3>1 DEF RunOwns
    <2>5. EnteredAll(proc[p].cfg)'
      <3>1. EnteredAll(c)
        BY <2>2, OwnedWasEntered
      <3>2. /\ EnteredNext(c.id) /\ EnteredNext(c.secret)
            /\ EnteredNext(c.plain) /\ EnteredNext(c.pass)
        BY <3>1, OwnsStays
      <3> QED BY <2>1, <3>2 DEF EnteredAll, Entered, EnteredNext
    <2> QED BY <2>1, <2>3, <2>4, <2>5 DEF RunOwns, Storing, Sends
  <1>3. ASSUME NEW kind \in {"secure", "plain", "passphrase", "askAlways"}, Enter(p, kind)
        PROVE  RunOwns(proc[p])'
    <2>1. /\ proc'[p].pc = "store" /\ proc'[p].req = proc[p].req
          /\ ~proc'[p].cfg.moved => OwnsAll(proc[p].cfg)'
          /\ EnteredAll(proc[p].cfg)'
      BY <1>3, EnterOwns DEF Cfg
    <2>2. proc[p].req # Nil => Owns(proc[p].req)'
      <3>1. Owns(proc[p].req) => Owns(proc[p].req)'
        BY <2>1, OwnsStays, OwnsPrimed
      <3> QED BY <3>1 DEF RunOwns
    <2> QED BY <2>1, <2>2 DEF RunOwns, Storing, Sends
  <1>4. CASE CheckIfProd(p)
    <2> DEFINE s == proc'[p]
    <2>1. /\ At(p, "prod") /\ s.pc \in {"store", "notProd"} /\ s.cfg = proc[p].cfg
          /\ s.req.id = 0 /\ s.req.secret = 0 /\ s.req.pass = 0
      BY <1>0, <1>4, ProdIs
    <2>2. Owns(proc[p].req)'
      BY <2>1 DEF Owns, OwnedBy
    <2>3. /\ OwnsAll(proc[p].cfg) => OwnsAll(proc[p].cfg)'
          /\ EnteredAll(proc[p].cfg) => EnteredAll(proc[p].cfg)'
      BY <2>1, OwnsStays, OwnsPrimed
    <2> QED BY <2>1, <2>2, <2>3 DEF RunOwns, Writes, Storing, Sends, At
  <1>5. CASE Request(p)
    <2> DEFINE s == proc'[p]
    <2>1. At(p, "request") /\ s.pc \in {"answer", "items"} /\ s.req = proc[p].cfg
      BY <1>0, <1>5, CallIs
    <2>2. Owns(proc[p].cfg)
      BY <2>1 DEF RunOwns, Sends, At
    <2>3. Owns(proc[p].req)'
      BY <2>1, <2>2, OwnsStays, OwnsPrimed
    <2> QED BY <2>1, <2>3 DEF RunOwns, Writes, Storing, Sends
  <1>6. CASE Rests(p)
    BY <1>6, RestingIs DEF Rests, RunOwns, Writes, Storing, Sends
  <1>7. CASE At(p, "noTls") /\ proc'[p].pc = "prod" /\ Keeps(p)
    BY <1>7, RunOwnsKept DEF Keeps, Writes, Storing, Sends, At
  <1>8. CASE Truncate(p)
    BY <1>8, TruncateOwns
  <1>9. CASE /\ Keeps(p)
             /\ \/ At(p, "notProd") /\ proc'[p].pc = "store"
                \/ proc[p].pc \in Sends /\ proc'[p].pc \in Sends
                \/ proc[p].pc \in Calls /\ proc'[p].pc \in Calls
    BY <1>9, RunOwnsKept DEF Keeps, Writes, Storing, Sends, Calls, At
  <1>10. CASE Keeps(p) /\ proc[p].pc \in Storing /\ proc'[p].pc \in Storing
    <2>1. OwnsAll(proc[p].cfg)
      BY <1>10 DEF RunOwns
    <2> QED BY <1>10, <2>1, RunOwnsKept DEF Keeps, Writes, Storing, Sends
  <1>11. proc[p].pc \in {"keys", "secret", "pass"} <=>
           At(p, "keys") \/ At(p, "secret") \/ At(p, "pass")
    BY DEF At
  <1> QED BY <1>1, <1>2, <1>3, <1>4, <1>5, <1>6, <1>7, <1>8, <1>9, <1>10, <1>11, StepCases
           DEF Storing

LEMMA FileOwnsStep ==
  ASSUME ShapeOK, FileOwns, [Next]_vars, NEW p \in Process, Step(p),
         "overlaid" \notin marks', RunOwns(proc[p])
  PROVE  FileOwns'
  <1>0. SharedOK /\ FileOK /\ HistoryOK /\ RunsOK
    BY DEF ShapeOK
  <1>1. CASE Truncate(p)
    BY <1>1 DEF Truncate, Blank, FileOwns, OwnedBy
  <1>2. CASE Encode(p)
    <2> DEFINE c == Cfg(p)
    <2>1. c \in Loaded /\ OwnsAll(c) /\ owner' = owner
      BY <1>0, <1>2, EncodeIs DEF RunOwns, Writes, Storing, At, Cfg, Encode
    <2>2. Saved(c) \in Config /\ Saved(c).host = c.host /\ Saved(c).plain = c.plain
      <3> HIDE DEF c
      <3> QED BY <2>1, SavedIs
    <2>3. file' = Saved(c) \/ file' \in Short(c)
      BY <1>2 DEF Encode
    <2>4. ASSUME file' \in Short(c), file' # Garbled
          PROVE  file'.plain = 0 \/ (file'.plain = c.plain /\ file'.host = c.host)
      <3>1. [Saved(c) EXCEPT !.plain = 0, !.half = FALSE].plain = 0
        BY <2>2 DEF Config
      <3>2. LET g == [Saved(c) EXCEPT !.half = c.plain # 0] IN
            g.plain = c.plain /\ g.host = c.host
        BY <2>2 DEF Config
      <3>3. /\ Blank.plain = 0 /\ [Blank EXCEPT !.host = c.host, !.tls = c.tls].plain = 0
            /\ \A h : [Blank EXCEPT !.host = h].plain = 0
        BY DEF Blank
      <3> QED BY <2>4, <3>1, <3>2, <3>3 DEF Short
    <2> QED BY <2>1, <2>2, <2>3, <2>4 DEF FileOwns, OwnsAll, OwnedBy
  <1>3. CASE ~Truncate(p) /\ ~Encode(p)
    <2>1. file' = file
      BY <1>3, FileKept
    <2> QED BY <2>1, OwnerStays DEF FileOwns, OwnedBy, OwnedNext
  <1> QED BY <1>1, <1>2, <1>3

LEMMA RingOwnsStep ==
  ASSUME ShapeOK, RingOwns, [Next]_vars, NEW p \in Process, Step(p), RunOwns(proc[p])
  PROVE  RingOwns'
  <1>0. SharedOK /\ FileOK /\ HistoryOK /\ RunsOK
    BY DEF ShapeOK
  <1>1. CASE ring' = ring
    BY <1>1, OwnerStays DEF RingOwns, OwnedBy, OwnedNext
  <1>2. CASE SetId(p) \/ SetSecret(p) \/ SetPassphrase(p)
    <2> DEFINE c == Cfg(p)
    <2>1. /\ c \in Loaded /\ c.host \in Host /\ c.id \in Maybe /\ c.secret \in Maybe
          /\ c.pass \in Maybe /\ 0 \in Maybe /\ OwnsAll(c)
      BY <1>0, <1>2, WriterIs, BoundsAssumption
         DEF SetId, SetSecret, SetPassphrase, At, Storing, Writes, RunOwns, Cfg, Maybe
    <2>2. owner' = owner
      BY <1>2 DEF SetId, SetSecret, SetPassphrase
    <2>3. \/ ring' = ring \/ SetKey(p, "id", c.id) \/ SetKey(p, "id", 0)
          \/ SetKey(p, "secret", c.secret) \/ SetKey(p, "pass", c.pass)
      BY <1>0, <1>2, SetIdIs, SetSecretIs, SetPassphraseIs
    <2>4. ASSUME NEW entry \in {"id", "secret", "pass"}, NEW v \in Maybe,
                 SetKey(p, entry, v), OwnedBy(v, c.host)
          PROVE  RingOwns'
      <3>1. /\ \A g \in Host \ {c.host} : ring'[g] = ring[g]
            /\ ring'[c.host].id \in {v, ring[c.host].id}
            /\ ring'[c.host].secret \in {v, ring[c.host].secret}
            /\ ring'[c.host].pass \in {v, ring[c.host].pass}
        BY <1>0, <2>1, <2>4, SetKeyIs
      <3> HIDE DEF c
      <3> QED BY <2>1, <2>2, <2>4, <3>1 DEF RingOwns, OwnedBy
    <2>5. OwnedBy(0, c.host) /\ OwnedBy(c.id, c.host) /\ OwnedBy(c.secret, c.host)
          /\ OwnedBy(c.pass, c.host)
      BY <2>1, NoneOwns DEF OwnsAll, Owns
    <2> HIDE DEF c
    <2> QED BY <1>1, <2>1, <2>3, <2>4, <2>5
  <1> QED BY <1>1, <1>2, RingKept

LEMMA OwnerStep ==
  ASSUME ShapeOK, OwnerOK, [Next]_vars
  PROVE  OwnerOK'
  <1> SUFFICES ASSUME "overlaid" \notin marks'
               PROVE  FileOwns' /\ RingOwns' /\ \A q \in Process : RunOwns(proc[q])'
    BY DEF OwnerOK
  <1>0. FileOwns /\ RingOwns /\ \A q \in Process : RunOwns(proc[q])
    BY HistoryGrows DEF OwnerOK
  <1>1. CASE UNCHANGED vars
    <2>1. file' = file /\ ring' = ring /\ proc' = proc /\ owner' = owner
      BY <1>1 DEF vars, kept, history
    <2> QED BY <1>0, <2>1
         DEF FileOwns, RingOwns, RunOwns, Owns, OwnsAll, OwnedBy, EnteredAll, Entered
  <1>2. ASSUME NEW p \in Process, Step(p)
        PROVE  FileOwns' /\ RingOwns' /\ \A q \in Process : RunOwns(proc[q])'
    <2>1. FileOwns' /\ RingOwns' /\ RunOwns(proc[p])'
      BY <1>0, <1>2, FileOwnsStep, RingOwnsStep, RunOwnsStep
    <2>2. ASSUME NEW q \in Process \ {p}
          PROVE  RunOwns(proc[q])'
      <3>1. proc'[q].pc = proc[q].pc /\ proc'[q].cfg = proc[q].cfg /\ proc'[q].req = proc[q].req
        BY <1>2, OthersKeep
      <3>2. /\ proc'[q].pc \in Storing => OwnsAll(proc[q].cfg)
            /\ proc'[q].pc = "address" => ~proc[q].cfg.moved
        BY <1>0, <3>1 DEF RunOwns
      <3> QED BY <1>0, <3>1, <3>2, RunOwnsKept
    <2> QED BY <2>1, <2>2
  <1> QED BY <1>1, <1>2 DEF Next

(* What is sent to a store was entered for that store, or was carried to it by a
   configure; unless two commands wrote the file at once. *)
THEOREM CredentialsStayAtHome == Spec => []CredentialsOfHost
  <1>1. Init => OwnerOK
    BY RestingIs DEF Init, OwnerOK, FileOwns, RingOwns, RunOwns, OwnedBy, NoKeys,
                     Writes, Storing, Sends
  <1>2. ShapeOK /\ OwnerOK /\ [Next]_vars => OwnerOK'
    BY OwnerStep
  <1>3. OwnerOK => CredentialsOfHost
    BY DEF OwnerOK, RunOwns, Owns, OwnedBy, CredentialsOfHost
  <1> QED BY <1>1, <1>2, <1>3, ShapeHolds, PTL DEF Spec

-----------------------------------------------------------------------------
(* Logins.  What a read presents is what was last stored for its host, and what
   a smooth writer is about to store is that, too: it runs alone, on what it
   has loaded of the file and of the keyring as they are. *)

Paired(keys) == keys.id # 0 /\ keys.secret # 0

InFile(c) == IF c.half THEN 0 ELSE c.plain

(* What a read that begins now presents, *)
FileId == LET k == KeysOf(file.host) IN IF Paired(k) THEN k.id ELSE file.plain
FileSecret == LET k == KeysOf(file.host) IN IF Paired(k) THEN k.secret ELSE InFile(file)

(* and one that begins when p has written what it holds. *)
WillId(p) == LET c == Cfg(p)  k == KeysOf(c.host) IN
  IF c.id # 0 THEN c.id ELSE IF Paired(k) THEN k.id ELSE c.plain
WillSecret(p) == LET c == Cfg(p)  k == KeysOf(c.host) IN
  IF c.id # 0 THEN c.secret ELSE IF Paired(k) THEN k.secret ELSE InFile(c)

(* A read of host h that presents i and s is right of the stored logins.  Once
   any login is stored there is one for each host that is configured: who
   leaves a host takes what it has for that to the next. *)
Fits(stored, h, i, s) ==
  (\E g \in Host : stored[g] # 0) =>
    /\ h \in Host /\ i # 0
    /\ stored[h] # 0 => i = stored[h] /\ s = stored[h]

Alone(p) == \A q \in Process \ {p} : At(q, "idle")
Foresees(p) == Fits(Presented(p), Cfg(p).host, WillId(p), WillSecret(p))
Fresh(p) == proc[p].pc \in {"address", "enter"} =>
  /\ ~Cfg(p).moved /\ proc[p].new = 0
  /\ Cfg(p).id = 0 => ~Paired(KeysOf(Cfg(p).host))
HalfDone(p) ==
  LET c == Cfg(p)  k == KeysOf(c.host) IN
  /\ At(p, "secret") => k.id = c.id
  /\ proc[p].pc \in {"pass", "encode"} /\ c.id # 0 => k.id = c.id /\ k.secret = c.secret
  /\ proc[p].pc \in Storing => file = Blank

Smooth(p) == proc[p].pc \in Writes /\ proc[p].smooth
SmoothOK(p) == Smooth(p) => Alone(p) /\ Foresees(p) /\ Fresh(p) /\ HalfDone(p)

StoredOK ==
  \/ \E p \in Process : proc[p].pc \in Storing
  \/ \A h \in Host : last[h] = 0
  \/ file \in Config /\ Fits(last, file.host, FileId, FileSecret)

KeptOK == StoredOK /\ \A p \in Process : SmoothOK(p)

LEMMA PresentReads ==
  ASSUME SharedOK, file \in Config
  PROVE  LET r == Present(Load(file, KeysOf(file.host))) IN
         r.id = FileId /\ r.secret = FileSecret
  <1> DEFINE k == KeysOf(file.host)
             l == Load(file, k)
  <1>1. k \in Keys
    BY KeysIs DEF SharedOK
  <1> HIDE DEF k
  <1>2. /\ l \in Loaded /\ l.plain = file.plain /\ l.half = file.half
        /\ \/ l.id = 0 /\ l.secret = 0 /\ ~Paired(k)
           \/ l.id = k.id /\ l.secret = k.secret /\ Paired(k)
    BY <1>1, LoadIs DEF Paired
  <1> HIDE DEF l
  <1>3. /\ Present(l).id = IF l.id # 0 THEN l.id ELSE l.plain
        /\ Present(l).secret = IF l.id # 0 THEN l.secret ELSE InFile(l)
    <2>1. l.plain = 0 => InFile(l) = 0
      BY DEF InFile
    <2> QED BY <2>1 DEF Present, Requests, InFile
  <1>4. /\ Present(l).id = IF Paired(k) THEN k.id ELSE file.plain
        /\ Present(l).secret = IF Paired(k) THEN k.secret ELSE InFile(file)
    BY <1>2, <1>3 DEF Paired, InFile
  <1> QED BY <1>4 DEF FileId, FileSecret, l, k

(* The steps of a writer that write nothing which is read. *)
LEMMA ForeseesKept ==
  ASSUME NEW p \in Process, Foresees(p), last' = last,
         Cfg(p)' = Cfg(p), proc'[p].new = proc[p].new, proc'[p].smooth, proc[p].smooth,
         \/ Cfg(p).id # 0
         \/ /\ KeysOf(Cfg(p).host)'.id = KeysOf(Cfg(p).host).id
            /\ KeysOf(Cfg(p).host)'.secret = KeysOf(Cfg(p).host).secret
  PROVE  Foresees(p)'
  <1>1. Presented(p)' = Presented(p)
    BY DEF Presented
  <1>2. WillId(p)' = WillId(p) /\ WillSecret(p)' = WillSecret(p)
    BY DEF WillId, WillSecret, Paired, InFile
  <1> QED BY <1>1, <1>2 DEF Foresees, Fits

LEMMA SmoothBegin ==
  ASSUME ShapeOK, StoredOK, NEW p \in Process, NEW cmd \in Commands, Begin(p, cmd), Step(p)
  PROVE  SmoothOK(p)'
  <1>0. SharedOK /\ FileOK /\ HistoryOK /\ RunsOK /\ RunsOK'
    BY BeginRuns DEF ShapeOK
  <1>1. PICK f \in Config, lost \in SUBSET {"id", "secret", "pass"} :
          LET l == Load(f, Found(KeysOf(f.host), lost)) IN
          /\ f = IF file = Absent THEN Blank ELSE file
          /\ file # Garbled
          /\ Beginning(p, cmd, l)
          /\ lost # {} /\ cmd \in Writers => ~proc'[p].smooth
          /\ \A q \in Process \ {p} : Beside(q)
    BY <1>0, BeginIs
  <1> SUFFICES ASSUME Smooth(p)'
               PROVE  (Alone(p) /\ Foresees(p) /\ Fresh(p) /\ HalfDone(p))'
    BY DEF SmoothOK
  <1> DEFINE k == KeysOf(f.host)
             found == Found(k, lost)
             l == Load(f, found)
             s == proc'[p]
  <1>2. cmd \in Writers /\ s.smooth /\ lost = {} /\ s.pc = cmd.first
    <2>1. s.pc \in Writes /\ s.smooth
      BY DEF Smooth
    <2>2. s.pc = cmd.first
      BY <1>1 DEF Beginning
    <2>3. cmd \in Writers
      BY <2>1, <2>2, CommandIs DEF Sends, Writes, Storing
    <2> QED BY <1>1, <2>1, <2>2, <2>3
  <1>3. s.cfg = l /\ s.new = 0 /\ \A q \in Process : At(q, "idle")
    BY <1>1, <1>2 DEF Beginning
  <1>4. k \in Keys
    BY <1>0, KeysIs DEF SharedOK
  <1> HIDE DEF k
  <1>11. found \in Keys /\ found.id = k.id /\ found.secret = k.secret
    BY <1>2, <1>4, FoundIs
  <1> HIDE DEF found
  <1>5. /\ l \in Loaded /\ ~l.moved /\ l.host = f.host
        /\ l.plain = f.plain /\ l.half = f.half
        /\ \/ l.id = 0 /\ l.secret = 0 /\ ~Paired(k)
           \/ l.id = k.id /\ l.secret = k.secret /\ Paired(k)
    BY <1>11, LoadIs DEF Paired
  <1> HIDE DEF l
  <1>6. s.pc \in {"address", "enter"}
    BY <1>2, CommandIs DEF Sends
  <1>7. /\ ring' = ring /\ last' = last /\ KeysOf(Cfg(p).host)' = k
        /\ Cfg(p)' = l
    BY <1>3, <1>5, <1>0 DEF Begin, kept, KeysOf, Cfg, k
  <1>8. Alone(p)'
    BY <1>1, <1>3 DEF Alone, Beside, At
  <1>9. Fresh(p)' /\ HalfDone(p)'
    BY <1>3, <1>5, <1>6, <1>7 DEF Fresh, HalfDone, Paired, At, Storing
  <1>10. Foresees(p)'
    <2>1. Presented(p)' = last
      BY <1>2, <1>3, <1>5, <1>7 DEF Presented
    <2>2. /\ WillId(p)' = IF Paired(k) THEN k.id ELSE f.plain
          /\ WillSecret(p)' = IF Paired(k) THEN k.secret ELSE InFile(f)
      BY <1>5, <1>7 DEF WillId, WillSecret, Paired, InFile
    <2>3. CASE \A h \in Host : last[h] = 0
      BY <2>1, <2>3 DEF Foresees, Fits
    <2>4. CASE file \in Config /\ Fits(last, file.host, FileId, FileSecret)
      <3>1. f = file
        BY <1>1, <2>4, MarksAssumption
      <3>2. /\ FileId = IF Paired(k) THEN k.id ELSE f.plain
            /\ FileSecret = IF Paired(k) THEN k.secret ELSE InFile(f)
        BY <3>1 DEF FileId, FileSecret, k
      <3> QED BY <1>5, <1>7, <2>1, <2>2, <2>4, <3>1, <3>2 DEF Foresees, Fits
    <2>5. ~\E q \in Process : proc[q].pc \in Storing
      BY <1>3 DEF At, Storing
    <2> QED BY <2>3, <2>4, <2>5 DEF StoredOK
  <1> QED BY <1>8, <1>9, <1>10

LEMMA SmoothAddress ==
  ASSUME ShapeOK, NEW p \in Process, SmoothOK(p),
         NEW name \in Name, NEW port \in Port, Address(p, name, port)
  PROVE  SmoothOK(p)'
  <1>0. SharedOK /\ FileOK /\ HistoryOK /\ RunsOK
    BY DEF ShapeOK
  <1> DEFINE r == proc[p]
             s == proc'[p]
             c == Cfg(p)
             d == s.cfg
             h == d.host
             k == KeysOf(c.host)
  <1>1. /\ Others(p) /\ At(p, "address") /\ s.pc \in {"prod", "noTls"}
        /\ s.new = r.new /\ s.smooth = r.smooth
        /\ c \in Loaded /\ d \in Loaded /\ h \in Host
        /\ d.plain = c.plain /\ d.half = c.half
        /\ d.id = c.id /\ d.secret = c.secret
        /\ d.moved <=> h # c.host /\ HasSecrets(c)
    BY <1>0, AddressIs DEF Cfg
  <1>2. last' = last /\ ring' = ring /\ Cfg(p)' = d
    BY DEF Address, kept, history, Cfg
  <1> SUFFICES ASSUME s.smooth
               PROVE  (Alone(p) /\ Foresees(p) /\ Fresh(p) /\ HalfDone(p))'
    BY DEF SmoothOK, Smooth
  <1>7. Cfg(p)'.host = h
    BY <1>2
  <1> HIDE DEF h
  <1>3. Alone(p) /\ Foresees(p) /\ ~c.moved /\ r.new = 0 /\ (c.id = 0 => ~Paired(k))
    BY <1>1 DEF SmoothOK, Smooth, Fresh, Writes, At
  <1>4. Alone(p)' /\ Fresh(p)' /\ HalfDone(p)'
    BY <1>1, <1>3 DEF Others, Alone, Fresh, HalfDone, At, Storing
  <1>5. /\ Presented(p) = last /\ Fits(last, c.host, WillId(p), WillSecret(p))
        /\ WillId(p) = IF c.id # 0 THEN c.id ELSE c.plain
    BY <1>1, <1>3 DEF Foresees, Presented, WillId
  <1>6. Foresees(p)'
    <2>1. CASE h = c.host
      <3>1. WillId(p)' = WillId(p) /\ WillSecret(p)' = WillSecret(p)
        BY <1>1, <1>2, <1>7, <2>1 DEF WillId, WillSecret, KeysOf, Paired, InFile
      <3>2. Presented(p)' = last
        BY <1>1, <1>2, <1>3, <1>7, <2>1 DEF Presented
      <3> QED BY <1>1, <1>2, <1>5, <1>7, <2>1, <3>1, <3>2 DEF Foresees
    <2>2. CASE h # c.host /\ HasSecrets(c)
      <3>1. Presented(p)' = [last EXCEPT ![h] = 0]
        BY <1>1, <1>2, <1>3, <1>7, <2>2 DEF Presented
      <3>2. last \in [Host -> Maybe]
        BY <1>0 DEF HistoryOK
      <3>3. (\E g \in Host : [last EXCEPT ![h] = 0][g] # 0) => \E g \in Host : last[g] # 0
        BY <3>2
      <3>4. [last EXCEPT ![h] = 0][h] = 0
        BY <1>1, <3>2
      <3>5. WillId(p) # 0 => WillId(p)' # 0
        BY <1>1, <1>2, <1>5 DEF WillId, Paired
      <3>6. Fits([last EXCEPT ![h] = 0], h, WillId(p)', WillSecret(p)')
        BY <1>1, <1>5, <3>3, <3>4, <3>5 DEF Fits
      <3> QED BY <1>1, <1>2, <1>7, <3>1, <3>6 DEF Foresees
    <2>3. CASE h # c.host /\ ~HasSecrets(c)
      <3>1. \A g \in Host : last[g] = 0
        BY <1>5, <2>3 DEF HasSecrets, Fits
      <3>2. Presented(p)' = last
        BY <1>1, <1>2, <1>3, <2>3 DEF Presented
      <3> QED BY <3>1, <3>2 DEF Foresees, Fits
    <2> QED BY <2>1, <2>2, <2>3
  <1> QED BY <1>4, <1>6

LEMMA SmoothEnter ==
  ASSUME ShapeOK, NEW p \in Process, SmoothOK(p),
         NEW kind \in {"secure", "plain", "passphrase", "askAlways"}, Enter(p, kind)
  PROVE  SmoothOK(p)'
  <1>0. SharedOK /\ FileOK /\ HistoryOK /\ RunsOK
    BY DEF ShapeOK
  <1> DEFINE n == Len(owner) + 1
             r == proc[p]
             s == proc'[p]
             c == proc[p].cfg
             d == s.cfg
             k == KeysOf(c.host)
  <1>1. /\ Others(p) /\ At(p, "enter") /\ n \in Login /\ s.pc = "store" /\ s.smooth = r.smooth
        /\ c \in Loaded /\ c.host \in Host /\ d = LogsIn(c, kind, n)
        /\ d.host = c.host /\ d.moved = c.moved
        /\ s.new = IF kind = "secure" \/ (kind = "plain" /\ c.id = 0) THEN n ELSE 0
    BY <1>0, EnterIs
  <1>2. last' = last /\ ring' = ring /\ Cfg(p)' = d /\ Cfg(p) = c
    BY DEF Enter, kept, Cfg
  <1>3. last \in [Host -> Maybe] /\ n # 0
    BY <1>0, <1>1 DEF HistoryOK, Login
  <1> HIDE DEF n, d
  <1>4. \/ kind = "secure" /\ d.id = n /\ d.secret = n
        \/ kind = "plain" /\ d.plain = n /\ ~d.half /\ d.id = c.id /\ d.secret = c.secret
        \/ /\ kind \notin {"secure", "plain"}
           /\ d.plain = c.plain /\ d.half = c.half /\ d.id = c.id /\ d.secret = c.secret
    <2> HIDE DEF c
    <2> QED BY <1>1, LogsInIs
  <1> SUFFICES ASSUME s.smooth
               PROVE  (Alone(p) /\ Foresees(p) /\ Fresh(p) /\ HalfDone(p))'
    BY DEF SmoothOK, Smooth
  <1>5. Alone(p) /\ Foresees(p) /\ ~c.moved /\ r.new = 0 /\ (c.id = 0 => ~Paired(k))
    BY <1>1, <1>2 DEF SmoothOK, Smooth, Fresh, Writes, At
  <1>6. Alone(p)' /\ Fresh(p)' /\ HalfDone(p)'
    BY <1>1, <1>5 DEF Others, Alone, Fresh, HalfDone, At, Storing
  <1>7. /\ Presented(p) = last /\ Fits(last, c.host, WillId(p), WillSecret(p))
        /\ WillId(p) = IF c.id # 0 THEN c.id ELSE c.plain
        /\ WillSecret(p) = IF c.id # 0 THEN c.secret ELSE InFile(c)
    BY <1>1, <1>2, <1>5 DEF Foresees, Presented, WillId, WillSecret
  <1>8. KeysOf(Cfg(p).host)' = k
    BY <1>1, <1>2 DEF KeysOf
  <1>9. /\ WillId(p)' = IF d.id # 0 THEN d.id ELSE IF Paired(k) THEN k.id ELSE d.plain
        /\ WillSecret(p)' = IF d.id # 0 THEN d.secret ELSE IF Paired(k) THEN k.secret ELSE InFile(d)
    BY <1>2, <1>8 DEF WillId, WillSecret, Paired
  <1>10. CASE s.new = n
    <2>1. Presented(p)' = [last EXCEPT ![c.host] = n]
      BY <1>1, <1>2, <1>3, <1>10 DEF Presented
    <2>2. WillId(p)' = n /\ WillSecret(p)' = n
      BY <1>1, <1>3, <1>4, <1>5, <1>9, <1>10 DEF InFile
    <2>3. Fits([last EXCEPT ![c.host] = n], c.host, n, n)
      BY <1>1, <1>3 DEF Fits
    <2>4. Foresees(p)'
      BY <1>1, <1>2, <2>1, <2>2, <2>3 DEF Foresees
    <2> QED BY <1>6, <2>4
  <1>11. CASE s.new = 0
    <2>1. Presented(p)' = last
      BY <1>1, <1>2, <1>5, <1>11 DEF Presented
    <2>2. WillId(p)' = WillId(p) /\ WillSecret(p)' = WillSecret(p)
      BY <1>1, <1>3, <1>4, <1>5, <1>7, <1>9, <1>11 DEF InFile
    <2>4. Foresees(p)'
      BY <1>1, <1>2, <1>7, <2>1, <2>2 DEF Foresees
    <2> QED BY <1>6, <2>4
  <1> QED BY <1>1, <1>10, <1>11

(* The other steps of a writer that stays smooth. *)
LEMMA SmoothWrites ==
  ASSUME ShapeOK, NEW p \in Process, SmoothOK(p),
         SetId(p) \/ SetSecret(p) \/ SetPassphrase(p)
  PROVE  SmoothOK(p)'
  <1>0. SharedOK /\ FileOK /\ HistoryOK /\ RunsOK
    BY DEF ShapeOK
  <1> DEFINE c == Cfg(p)
             k == KeysOf(c.host)
  <1>1. /\ c.host \in Host /\ c.id \in Maybe /\ c.secret \in Maybe /\ c.pass \in Maybe
        /\ proc[p].pc \in Storing /\ (proc[p].pc \in {"keys", "secret"} => c.id # 0)
    BY <1>0, WriterIs DEF SetId, SetSecret, SetPassphrase, At, Storing
  <1>2. file' = file /\ last' = last
    BY DEF SetId, SetSecret, SetPassphrase
  <1> SUFFICES ASSUME proc'[p].smooth
               PROVE  (Alone(p) /\ Foresees(p) /\ Fresh(p) /\ HalfDone(p))'
    BY DEF SmoothOK, Smooth
  <1>3. \/ At(p, "keys") /\ SetKey(p, "id", c.id) /\ Goes(p, {"secret"})
        \/ At(p, "secret") /\ SetKey(p, "secret", c.secret) /\ Goes(p, {"pass"})
        \/ /\ At(p, "pass") /\ Goes(p, {"encode"})
           /\ ring' = ring \/ SetKey(p, "pass", c.pass)
    BY <1>0, SetIdIs, SetSecretIs, SetPassphraseIs DEF Stumbles
  <1>4. /\ Cfg(p)' = c /\ proc'[p].new = proc[p].new /\ proc[p].smooth
        /\ \A q \in Process \ {p} : proc'[q] = proc[q]
        /\ proc'[p].pc \in {"secret", "pass", "encode"}
    BY <1>3 DEF Goes, Others, Cfg
  <1>5. Alone(p) /\ Foresees(p) /\ HalfDone(p)
    BY <1>1, <1>4 DEF SmoothOK, Smooth, Writes
  <1>6. Alone(p)' /\ Fresh(p)'
    BY <1>4, <1>5 DEF Alone, Fresh, At
  <1>7. KeysOf(c.host) = ring[c.host] /\ KeysOf(Cfg(p).host)' = ring'[c.host]
    BY <1>1, <1>4 DEF KeysOf
  <1>8. /\ At(p, "keys") => ring'[c.host].id = c.id
        /\ At(p, "secret") => ring'[c.host].secret = c.secret /\ ring'[c.host].id = k.id
        /\ At(p, "pass") => ring'[c.host].id = k.id /\ ring'[c.host].secret = k.secret
    <2>1. CASE At(p, "keys")
      BY <1>0, <1>1, <1>3, <2>1, SetKeyIs DEF At
    <2>2. CASE At(p, "secret")
      BY <1>0, <1>1, <1>3, <1>7, <2>2, SetKeyIs DEF At
    <2>3. CASE At(p, "pass")
      BY <1>0, <1>1, <1>3, <1>7, <2>3, SetKeyIs DEF At
    <2> QED BY <2>1, <2>2, <2>3 DEF At
  <1>9. HalfDone(p)'
    <2>1. file = Blank
      BY <1>1, <1>5 DEF HalfDone
    <2>2. CASE At(p, "keys")
      BY <1>2, <1>3, <1>4, <1>7, <1>8, <2>1, <2>2 DEF HalfDone, Goes, At
    <2>3. CASE At(p, "secret")
      <3>1. k.id = c.id
        BY <1>5, <2>3 DEF HalfDone
      <3> QED BY <1>2, <1>3, <1>4, <1>7, <1>8, <2>1, <2>3, <3>1 DEF HalfDone, Goes, At
    <2>4. CASE At(p, "pass")
      <3>1. c.id # 0 => k.id = c.id /\ k.secret = c.secret
        BY <1>5, <2>4 DEF HalfDone, At
      <3> QED BY <1>2, <1>3, <1>4, <1>7, <1>8, <2>1, <2>4, <3>1 DEF HalfDone, Goes, At
    <2> QED BY <1>3, <2>2, <2>3, <2>4
  <1>10. Foresees(p)'
    <2>1. \/ c.id # 0
          \/ ring'[c.host].id = k.id /\ ring'[c.host].secret = k.secret
      BY <1>1, <1>3, <1>8 DEF At
    <2> QED BY <1>2, <1>4, <1>5, <1>7, <2>1, ForeseesKept
  <1> QED BY <1>6, <1>9, <1>10

LEMMA SmoothMoves ==
  ASSUME ShapeOK, NEW p \in Process, SmoothOK(p), Step(p),
         Accept(p) \/ Decline(p) \/ CheckIfProd(p) \/ Truncate(p)
  PROVE  SmoothOK(p)'
  <1>0. SharedOK /\ FileOK /\ HistoryOK /\ RunsOK
    BY DEF ShapeOK
  <1>1. last' = last /\ ring' = ring
    BY DEF Accept, Decline, CheckIfProd, Truncate, kept, history
  <1> SUFFICES ASSUME Smooth(p)'
               PROVE  (Alone(p) /\ Foresees(p) /\ Fresh(p) /\ HalfDone(p))'
    BY DEF SmoothOK
  <1>2. /\ Others(p) /\ Cfg(p)' = Cfg(p) /\ proc'[p].new = proc[p].new
        /\ proc'[p].smooth /\ proc[p].smooth
        /\ \/ At(p, "noTls") /\ proc'[p].pc = "prod"
           \/ At(p, "notProd") /\ proc'[p].pc = "store"
           \/ At(p, "prod") /\ proc'[p].pc \in {"store", "notProd"}
           \/ /\ At(p, "store") /\ Truncate(p)
              /\ proc'[p].pc = IF Cfg(p).id = 0 THEN "pass" ELSE "keys"
    <2>1. proc'[p].pc \in Writes /\ proc'[p].smooth
      BY DEF Smooth
    <2>2. CASE Accept(p)
      BY <1>0, <2>1, <2>2, AcceptIs DEF Goes, Cfg, Writes, Storing
    <2>3. CASE Decline(p)
      BY <1>0, <2>1, <2>3, DeclineIs, RestingIs DEF Goes, Rests, Writes, Storing
    <2>4. CASE CheckIfProd(p)
      BY <1>0, <2>1, <2>4, ProdIs DEF Cfg
    <2>5. CASE Truncate(p)
      BY <1>0, <2>1, <2>5, TruncateIs DEF Goes, Cfg
    <2> QED BY <2>2, <2>3, <2>4, <2>5
  <1>3. Alone(p) /\ Foresees(p)
    BY <1>2 DEF SmoothOK, Smooth, Writes, At
  <1>4. Alone(p)' /\ Fresh(p)'
    BY <1>2, <1>3 DEF Others, Alone, Fresh, At
  <1>5. HalfDone(p)'
    BY <1>2 DEF HalfDone, Truncate, At, Storing
  <1>6. Foresees(p)'
    <2>1. KeysOf(Cfg(p).host)' = KeysOf(Cfg(p).host)
      BY <1>1, <1>2 DEF KeysOf
    <2> QED BY <1>1, <1>2, <1>3, <2>1, ForeseesKept
  <1> QED BY <1>4, <1>5, <1>6

(* A writer beside which another command takes a step is not smooth. *)
LEMMA SmoothOthers ==
  ASSUME ShapeOK, NEW p \in Process, Step(p), NEW q \in Process \ {p}, SmoothOK(q)
  PROVE  ~Smooth(q)'
  <1>0. SharedOK /\ FileOK /\ HistoryOK /\ RunsOK
    BY DEF ShapeOK
  <1> SUFFICES ASSUME Smooth(q)' PROVE FALSE
    OBVIOUS
  <1>1. Smooth(q)
    BY OthersKeep DEF Smooth
  <1>2. At(p, "idle")
    BY <1>1 DEF SmoothOK, Alone
  <1>3. PICK cmd \in Commands : Begin(p, cmd)
    BY <1>2 DEF Step, Accept, Decline, Fatal, Killed, Address, CheckIfProd, Enter,
       Truncate, SetId, SetSecret, SetPassphrase, Encode, Request, Answered, ExportItem,
       ExportItemFails, Stat, OpenOutput, WriteOutput, At, Asked, Waiting, Storing
  <1>4. proc[q].cmd \in Writers
    BY <1>0, <1>1 DEF RunsOK, RunOK, Smooth
  <1>5. Beside(q)
    BY <1>0, <1>3, BeginIs
  <1> QED BY <1>4, <1>5 DEF Beside, Smooth

LEMMA SmoothStep ==
  ASSUME ShapeOK, KeptOK, NEW p \in Process, Step(p)
  PROVE  \A q \in Process : SmoothOK(q)'
  <1>0. SharedOK /\ FileOK /\ HistoryOK /\ RunsOK /\ SmoothOK(p)
    BY DEF ShapeOK, KeptOK
  <1>1. ASSUME NEW q \in Process \ {p}
        PROVE  SmoothOK(q)'
    <2>1. ~Smooth(q)'
      BY SmoothOthers DEF KeptOK
    <2> QED BY <2>1 DEF SmoothOK
  <1>2. SmoothOK(p)'
    <2>1. ASSUME NEW cmd \in Commands, Begin(p, cmd)
          PROVE  SmoothOK(p)'
      BY <2>1, SmoothBegin DEF KeptOK
    <2>2. ASSUME NEW name \in Name, NEW port \in Port, Address(p, name, port)
          PROVE  SmoothOK(p)'
      BY <1>0, <2>2, SmoothAddress
    <2>3. ASSUME NEW kind \in {"secure", "plain", "passphrase", "askAlways"}, Enter(p, kind)
          PROVE  SmoothOK(p)'
      BY <1>0, <2>3, SmoothEnter
    <2>4. CASE SetId(p) \/ SetSecret(p) \/ SetPassphrase(p)
      BY <1>0, <2>4, SmoothWrites
    <2>5. CASE Accept(p) \/ Decline(p) \/ CheckIfProd(p) \/ Truncate(p)
      BY <1>0, <2>5, SmoothMoves
    <2>6. CASE proc'[p].pc \notin Writes
      BY <2>6 DEF SmoothOK, Smooth
    <2>7. ASSUME \/ Fatal(p) \/ Killed(p) \/ Encode(p) \/ Answered(p) \/ Request(p)
                 \/ ExportItem(p) \/ ExportItemFails(p) \/ Stat(p) \/ OpenOutput(p)
                 \/ WriteOutput(p)
          PROVE  proc'[p].pc \notin Writes
      BY <1>0, <2>7, EndIs, RestingIs, CallIs, ExportIs DEF Rests, Goes, Writes, Storing
    <2> QED BY <2>1, <2>2, <2>3, <2>4, <2>5, <2>6, <2>7 DEF Step
  <1> QED BY <1>1, <1>2

(* A writer that ends well leaves what it foresaw. *)
LEMMA EncodeStores ==
  ASSUME ShapeOK, NEW p \in Process, SmoothOK(p), Encode(p)
  PROVE  \/ \A h \in Host : last'[h] = 0
         \/ file' \in Config /\ Fits(last', file'.host, FileId', FileSecret')
  <1>0. SharedOK /\ FileOK /\ HistoryOK /\ RunsOK
    BY DEF ShapeOK
  <1> DEFINE c == Cfg(p)
             k == KeysOf(c.host)
  <1>1. /\ At(p, "encode") /\ c \in Loaded /\ c.host \in Host /\ ring' = ring
        /\ (c.id = 0 <=> c.secret = 0)
    BY <1>0, EncodeIs DEF RunsOK, RunOK, Writes, Storing, At, Cfg
  <1>2. CASE ~proc[p].smooth \/ last' = [h \in Host |-> 0]
    BY <1>2 DEF Encode, Presented
  <1>3. CASE proc[p].smooth /\ last' # [h \in Host |-> 0]
    <2>1. Foresees(p) /\ HalfDone(p)
      BY <1>1, <1>3 DEF SmoothOK, Smooth, Writes, Storing, At
    <2>2. file = Blank
      BY <1>1, <2>1 DEF HalfDone, Storing, At
    <2>3. file' = Saved(c) /\ last' = Presented(p)
      BY <1>3, <2>2 DEF Encode
    <2>4. /\ Saved(c) \in Config /\ Saved(c).host = c.host
          /\ Saved(c).plain = c.plain /\ Saved(c).half = c.half
      <3> HIDE DEF c
      <3> QED BY <1>1, SavedIs
    <2>5. c.id # 0 => k.id = c.id /\ k.secret = c.secret
      BY <1>1, <2>1 DEF HalfDone, At
    <2>6. /\ FileId' = IF Paired(k) THEN k.id ELSE c.plain
          /\ FileSecret' = IF Paired(k) THEN k.secret ELSE InFile(c)
      BY <1>1, <2>3, <2>4 DEF FileId, FileSecret, KeysOf, Paired, InFile
    <2>7. FileId' = WillId(p) /\ FileSecret' = WillSecret(p)
      BY <1>1, <2>5, <2>6 DEF WillId, WillSecret, Paired
    <2> QED BY <2>1, <2>3, <2>4, <2>7 DEF Foresees
  <1> QED BY <1>2, <1>3

LEMMA StoredStep ==
  ASSUME ShapeOK, KeptOK, NEW p \in Process, Step(p)
  PROVE  StoredOK'
  <1>0. SharedOK /\ FileOK /\ HistoryOK /\ RunsOK /\ SmoothOK(p) /\ StoredOK
    BY DEF ShapeOK, KeptOK
  <1>1. CASE \E q \in Process \ {p} : proc[q].pc \in Storing
    <2>1. \E q \in Process \ {p} : proc'[q].pc \in Storing
      BY <1>1, OthersKeep
    <2> QED BY <2>1 DEF StoredOK
  <1>2. CASE proc[p].pc \in Storing
    <2>1. CASE proc'[p].pc \in Storing
      BY <2>1 DEF StoredOK
    <2>2. CASE Encode(p)
      BY <1>0, <2>2, EncodeStores DEF StoredOK
    <2>3. CASE Killed(p)
      BY <1>2, <2>3 DEF Killed, Storing, StoredOK
    <2>4. CASE SetId(p) \/ SetSecret(p) \/ SetPassphrase(p)
      BY <1>0, <2>1, <2>4, SetIdIs, SetSecretIs, SetPassphraseIs DEF Goes, Stumbles, Storing
    <2>5. SetId(p) \/ SetSecret(p) \/ SetPassphrase(p) \/ Encode(p) \/ Killed(p)
      BY <1>2 DEF Storing, Step, Begin, Accept, Decline, Fatal, Address, CheckIfProd, Enter,
         Truncate, Request, Answered, ExportItem, ExportItemFails, Stat, OpenOutput,
         WriteOutput, At, Asked, Waiting
    <2> QED BY <2>2, <2>3, <2>4, <2>5
  <1>3. CASE ~\E q \in Process : proc[q].pc \in Storing
    <2>1. CASE Truncate(p)
      <3>1. proc'[p].pc \in Storing
        BY <1>0, <2>1, TruncateIs DEF Goes, Storing
      <3> QED BY <3>1 DEF StoredOK
    <2>2. CASE ~Truncate(p)
      <3>1. /\ ~SetId(p) /\ ~SetSecret(p) /\ ~SetPassphrase(p) /\ ~Encode(p)
        BY <1>3 DEF SetId, SetSecret, SetPassphrase, Encode, At, Storing
      <3>2. file' = file /\ ring' = ring
        BY <2>2, <3>1, FileKept, RingKept
      <3>3. last' = last
        BY <1>3, <2>2, <3>1 DEF Step, Begin, Accept, Decline, Fatal, Killed, Address,
           CheckIfProd, Enter, Request, Answered, ExportItem, ExportItemFails, Stat,
           OpenOutput, WriteOutput, Storing, history
      <3>4. FileId' = FileId /\ FileSecret' = FileSecret
        BY <3>2 DEF FileId, FileSecret, KeysOf, Paired, InFile
      <3> QED BY <1>0, <1>3, <3>2, <3>3, <3>4 DEF StoredOK, Fits
    <2> QED BY <2>1, <2>2
  <1> QED BY <1>1, <1>2, <1>3

LEMMA KeptStep ==
  ASSUME ShapeOK, KeptOK, [Next]_vars
  PROVE  KeptOK'
  <1>1. CASE UNCHANGED vars
    <2>1. file' = file /\ ring' = ring /\ proc' = proc /\ last' = last
      BY <1>1 DEF vars, kept, history
    <2>2. FileId' = FileId /\ FileSecret' = FileSecret
      BY <2>1 DEF FileId, FileSecret, KeysOf, Paired, InFile
    <2>3. StoredOK'
      BY <2>1, <2>2 DEF KeptOK, StoredOK, Fits
    <2>4. ASSUME NEW p \in Process
          PROVE  SmoothOK(p)'
      <3>1. Cfg(p)' = Cfg(p) /\ KeysOf(Cfg(p).host)' = KeysOf(Cfg(p).host)
        BY <2>1 DEF Cfg, KeysOf
      <3>2. Smooth(p)' => Smooth(p)
        BY <2>1 DEF Smooth
      <3>3. Alone(p) => Alone(p)'
        BY <2>1 DEF Alone, At
      <3>4. Fresh(p) => Fresh(p)'
        BY <2>1, <3>1 DEF Fresh, Paired
      <3>5. HalfDone(p) => HalfDone(p)'
        BY <2>1, <3>1 DEF HalfDone, At
      <3>6. Smooth(p) /\ Foresees(p) => Foresees(p)'
        BY <2>1, <3>1, ForeseesKept DEF Smooth
      <3> QED BY <3>2, <3>3, <3>4, <3>5, <3>6 DEF KeptOK, SmoothOK
    <2> QED BY <2>3, <2>4 DEF KeptOK
  <1>2. ASSUME NEW p \in Process, Step(p)
        PROVE  KeptOK'
    BY <1>2, SmoothStep, StoredStep DEF KeptOK
  <1> QED BY <1>1, <1>2 DEF Next

(* When a login has been stored by a command that nothing disturbed, a read
   presents it, until something else is stored for that host. *)
THEOREM LoginsAreKept == Spec => []LoginIsKept
  <1>1. Init => KeptOK
    BY RestingIs DEF Init, KeptOK, StoredOK, SmoothOK, Smooth, Writes, Storing
  <1>2. ShapeOK /\ KeptOK /\ [Next]_vars => KeptOK'
    BY KeptStep
  <1>3. ShapeOK /\ KeptOK => LoginIsKept
    <2> SUFFICES ASSUME ShapeOK, KeptOK, Configured,
                        \A p \in Process : proc[p].pc \notin Storing,
                        last[file.host] # 0
                 PROVE  LET r == Present(Load(file, KeysOf(file.host))) IN
                        r.id = last[file.host] /\ r.secret = last[file.host]
      BY DEF LoginIsKept, Storing
    <2>1. SharedOK /\ file \in Config
      BY DEF ShapeOK, SharedOK, Configured
    <2>2. \/ \A h \in Host : last[h] = 0
          \/ Fits(last, file.host, FileId, FileSecret)
      BY DEF KeptOK, StoredOK
    <2>3. file.host \in Host
      BY <2>1 DEF Configured, Config
    <2>4. FileId = last[file.host] /\ FileSecret = last[file.host]
      BY <2>2, <2>3 DEF Fits
    <2> QED BY <2>1, <2>4, PresentReads
  <1> QED BY <1>1, <1>2, <1>3, ShapeHolds, PTL DEF Spec
=============================================================================
