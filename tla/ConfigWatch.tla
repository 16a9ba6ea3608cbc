---------------------------- MODULE ConfigWatch ----------------------------
(***************************************************************************)
(* borgd's watch of its configuration file (internal/drone/config): a      *)
(* goroutine that takes the events fsnotify has queued, loads the file     *)
(* when it was written, and offers what it loaded to the worker over an    *)
(* unbuffered channel.  The watch is on the file itself, by inode; when    *)
(* the file is removed it moves to the directory until it is written anew, *)
(* or gives up.  Others edit, remove, move and replace the file meanwhile. *)
(***************************************************************************)
EXTENDS Sequences, Naturals

CONSTANTS
  Config,     \* what a whole file may say
  Absent,     \* there is no file
  Blank,      \* nothing is written to it yet: a valid configuration, of nothing
  Bad,        \* what does not load: half written, or in error
  Backlog,    \* bound: how many events may wait when the file changes again
  Nil

ASSUME BacklogAssumption == Backlog \in Nat \ {0}

VARIABLES
  file,       \* what is at the path
  watched,    \* what fsnotify watches: the "file" at the path, its "dir"
  events,     \* what fsnotify has seen and the goroutine has not taken
  step,       \* of the goroutine: "off" before it is started
  parent,     \* watchingParentDir
  removed,    \* lastOp is a removal
  offer,      \* the configuration on its way to the worker
  (* What an observer remembers. *)
  unseen      \* what the file says now was not written before a watch's eyes

external   == <<file, watched, events, unseen>>
goroutine  == <<step, parent, removed, offer>>
configWatch == <<external, goroutine>>

Contents == Config \cup {Absent, Blank, Bad}
Loadable == Config \cup {Blank}
ASSUME ContentsAssumption == {Absent, Bad} \cap Loadable = {} /\ Absent # Bad
Event == [op : {"write", "touch", "remove"}, by : {"file", "dir"}]

-----------------------------------------------------------------------------
(* Those who edit the file, and what fsnotify makes of it.  "touch" is every
   event that is neither a removal nor a write of the file at the path. *)

Report(ops) ==
  /\ ops # <<>> => Len(events) < Backlog
  /\ events' = events \o ops
By(op, S) == (IF "dir" \in S THEN <<[op |-> op, by |-> "dir"]>> ELSE <<>>)
          \o (IF "file" \in S THEN <<[op |-> op, by |-> "file"]>> ELSE <<>>)

(* A file is written by truncating it first, and more than one write.  It is
   written unseen while there is no watch that could tell: before NewWatch, and
   from a removal or a move of the old file until that has been noticed. *)
Unnoticed == step = "off" \/ \E k \in DOMAIN events : events[k].op = "remove"
Written ==
  /\ Report(By("write", watched))
  /\ unseen' = (watched = {} /\ (unseen \/ Unnoticed))
  /\ UNCHANGED watched

Truncate == file # Absent /\ file' \in {Blank, Bad} /\ Written
Fill == file \in {Blank, Bad} /\ file' \in Config /\ Written

Create ==
  /\ file = Absent /\ file' = Blank /\ unseen' = TRUE
  /\ Report(By("touch", watched \cap {"dir"}))
  /\ UNCHANGED watched

(* The watch of a file goes with the file.  Its directory's reports the removal
   if both are watched. *)
Remove ==
  /\ file # Absent /\ file' = Absent
  /\ Report(By("remove", IF "dir" \in watched THEN {"dir"} ELSE watched))
  /\ watched' = watched \ {"file"}
  /\ UNCHANGED unseen

MoveAway ==
  /\ file # Absent /\ file' = Absent
  /\ Report(By("touch", watched))
  /\ watched' = watched \ {"file"}
  /\ unseen' = (unseen \/ watched = {"file"})

(* A new file is moved to the path, over the old one if there is one: a removal
   for who watches the old one, a creation for who watches the directory. *)
Replace ==
  /\ file' \in Config
  /\ Report(IF "dir" \in watched THEN By("touch", {"dir"}) ELSE By("remove", watched))
  /\ watched' = watched \ {"file"}
  /\ unseen' = TRUE

(* Something else in the directory changes. *)
Sibling ==
  /\ "dir" \in watched
  /\ \E op \in {"touch", "remove"} : Report(By(op, {"dir"}))
  /\ UNCHANGED <<file, watched, unseen>>

Edit == Truncate \/ Fill \/ Create \/ Remove \/ MoveAway \/ Replace \/ Sibling

-----------------------------------------------------------------------------
(* LoadConfig *)

Loads == file \in Loadable

-----------------------------------------------------------------------------
(* The goroutine of NewWatch *)

Goto(s) == step' = s /\ UNCHANGED offer

NewWatch ==
  /\ file # Absent
  /\ watched' = {"file"} /\ Goto("select")
  /\ UNCHANGED <<file, events, unseen, parent, removed>>

Taking(op) == step = "select" /\ events # <<>> /\ Head(events).op = op

(* A removal: of the file, and then the directory is watched; of anything in
   the directory when that is watched already, which ends the watch. *)
TakeRemove ==
  /\ Taking("remove") /\ events' = Tail(events)
  /\ \/ parent /\ Goto("fail") /\ UNCHANGED <<watched, parent, removed>>
     \/ /\ ~parent /\ parent' = TRUE /\ removed' = TRUE
        /\ watched' = watched \cup {"dir"}
        /\ Goto("select")
  /\ UNCHANGED <<file, unseen>>

TakeTouch ==
  /\ Taking("touch") /\ events' = Tail(events)
  /\ removed' = FALSE
  /\ UNCHANGED <<file, watched, unseen, step, parent, offer>>

(* With the watch of a directory go its events, but for one that fsnotify has
   read already.  The others keep their order: `at' is where each was. *)
OfFile(q) == {k \in DOMAIN q : q[k].by = "file"}
Dropped(q) ==
  {r \in UNION {[1..n -> Event] : n \in 0..Len(q)} :
     \E at \in [DOMAIN r -> OfFile(q) \cup ({1} \cap DOMAIN q)] :
       /\ \A k, l \in DOMAIN r : k < l => at[k] < at[l]
       /\ \A k \in DOMAIN r : r[k] = q[at[k]]
       /\ OfFile(q) \subseteq {at[k] : k \in DOMAIN r}}

TakeWrite ==
  /\ Taking("write") /\ removed' = FALSE
  /\ IF parent
     THEN /\ watched' = watched \ {"dir"} /\ events' \in Dropped(Tail(events))
          /\ Goto("rewatch")
     ELSE events' = Tail(events) /\ Goto("load") /\ UNCHANGED watched
  /\ UNCHANGED <<file, unseen, parent>>

(* Mutation: the directory is no longer watched, nor is the file. *)
RewatchNone ==
  /\ step = "rewatch" /\ parent' = FALSE
  /\ Goto(IF file = Absent THEN "fail" ELSE "load")
  /\ UNCHANGED <<external, removed>>
Rewatch ==
  /\ step = "rewatch" /\ parent' = FALSE
  /\ IF file = Absent
     THEN Goto("fail") /\ UNCHANGED watched
     ELSE Goto("load") /\ watched' = watched \cup {"file"}
  /\ UNCHANGED <<file, events, unseen, removed>>

(* What does not load is logged, and that is all.  Mutation: it ends the
   goroutine. *)
LoadOrReturn ==
  /\ step = "load"
  /\ IF Loads THEN step' = "send" /\ offer' = file ELSE Goto("off")
  /\ UNCHANGED <<external, parent, removed>>
Load ==
  /\ step = "load"
  /\ IF Loads THEN step' = "send" /\ offer' = file ELSE Goto("select")
  /\ UNCHANGED <<external, parent, removed>>

(* Nothing has happened for half a second. *)
Timeout ==
  /\ step = "select" /\ removed
  /\ Goto("fail")
  /\ UNCHANGED <<external, parent, removed>>

(* The worker takes what is offered, and the goroutine goes on. *)
Sent ==
  /\ step = "send" /\ step' = "select" /\ offer' = Nil
  /\ UNCHANGED <<external, parent, removed>>

WatchSteps ==
  TakeRemove \/ TakeTouch \/ TakeWrite \/ Rewatch \/ Load \/ Timeout

(* The process ends, and with it its watch. *)
WatchEnds ==
  /\ watched' = {} /\ events' = <<>>
  /\ step' = "off" /\ parent' = FALSE /\ removed' = FALSE /\ offer' = Nil

WatchInit ==
  /\ file \in Config /\ unseen = FALSE
  /\ watched = {} /\ events = <<>>
  /\ step = "off" /\ parent = FALSE /\ removed = FALSE /\ offer = Nil

WatchTypeOK ==
  /\ file \in Contents /\ unseen \in BOOLEAN
  /\ watched \subseteq {"file", "dir"}
  /\ events \in Seq(Event) /\ Len(events) <= Backlog + 1
  /\ step \in {"off", "select", "rewatch", "load", "send", "fail"}
  /\ parent \in BOOLEAN /\ removed \in BOOLEAN
  /\ offer \in Loadable \cup {Nil}
=============================================================================
