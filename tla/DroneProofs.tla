---------------------------- MODULE DroneProofs ----------------------------
(***************************************************************************)
(* Theorems about borgd, for any configurations, containers and jobs, any  *)
(* amount of output and any room in the pipes.                             *)
(***************************************************************************)
EXTENDS Drone, TLAPS

(* What a step may do to the watch of the configuration. *)
WatchEndsOnly == WatchEnds /\ UNCHANGED <<file, unseen>>
WatchSeen == Loads /\ unseen' = FALSE /\ UNCHANGED <<file, watched, events, goroutine>>

LEMMA WatchCases ==
  ASSUME Next
  PROVE  \/ UNCHANGED configWatch
         \/ WatchEndsOnly
         \/ proc = "off" /\ WatchSeen
         \/ proc = "checked" /\ NewWatch
         \/ proc = "daemon" /\ Sent
         \/ mode \in {Nil, "daemon"} /\ Edit /\ UNCHANGED goroutine
         \/ WatchSteps
<1>1. CASE Killed \/ InfoDone \/ DryRun \/ OnceDone \/ StartScheduler
  BY <1>1 DEF Killed, InfoDone, DryRun, OnceDone, StartScheduler, Ends,
              WatchEndsOnly
<1>2. CASE Start \/ ScheduleAll \/ RunOnce \/ Run
  BY <1>2 DEF Start, ScheduleAll, RunOnce, Run, Ends, WatchEndsOnly, WatchSeen
<1>3. CASE WorkerSteps
  BY <1>3 DEF WorkerSteps, Receive, SetConfig, RescheduleCompaction,
              RescheduleStatics, WatchFails, Ends, WatchEndsOnly
<1>4. CASE BeginNext \/ BeginDue
  BY <1>4 DEF BeginNext, BeginDue, Begin, Others
<1>5. CASE \/ JobSteps \/ Processes(PipelineProceeds(Fed))
           \/ Processes(PipelineFails)
  BY <1>5 DEF JobSteps, Processes, Others
<1>. QED BY <1>1, <1>2, <1>3, <1>4, <1>5 DEF Next, Starting, Edits, Watches

(* What a step may do to the pipeline and the job in progress. *)
JobGoesOn ==
  /\ UNCHANGED <<queue, worker, process>>
  /\ \/ Pre \/ StartCommand \/ ReadLocation \/ ReadEnv \/ Wait \/ Parse
     \/ Outcome \/ Logged \/ Done \/ Post \/ Finally
BeginsInfo ==
  /\ proc = "loaded" /\ pc' = "location" /\ kind' = "info"
  /\ UNCHANGED <<pipeline, failed, location, env>>
ProcessesRun ==
  /\ pc # "idle" /\ UNCHANGED job
  /\ PipelineProceeds(Fed) \/ PipelineFails

LEMMA JobCases ==
  ASSUME Next
  PROVE  \/ UNCHANGED <<pipeline, job>>
         \/ JobRests
         \/ BeginsInfo
         \/ BeginNext \/ BeginDue
         \/ JobGoesOn
         \/ ProcessesRun
<1>1. CASE Killed \/ InfoDone \/ DryRun \/ OnceDone \/ StartScheduler
  BY <1>1 DEF Killed, InfoDone, DryRun, OnceDone, StartScheduler, Ends
<1>2. CASE Start \/ ScheduleAll \/ RunOnce \/ Run \/ Edits \/ Watches
  BY <1>2 DEF Start, ScheduleAll, RunOnce, Run, Edits, Watches, Ends, BeginsInfo
<1>3. CASE WorkerSteps
  BY <1>3 DEF WorkerSteps, Receive, SetConfig, RescheduleCompaction,
              RescheduleStatics, WatchFails, Ends
<1>4. CASE \/ JobSteps \/ Processes(PipelineProceeds(Fed))
           \/ Processes(PipelineFails)
  BY <1>4 DEF JobSteps, Processes, Others, JobGoesOn, ProcessesRun
<1>. QED BY <1>1, <1>2, <1>3, <1>4 DEF Next, Starting

-----------------------------------------------------------------------------
(* Types *)

(* The queue of events *)
LEMMA ReportType ==
  ASSUME events \in Seq(Event), Len(events) <= Backlog + 1,
         NEW op \in {"write", "touch", "remove"}, NEW S, Report(By(op, S))
  PROVE  events' \in Seq(Event) /\ Len(events') <= Backlog + 1
<1>. DEFINE d == IF "dir" \in S THEN <<[op |-> op, by |-> "dir"]>> ELSE <<>>
             f == IF "file" \in S THEN <<[op |-> op, by |-> "file"]>> ELSE <<>>
<1>1. d \in Seq(Event) /\ Len(d) <= 1 /\ f \in Seq(Event) /\ Len(f) <= 1
  <2>1. [op |-> op, by |-> "dir"] \in Event /\ [op |-> op, by |-> "file"] \in Event
    BY DEF Event
  <2>. QED BY <2>1
<1>2. By(op, S) = d \o f
  BY DEF By
<1>. HIDE DEF d, f
<1>3. By(op, S) \in Seq(Event) /\ Len(By(op, S)) <= 2
  BY <1>1, <1>2
<1>4. CASE By(op, S) = <<>>
  BY <1>4 DEF Report
<1>5. CASE By(op, S) # <<>>
  BY <1>3, <1>5, BacklogAssumption DEF Report
<1>. QED BY <1>4, <1>5

LEMMA TailType ==
  ASSUME events \in Seq(Event), Len(events) <= Backlog + 1, events # <<>>
  PROVE  Tail(events) \in Seq(Event) /\ Len(Tail(events)) <= Backlog
BY BacklogAssumption

LEMMA DroppedType ==
  ASSUME NEW q \in Seq(Event), NEW r \in Dropped(q)
  PROVE  r \in Seq(Event) /\ Len(r) <= Len(q)
<1>1. PICK n \in 0..Len(q) : r \in [1..n -> Event]
  BY DEF Dropped
<1>. QED BY <1>1

LEMMA EditType ==
  ASSUME WatchTypeOK, Edit, UNCHANGED goroutine
  PROVE  WatchTypeOK'
<1>1. /\ file' \in Contents /\ watched' \subseteq {"file", "dir"}
      /\ unseen' \in BOOLEAN /\ UNCHANGED goroutine
  BY DEF WatchTypeOK, Edit, Truncate, Fill, Create, Remove, MoveAway, Replace,
         Sibling, Written, Contents
<1>2. \E op \in {"write", "touch", "remove"} : \E S : Report(By(op, S))
  BY DEF Edit, Truncate, Fill, Create, Remove, MoveAway, Replace, Sibling, Written
<1>. QED BY <1>1, <1>2, ReportType DEF WatchTypeOK, goroutine

LEMMA WatchStepType ==
  ASSUME WatchTypeOK, WatchSteps
  PROVE  WatchTypeOK'
<1>1. events' \in Seq(Event) /\ Len(events') <= Backlog + 1
  <2>1. CASE events' = events
    BY <2>1 DEF WatchTypeOK
  <2>2. CASE events # <<>> /\ events' \in {Tail(events)} \cup Dropped(Tail(events))
    <3>1. Tail(events) \in Seq(Event) /\ Len(Tail(events)) <= Backlog
      BY <2>2, TailType DEF WatchTypeOK
    <3>2. \A r \in Dropped(Tail(events)) :
             r \in Seq(Event) /\ Len(r) <= Len(Tail(events))
      BY <3>1, DroppedType
    <3>3. events' \in Seq(Event) /\ Len(events') <= Len(Tail(events))
      BY <2>2, <3>1, <3>2
    <3>. QED BY <3>1, <3>3, BacklogAssumption
  <2>. QED BY <2>1, <2>2 DEF WatchSteps, TakeRemove, TakeTouch, TakeWrite, Taking,
                             Rewatch, Load, Timeout, external
<1>2. /\ UNCHANGED <<file, unseen>> /\ watched' \subseteq {"file", "dir"}
      /\ step' \in {"off", "select", "rewatch", "load", "send", "fail"}
      /\ parent' \in BOOLEAN /\ removed' \in BOOLEAN
      /\ offer' \in Loadable \cup {Nil}
  BY DEF WatchTypeOK, WatchSteps, TakeRemove, TakeTouch, TakeWrite, Rewatch, Load,
         Timeout, Loads, Goto, external
<1>. QED BY <1>1, <1>2 DEF WatchTypeOK

LEMMA WatchTypeStep ==
  ASSUME WatchTypeOK, Next
  PROVE  WatchTypeOK'
<1>1. CASE UNCHANGED configWatch
  BY <1>1 DEF configWatch, external, goroutine, WatchTypeOK
<1>2. CASE WatchEndsOnly \/ WatchSeen \/ NewWatch \/ Sent
  <2>1. events' \in Seq(Event) /\ Len(events') <= Backlog + 1
    <3>1. events' \in {events, <<>>}
      BY <1>2 DEF WatchEndsOnly, WatchEnds, WatchSeen, NewWatch, Sent, external
    <3>2. <<>> \in Seq(Event) /\ Len(<<>>) <= Backlog + 1
      BY BacklogAssumption
    <3>. QED BY <3>1, <3>2 DEF WatchTypeOK
  <2>. QED BY <1>2, <2>1
           DEF WatchTypeOK, WatchEndsOnly, WatchEnds, WatchSeen, NewWatch, Sent,
               Goto, external, goroutine
<1>. QED BY <1>1, <1>2, WatchCases, EditType, WatchStepType

LEMMA PipelineTypeStep ==
  ASSUME PipelineTypeOK, Next
  PROVE  PipelineTypeOK'
<1>1. CASE UNCHANGED pipeline \/ PipelineRests
  BY <1>1, RoomAssumption
     DEF PipelineTypeOK, pipeline, producer, borgVars, PipelineRests
<1>2. CASE BeginNext \/ BeginDue
  BY <1>1, <1>2 DEF BeginNext, BeginDue, Begin
<1>3. CASE JobGoesOn
  <2>1. CASE StartCommand \/ ReadEnv \/ Wait
    BY <2>1, RoomAssumption
       DEF PipelineTypeOK, StartCommand, ExecWithOutput, ReadEnv, BorgStarts, Wait,
           BorgWaited, Exited, pipeline, producer, borgVars
  <2>2. CASE \/ Pre \/ ReadLocation \/ Parse \/ Outcome \/ Logged \/ Done \/ Post
             \/ Finally
    BY <1>1, <2>2
       DEF Pre, ReadLocation, Parse, Outcome, Logged, Done, Post, Finally, JobRests
  <2>. QED BY <1>3, <2>1, <2>2 DEF JobGoesOn
<1>4. CASE PipelineProceeds(Fed) \/ PipelineFails
  BY <1>4, RoomAssumption
     DEF PipelineTypeOK, PipelineProceeds, PipelineFails, Copy, CommandEnds,
         CommandWaited, CloseWriter, BorgReads, BorgEnds, BorgExits, CommandFails,
         CopyFails, BorgFails, Gone, producer, borgVars
<1>. QED BY <1>1, <1>2, <1>3, <1>4, JobCases
         DEF BeginsInfo, ProcessesRun, JobRests

LEMMA SeqOfMore ==
  ASSUME NEW S, NEW T, S \subseteq T, NEW s \in Seq(S)
  PROVE  s \in Seq(T)
<1>1. s \in [1..Len(s) -> S] /\ Len(s) \in Nat
  OBVIOUS
<1>2. s \in [1..Len(s) -> T]
  BY <1>1
<1>. QED BY <1>1, <1>2

(* How far borgd has come, and what is set by then. *)
ProcessOK ==
  /\ proc \in {"off", "loaded"} => pc = "idle"
  /\ kind = "info" /\ pc # "idle" => proc = "info"
  /\ proc \in {"off", "loaded", "info", "checked", "once"} => step = "off"
  /\ task # "select" => proc = "daemon"
  /\ proc = "loaded" => config \in Loadable
  /\ task # "select" => update \in Loadable
  /\ step = "send" => offer \in Loadable
  /\ queue \in Seq(Kind \ {"info"})

LEMMA EndsProcess ==
  ASSUME Ends
  PROVE  ProcessOK'
BY DEF Ends, JobRests, WatchEnds, ProcessOK

LEMMA StartingProcess ==
  ASSUME TypeOK, ProcessOK, Start \/ Starting
  PROVE  ProcessOK'
<1>1. CASE Start \/ ScheduleAll
  BY <1>1 DEF Start, ScheduleAll, ProcessOK, Loads, configWatch, external, goroutine, job
<1>2. CASE InfoDone
  BY <1>2, EndsProcess DEF InfoDone, JobRests, ProcessOK, configWatch, goroutine, worker
<1>3. CASE RunOnce
  <2>. DEFINE first == IF compaction = Nil THEN <<>> ELSE <<"compact">>
  <2>1. PICK ctnrs \in Containers :
          queue' = first \o statics \o ctnrs \o <<"compact">>
    BY <1>3 DEF RunOnce
  <2>2. /\ first \in Seq(Kind \ {"info"}) /\ <<"compact">> \in Seq(Kind \ {"info"})
        /\ statics \in Seq(Kind \ {"info"}) /\ ctnrs \in Seq(Kind \ {"info"})
    <3>1. Static \subseteq Kind \ {"info"} /\ OfContainer \subseteq Kind \ {"info"}
          /\ "compact" \in Kind \ {"info"}
      BY DEF Kind, Static, OfContainer
    <3>2. statics \in Seq(Static) /\ ctnrs \in Seq(OfContainer)
      BY ConfigAssumption DEF TypeOK
    <3>3. <<"compact">> \in Seq(Kind \ {"info"})
      BY <3>1
    <3>4. statics \in Seq(Kind \ {"info"})
      BY <3>1, <3>2, SeqOfMore
    <3>5. ctnrs \in Seq(Kind \ {"info"})
      BY <3>1, <3>2, SeqOfMore
    <3>6. first \in Seq(Kind \ {"info"})
      <4>1. <<>> \in Seq(Kind \ {"info"})
        OBVIOUS
      <4>2. first \in {<<>>, <<"compact">>}
        OBVIOUS
      <4>. HIDE DEF first
      <4>. QED BY <3>3, <4>1, <4>2
    <3>. HIDE DEF first
    <3>. QED BY <3>3, <3>4, <3>5, <3>6
  <2>. HIDE DEF first
  <2>3. queue' \in Seq(Kind \ {"info"})
    BY <2>1, <2>2
  <2>. QED BY <1>3, <2>3 DEF RunOnce, ProcessOK, configWatch, goroutine, worker, job
<1>4. CASE Run \/ StartScheduler
  BY <1>4, EndsProcess
     DEF Run, StartScheduler, NewWatch, Goto, ProcessOK, configWatch, external,
         goroutine, worker, job
<1>. QED BY <1>1, <1>2, <1>3, <1>4, EndsProcess DEF Starting, DryRun, OnceDone

LEMMA WatchProcess ==
  ASSUME ProcessOK, Edits \/ Watches
  PROVE  ProcessOK'
BY DEF Edits, Watches, WatchSteps, TakeRemove, TakeTouch, TakeWrite, Taking,
       Rewatch, Load, Timeout, Loads, Goto, ProcessOK, goroutine, process, worker, job

LEMMA WorkerProcess ==
  ASSUME ProcessOK, WorkerSteps
  PROVE  ProcessOK'
<1>1. CASE Receive
  BY <1>1 DEF Receive, Sent, ProcessOK, process, job
<1>2. CASE SetConfig \/ RescheduleCompaction \/ RescheduleStatics
  BY <1>2, EndsProcess
     DEF SetConfig, RescheduleCompaction, RescheduleStatics, ProcessOK, process,
         job, configWatch, goroutine
<1>. QED BY <1>1, <1>2, EndsProcess DEF WorkerSteps, WatchFails

LEMMA JobProcess ==
  ASSUME ProcessOK,
         \/ BeginNext \/ BeginDue \/ JobSteps
         \/ Processes(PipelineProceeds(Fed)) \/ Processes(PipelineFails)
  PROVE  ProcessOK'
<1>1. CASE BeginNext
  <2>1. /\ Head(queue) \in Kind \ {"info"} /\ Tail(queue) \in Seq(Kind \ {"info"})
    BY <1>1 DEF BeginNext, ProcessOK
  <2>. QED BY <1>1, <2>1
           DEF BeginNext, Begin, Others, ProcessOK, configWatch, goroutine, process, worker
<1>2. CASE BeginDue
  BY <1>2 DEF BeginDue, Begin, Others, ProcessOK, configWatch, goroutine, process, worker
<1>3. CASE JobSteps
  <2>1. UNCHANGED <<goroutine, process, worker, queue>>
    BY <1>3 DEF JobSteps, Others, configWatch
  <2>2. pc # "idle" /\ (pc' = "idle" \/ kind' = kind)
    BY <1>3
       DEF JobSteps, Pre, StartCommand, ReadLocation, ReadEnv, Wait, Parse, Outcome,
           Logged, Done, Post, Finally, Phase, Becomes, Fail, CallFails, JobRests
  <2>. QED BY <2>1, <2>2 DEF ProcessOK, goroutine, process, worker
<1>4. CASE Processes(PipelineProceeds(Fed)) \/ Processes(PipelineFails)
  BY <1>4 DEF Processes, Others, ProcessOK, configWatch, goroutine, process, worker, job
<1>. QED BY <1>1, <1>2, <1>3, <1>4

LEMMA ProcessStep ==
  ASSUME TypeOK, ProcessOK, Next
  PROVE  ProcessOK'
BY StartingProcess, WatchProcess, WorkerProcess, JobProcess, EndsProcess
   DEF Next, Killed

(* The parts of TypeOK. *)
WorkerTypeOK ==
  /\ mode \in Modes \cup {Nil}
  /\ proc \in {"off", "loaded", "info", "checked", "once", "watching", "daemon"}
  /\ config \in Loadable \cup {Nil} /\ compaction \in Compacting \cup {Nil}
  /\ statics \in Seq(Static)
  /\ task \in {"select", "config", "compaction", "statics"}
  /\ update \in Loadable \cup {Nil}
JobTypeOK ==
  /\ pc \in Phases /\ kind \in Kind \cup {Nil} /\ failed \in BOOLEAN
  /\ location \in Loadable \cup {Nil} /\ env \in Loadable \cup {Nil}
  /\ pc \in {"pre", "post", "finally"} => kind \in Static

LEMMA EndsType ==
  ASSUME Ends
  PROVE  WorkerTypeOK'
BY DEF Ends, WorkerTypeOK

LEMMA WorkerTypeStep ==
  ASSUME TypeOK, ProcessOK, Next
  PROVE  WorkerTypeOK'
<1>1. CASE Start
  BY <1>1 DEF Start, Loads, TypeOK, WorkerTypeOK
<1>2. CASE ScheduleAll
  <2>1. BackupsOf(config) \in Seq(Static)
    <3>1. CASE config = Blank
      BY <3>1 DEF BackupsOf
    <3>2. CASE config # Blank
      BY <1>2, <3>2, ConfigAssumption DEF ScheduleAll, ProcessOK, Loadable, BackupsOf
    <3>. QED BY <3>1, <3>2
  <2>. QED BY <1>2, <2>1
           DEF ScheduleAll, ScheduleRepoCompaction, ScheduleStaticBackups, TypeOK,
               WorkerTypeOK
<1>3. CASE Starting /\ ~ScheduleAll
  BY <1>3, EndsType
     DEF Starting, InfoDone, DryRun, RunOnce, OnceDone, Run, StartScheduler, TypeOK,
         WorkerTypeOK, worker
<1>4. CASE Receive \/ SetConfig \/ RescheduleCompaction
  BY <1>4 DEF Receive, SetConfig, RescheduleCompaction, ScheduleRepoCompaction,
              TypeOK, WatchTypeOK, WorkerTypeOK, process
<1>5. CASE RescheduleStatics
  <2>1. CASE BackupsOf(update) = <<>>
    BY <1>5, <2>1 DEF RescheduleStatics, ScheduleStaticBackups, TypeOK, WorkerTypeOK, process
  <2>. QED BY <1>5, <2>1, EndsType DEF RescheduleStatics
<1>6. CASE UNCHANGED <<process, worker>>
  BY <1>6 DEF process, worker, TypeOK, WorkerTypeOK
<1>7. CASE \/ Edits \/ Watches \/ BeginNext \/ BeginDue \/ JobSteps
           \/ Processes(PipelineProceeds(Fed)) \/ Processes(PipelineFails)
  BY <1>6, <1>7 DEF Edits, Watches, BeginNext, BeginDue, Begin, JobSteps, Processes, Others
<1>. QED BY <1>1, <1>2, <1>3, <1>4, <1>5, <1>7, EndsType
         DEF Next, WorkerSteps, WatchFails, Killed

(* The next job is none of those that borgd runs for itself. *)
LEMMA NextJob ==
  ASSUME ProcessOK, BeginNext \/ BeginDue
  PROVE  \E k \in Kind \ {"info"} : pc = "idle" /\ Begin(k)
BY DEF ProcessOK, BeginNext, BeginDue, Begin, Kind, OfContainer

LEMMA BeginType ==
  ASSUME NEW k \in Kind \ {"info"}, Begin(k)
  PROVE  /\ kind' = k
         /\ pc' \in {"pre", "location", "start"} /\ (pc' = "pre" <=> k \in Static)
         /\ k \in OfContainer \ {"volumes"} <=> pc' = "start"
BY DEF Begin, Kind, Static, OfContainer

LEMMA JobTypeStep ==
  ASSUME TypeOK, ProcessOK, Next
  PROVE  JobTypeOK'
<1>1. CASE UNCHANGED job \/ JobRests
  BY <1>1 DEF TypeOK, JobTypeOK, job, JobRests, Phases
<1>2. CASE BeginsInfo
  BY <1>2 DEF BeginsInfo, TypeOK, JobTypeOK, Phases, Kind
<1>3. CASE BeginNext \/ BeginDue
  <2>1. PICK k \in Kind \ {"info"} : Begin(k)
    BY <1>3, NextJob
  <2>2. kind' = k /\ pc' \in {"pre", "location", "start"} /\ (pc' = "pre" => k \in Static)
    BY <2>1, BeginType
  <2>3. UNCHANGED <<failed, location, env>>
    BY <2>1 DEF Begin
  <2>. QED BY <2>2, <2>3 DEF TypeOK, JobTypeOK, Phases
<1>4. CASE JobGoesOn
  BY <1>1, <1>4
     DEF JobGoesOn, Pre, StartCommand, ReadLocation, ReadEnv, Wait, Parse, Outcome,
         Logged, Done, Post, Finally, Phase, Becomes, Fail, CallFails, TypeOK,
         JobTypeOK, Phases, job
<1>. QED BY <1>1, <1>2, <1>3, <1>4, JobCases DEF ProcessesRun

LEMMA TypeStep ==
  ASSUME TypeOK, ProcessOK, [Next]_vars
  PROVE  TypeOK' /\ ProcessOK'
<1>1. CASE UNCHANGED vars
  BY <1>1 DEF vars, configWatch, external, goroutine, pipeline, producer, borgVars,
              process, worker, job, TypeOK, WatchTypeOK, PipelineTypeOK, ProcessOK
<1>2. CASE Next
  <2>1. ProcessOK'
    BY <1>2, ProcessStep
  <2>2. queue' \in Seq(Kind)
    BY <2>1, SeqOfMore DEF ProcessOK
  <2>3. WatchTypeOK' /\ PipelineTypeOK' /\ WorkerTypeOK' /\ JobTypeOK'
    BY <1>2, WatchTypeStep, PipelineTypeStep, WorkerTypeStep, JobTypeStep DEF TypeOK
  <2>. QED BY <2>1, <2>2, <2>3 DEF TypeOK, WorkerTypeOK, JobTypeOK
<1>. QED BY <1>1, <1>2

LEMMA InitType ==
  ASSUME Init
  PROVE  TypeOK /\ ProcessOK
<1>1. \A S : <<>> \in Seq(S)
  OBVIOUS
<1>2. Len(<<>>) <= Backlog + 1 /\ 0 \in 0..Chunks /\ 0 \in 0..Room
  BY BacklogAssumption, RoomAssumption
<1>3. WatchTypeOK
  BY <1>1, <1>2 DEF Init, WatchInit, WatchTypeOK, Contents
<1>4. PipelineTypeOK
  BY <1>2 DEF Init, PipelineInit, PipelineTypeOK
<1>5. WorkerTypeOK /\ JobTypeOK
  BY <1>1 DEF Init, WorkerTypeOK, JobTypeOK, Phases
<1>6. ProcessOK /\ queue \in Seq(Kind)
  BY <1>1 DEF Init, WatchInit, ProcessOK
<1>. QED BY <1>3, <1>4, <1>5, <1>6 DEF TypeOK, WorkerTypeOK, JobTypeOK

(* Every variable stays within what its field can hold, however the file, the
   worker and the job in progress take turns. *)
THEOREM TypeCorrect == Spec => []TypeOK
<1>1. TypeOK /\ ProcessOK /\ [Next]_vars => (TypeOK /\ ProcessOK)'
  BY TypeStep
<1>. QED BY <1>1, InitType, PTL DEF Spec

-----------------------------------------------------------------------------
(* A call of borg is given one configuration *)

(* While the second half of it is read, the client's lock keeps the first half
   from becoming stale. *)
CallOK ==
  /\ pc = "env" => location = config
  /\ OneConfigPerCall

LEMMA CallStep ==
  ASSUME TypeOK, ProcessOK, CallOK, [Next]_vars
  PROVE  CallOK'
<1>1. CASE UNCHANGED vars
  BY <1>1 DEF vars, worker, job, CallOK, OneConfigPerCall
<1>2. CASE JobRests
  BY <1>2 DEF JobRests, CallOK, OneConfigPerCall
<1>3. CASE BeginsInfo
  BY <1>3 DEF BeginsInfo, CallOK, OneConfigPerCall
<1>4. CASE BeginNext \/ BeginDue
  <2>1. /\ pc = "idle" /\ pc' \in {"pre", "location", "start"}
        /\ UNCHANGED <<location, env>>
    BY <1>4, NextJob, BeginType DEF Begin
  <2>. QED BY <2>1 DEF CallOK, OneConfigPerCall
<1>5. CASE JobGoesOn
  <2>1. CASE ReadLocation \/ ReadEnv
    BY <1>5, <2>1 DEF JobGoesOn, ReadLocation, ReadEnv, worker, CallOK, OneConfigPerCall
  <2>2. CASE \/ Pre \/ StartCommand \/ Wait \/ Parse \/ Outcome \/ Logged \/ Done
             \/ Post \/ Finally
    <3>1. \/ JobRests
          \/ UNCHANGED <<location, env>> /\ pc \notin {"location", "env"} /\ pc' # "env"
      BY <2>2 DEF Pre, StartCommand, Wait, Parse, Outcome, Logged, Done, Post,
                  Finally, Phase, Becomes, Fail, CallFails
    <3>. QED BY <1>2, <3>1 DEF CallOK, OneConfigPerCall
  <2>. QED BY <1>5, <2>1, <2>2 DEF JobGoesOn
<1>6. CASE Next /\ UNCHANGED job
  <2>1. CASE UNCHANGED config
    BY <1>6, <2>1 DEF job, CallOK, OneConfigPerCall
  <2>2. UNCHANGED config \/ pc # "env" \/ JobRests
    <3>1. CASE WorkerSteps
      BY <3>1 DEF WorkerSteps, Receive, SetConfig, ConfigLocked, RescheduleCompaction,
                  RescheduleStatics, WatchFails, Ends
    <3>2. CASE Start \/ Starting \/ Killed
      BY <3>2 DEF Start, ProcessOK, Starting, ScheduleAll, InfoDone, DryRun, RunOnce,
                  OnceDone, Run, StartScheduler, Killed, Ends, worker
    <3>3. CASE \/ Edits \/ Watches \/ BeginNext \/ BeginDue \/ JobSteps
               \/ Processes(PipelineProceeds(Fed)) \/ Processes(PipelineFails)
      BY <3>3 DEF Edits, Watches, BeginNext, BeginDue, Begin, JobSteps, Processes,
                  Others, worker
    <3>. QED BY <1>6, <3>1, <3>2, <3>3 DEF Next
  <2>. QED BY <1>2, <1>6, <2>1, <2>2 DEF job, CallOK, OneConfigPerCall
<1>. QED BY <1>1, <1>2, <1>3, <1>4, <1>5, <1>6, JobCases DEF ProcessesRun

(* Whenever a new configuration arrives, a call of borg gets the repository and
   the keys of the same one. *)
THEOREM CallHasOneConfig == Spec => []OneConfigPerCall
<1>1. Init => CallOK
  BY DEF Init, CallOK, OneConfigPerCall
<1>2. TypeOK /\ ProcessOK /\ CallOK /\ [Next]_vars => (TypeOK /\ ProcessOK /\ CallOK)'
  BY TypeStep, CallStep
<1>3. CallOK => OneConfigPerCall
  BY DEF CallOK
<1>. QED BY <1>1, <1>2, <1>3, InitType, PTL DEF Spec

-----------------------------------------------------------------------------
(* What a job may say of its backup *)

AtRest ==
  /\ command = "none" /\ left = 0 /\ pipe = 0
  /\ copier = "none" /\ writer = "none" /\ err = "none"

(* Which processes there are at each phase of a job, and what the goroutine that
   copies between them has told. *)
PipelineOK ==
  /\ pc \in {"idle", "pre", "start"} \/ ~Fed => AtRest
  /\ pc \in {"idle", "pre", "start", "location", "env"} => borg = "none"
  /\ borg = "running" => pc = "borg"
  /\ copier = "copying" => err = "none"
  /\ err = "nil" => command = "ok"
  /\ command = "ok" => left = 0
  /\ writer = "closed" => copier = "done"
  /\ Succeeded /\ Fed => EndOfInput

(* What a job knows when it reports, and when it runs what comes after. *)
Reported == pc \in {"complete", "incomplete", "done", "post", "finally"}
ReportOK ==
  /\ pc = "idle" => ~failed
  /\ pc = "outcome" => Succeeded /\ Fed
  /\ CompleteMeansWhole
  /\ Reported /\ ~failed /\ command = "running" => err = "error"
  /\ pc = "incomplete" => err = "error"

LEMMA PipelineSame ==
  ASSUME PipelineOK, UNCHANGED <<pipeline, kind>>,
         pc' \in {"idle", "pre", "start"} => pc \in {"idle", "pre", "start"},
         pc' \in {"idle", "pre", "start", "location", "env"} =>
           pc \in {"idle", "pre", "start", "location", "env"},
         pc = "borg" => pc' = "borg" \/ borg # "running"
  PROVE  PipelineOK'
BY DEF PipelineOK, AtRest, Fed, Succeeded, EndOfInput, pipeline, producer, borgVars

LEMMA RestsOK ==
  ASSUME JobRests
  PROVE  PipelineOK' /\ ReportOK'
BY DEF JobRests, PipelineRests, PipelineOK, AtRest, Succeeded, EndOfInput, ReportOK,
       CompleteMeansWhole, Reported

(* A job begins at rest. *)
LEMMA BegunOK ==
  ASSUME PipelineOK, ReportOK, pc = "idle", pc' \in {"pre", "start", "location"},
         UNCHANGED <<pipeline, failed>>
  PROVE  PipelineOK' /\ ReportOK'
BY DEF PipelineOK, AtRest, Succeeded, EndOfInput, pipeline, producer, borgVars,
       ReportOK, CompleteMeansWhole, Reported

LEMMA ProcessesPipeline ==
  ASSUME TypeOK, PipelineOK, ReportOK, ProcessesRun
  PROVE  PipelineOK' /\ ReportOK'
<1>0. pc # "idle" /\ UNCHANGED <<pc, kind, failed>> /\ Fed' = Fed
  BY DEF ProcessesRun, job, Fed
<1>1. CASE Copy \/ CommandEnds \/ CommandFails \/ CommandWaited \/ CopyFails \/ CloseWriter
  BY <1>0, <1>1, RoomAssumption
     DEF PipelineOK, ReportOK, AtRest, Succeeded, EndOfInput, CompleteMeansWhole,
         Whole, Reported, Copy, CommandEnds, CommandFails, CommandWaited, CopyFails,
         CloseWriter, Gone, borgVars, TypeOK, PipelineTypeOK
<1>2. CASE (Fed /\ BorgReads) \/ BorgEnds(Fed) \/ BorgFails
  BY <1>0, <1>2
     DEF PipelineOK, ReportOK, AtRest, Succeeded, EndOfInput, CompleteMeansWhole,
         Whole, Reported, BorgReads, BorgEnds, BorgFails, BorgExits, producer,
         borgVars, TypeOK, PipelineTypeOK
<1>. QED BY <1>1, <1>2 DEF ProcessesRun, PipelineProceeds, PipelineFails

LEMMA JobPipeline ==
  ASSUME TypeOK, PipelineOK, ReportOK, JobGoesOn
  PROVE  PipelineOK' /\ ReportOK'
<1>1. CASE Done \/ Finally
  <2>1. CASE UNCHANGED <<pipeline, kind, failed>> /\ pc = "done" /\ pc' \in {"post", "finally"}
    BY <2>1, PipelineSame
       DEF ReportOK, CompleteMeansWhole, Reported, pipeline, producer
  <2>. QED BY <1>1, <2>1, RestsOK DEF Done, Finally, Becomes
<1>2. CASE Pre \/ Post \/ Logged \/ ReadLocation
  BY <1>2, PipelineSame
     DEF Pre, Post, Logged, ReadLocation, Phase, Becomes, Fail, ReportOK, PipelineOK,
         CompleteMeansWhole, Reported, AtRest, pipeline, producer
<1>3. CASE StartCommand
  BY <1>3, PipelineSame
     DEF StartCommand, ExecWithOutput, Phase, Becomes, Fail, ReportOK, PipelineOK,
         Succeeded, Fed, CompleteMeansWhole, Reported, AtRest, pipeline, producer,
         borgVars, TypeOK, PipelineTypeOK
<1>4. CASE ReadEnv
  BY <1>4, RoomAssumption
     DEF ReadEnv, BorgStarts, ReportOK, PipelineOK, CompleteMeansWhole, Reported,
         AtRest, Fed, Succeeded, EndOfInput, producer, borgVars
<1>5. CASE Wait
  BY <1>5, RoomAssumption
     DEF Wait, BorgWaited, Exited, Phase, Becomes, ReportOK, PipelineOK, Fed,
         Succeeded, EndOfInput, CompleteMeansWhole, Reported, AtRest, producer,
         borgVars, TypeOK, PipelineTypeOK
<1>6. CASE Parse
  <2>1. PipelineOK'
    BY <1>6, PipelineSame
       DEF Parse, Phase, Becomes, CallFails, pipeline, producer, borgVars
  <2>2. CASE CallFails("parse")
    <3>1. /\ pc' \in {"complete", "done"} /\ failed' = TRUE
          /\ pc' = "complete" => kind' = "ctnrExec"
      BY <2>2 DEF CallFails, Becomes
    <3>. QED BY <2>1, <3>1 DEF ReportOK, CompleteMeansWhole
  <2>3. CASE Succeeded /\ Fed /\ pc' = "outcome"
    BY <1>6, <2>1, <2>3
       DEF Parse, ReportOK, CompleteMeansWhole, Reported, Succeeded, Fed, PipelineOK,
           pipeline, borgVars, Phase, Becomes, CallFails
  <2>4. CASE Succeeded /\ ~Fed /\ pc' \in {"done", "complete"}
    BY <1>6, <2>1, <2>4
       DEF Parse, ReportOK, CompleteMeansWhole, Whole, Reported, Succeeded, Fed,
           PipelineOK, AtRest, pipeline, borgVars, producer, Phase, Becomes, CallFails
  <2>5. CASE Succeeded /\ Phase("parse", IF kind \in {"info", "compact"} THEN "done"
                                      ELSE IF Fed THEN "outcome" ELSE "complete")
    BY <2>3, <2>4, <2>5 DEF Phase, Becomes, Fed, Piped
  <2>. QED BY <1>6, <2>1, <2>2, <2>5 DEF Parse
<1>7. CASE Outcome
  BY <1>7, PipelineSame
     DEF Outcome, ErrorAnswers, Phase, Becomes, ReportOK, PipelineOK,
         CompleteMeansWhole, Whole, Succeeded, Fed, EndOfInput, Reported, pipeline,
         producer, borgVars, TypeOK, PipelineTypeOK
<1>. QED BY <1>1, <1>2, <1>3, <1>4, <1>5, <1>6, <1>7 DEF JobGoesOn

LEMMA ReportStep ==
  ASSUME TypeOK, ProcessOK, PipelineOK, ReportOK, [Next]_vars
  PROVE  PipelineOK' /\ ReportOK'
<1>1. CASE UNCHANGED <<pipeline, job>>
  BY <1>1 DEF job, pipeline, producer, borgVars, PipelineOK, AtRest, Fed, Succeeded,
              EndOfInput, ReportOK, CompleteMeansWhole, Whole, Reported
<1>2. CASE BeginsInfo
  BY <1>2, BegunOK DEF BeginsInfo, ProcessOK
<1>3. CASE BeginNext \/ BeginDue
  <2>1. /\ pc = "idle" /\ pc' \in {"pre", "location", "start"}
        /\ UNCHANGED <<pipeline, failed>>
    BY <1>3, NextJob, BeginType DEF Begin
  <2>. QED BY <2>1, BegunOK
<1>. QED BY <1>1, <1>2, <1>3, JobCases, RestsOK, JobPipeline, ProcessesPipeline DEF vars

LEMMA ReportInvariant == Spec => [](TypeOK /\ PipelineOK /\ ReportOK)
<1>1. Init => PipelineOK /\ ReportOK
  BY DEF Init, PipelineInit, PipelineOK, AtRest, Succeeded, EndOfInput, ReportOK,
         CompleteMeansWhole, Reported
<1>2. /\ TypeOK /\ ProcessOK /\ PipelineOK /\ ReportOK /\ [Next]_vars
        => (TypeOK /\ ProcessOK /\ PipelineOK /\ ReportOK)'
  BY TypeStep, ReportStep
<1>. QED BY <1>1, <1>2, InitType, PTL DEF Spec

(* A backup that is reported as complete is whole: borg has read to the end what
   a command wrote that succeeded. *)
THEOREM CompleteIsWhole == Spec => []CompleteMeansWhole
<1>1. ReportOK => CompleteMeansWhole
  BY DEF ReportOK
<1>. QED BY <1>1, ReportInvariant, PTL

(* The commands after a static backup run when its borg no longer does; nor does
   the command it backed up, but for a backup that has failed. *)
THEOREM FinallyComesLast == Spec => []FinallyIsLast
<1>1. PipelineOK /\ ReportOK => FinallyIsLast
  BY DEF PipelineOK, ReportOK, FinallyIsLast, Reported
<1>. QED BY <1>1, ReportInvariant, PTL

-----------------------------------------------------------------------------
(* The configuration in use is the one in the file *)

HasOp(q, op) == \E k \in DOMAIN q : q[k].op = op

LEMMA ConcatHas ==
  ASSUME NEW q \in Seq(Event), NEW r \in Seq(Event), NEW op
  PROVE  HasOp(q \o r, op) <=> HasOp(q, op) \/ HasOp(r, op)
<1>1. /\ DOMAIN (q \o r) = 1..(Len(q) + Len(r))
      /\ DOMAIN q = 1..Len(q) /\ DOMAIN r = 1..Len(r)
      /\ Len(q) \in Nat /\ Len(r) \in Nat
  OBVIOUS
<1>2. ASSUME HasOp(q \o r, op) PROVE HasOp(q, op) \/ HasOp(r, op)
  <2>1. PICK k \in 1..(Len(q) + Len(r)) : (q \o r)[k].op = op
    BY <1>1, <1>2 DEF HasOp
  <2>2. CASE k <= Len(q)
    <3>1. k \in 1..Len(q) /\ (q \o r)[k] = q[k]
      BY <1>1, <2>1, <2>2
    <3>. QED BY <1>1, <2>1, <3>1 DEF HasOp
  <2>3. CASE k > Len(q)
    <3>1. k - Len(q) \in 1..Len(r) /\ (q \o r)[k] = r[k - Len(q)]
      BY <1>1, <2>1, <2>3
    <3>. QED BY <1>1, <2>1, <3>1 DEF HasOp
  <2>. QED BY <1>1, <2>1, <2>2, <2>3
<1>3. ASSUME HasOp(q, op) PROVE HasOp(q \o r, op)
  <2>1. PICK k \in 1..Len(q) : q[k].op = op
    BY <1>1, <1>3 DEF HasOp
  <2>2. k \in 1..(Len(q) + Len(r)) /\ (q \o r)[k] = q[k]
    BY <1>1, <2>1
  <2>. QED BY <1>1, <2>1, <2>2 DEF HasOp
<1>4. ASSUME HasOp(r, op) PROVE HasOp(q \o r, op)
  <2>1. PICK k \in 1..Len(r) : r[k].op = op
    BY <1>1, <1>4 DEF HasOp
  <2>2. k + Len(q) \in 1..(Len(q) + Len(r)) /\ (q \o r)[k + Len(q)] = r[k]
    BY <1>1, <2>1
  <2>. QED BY <1>1, <2>1, <2>2 DEF HasOp
<1>. QED BY <1>2, <1>3, <1>4

LEMMA TailHas ==
  ASSUME NEW q \in Seq(Event), q # <<>>, NEW op, Head(q).op # op
  PROVE  HasOp(Tail(q), op) <=> HasOp(q, op)
<1>1. /\ DOMAIN q = 1..Len(q) /\ DOMAIN Tail(q) = 1..(Len(q) - 1)
      /\ Len(q) \in Nat /\ q[1] = Head(q)
      /\ \A k \in 1..(Len(q) - 1) : Tail(q)[k] = q[k + 1]
  OBVIOUS
<1>2. ASSUME HasOp(q, op) PROVE HasOp(Tail(q), op)
  <2>1. PICK k \in 1..Len(q) : q[k].op = op
    BY <1>1, <1>2 DEF HasOp
  <2>2. k - 1 \in 1..(Len(q) - 1) /\ (k - 1) + 1 = k
    BY <1>1, <2>1
  <2>3. Tail(q)[k - 1].op = op
    BY <1>1, <2>1, <2>2
  <2>. QED BY <1>1, <2>2, <2>3 DEF HasOp
<1>3. ASSUME HasOp(Tail(q), op) PROVE HasOp(q, op)
  <2>1. PICK k \in 1..(Len(q) - 1) : Tail(q)[k].op = op
    BY <1>1, <1>3 DEF HasOp
  <2>2. k + 1 \in 1..Len(q) /\ q[k + 1].op = op
    BY <1>1, <2>1
  <2>. QED BY <1>1, <2>2 DEF HasOp
<1>. QED BY <1>2, <1>3

LEMMA ReportHas ==
  ASSUME events \in Seq(Event), NEW op \in {"write", "touch", "remove"}, NEW S,
         Report(By(op, S)), NEW o
  PROVE  /\ HasOp(events, o) => HasOp(events', o)
         /\ o = op /\ S \cap {"file", "dir"} # {} => HasOp(events', o)
         /\ HasOp(events', o) => HasOp(events, o) \/ o = op
<1>. DEFINE d == IF "dir" \in S THEN <<[op |-> op, by |-> "dir"]>> ELSE <<>>
            f == IF "file" \in S THEN <<[op |-> op, by |-> "file"]>> ELSE <<>>
<1>1. /\ d \in Seq(Event) /\ f \in Seq(Event)
      /\ HasOp(d, o) <=> "dir" \in S /\ o = op
      /\ HasOp(f, o) <=> "file" \in S /\ o = op
  <2>1. [op |-> op, by |-> "dir"] \in Event /\ [op |-> op, by |-> "file"] \in Event
    BY DEF Event
  <2>2. d \in Seq(Event) /\ f \in Seq(Event)
    BY <2>1
  <2>3. HasOp(d, o) <=> "dir" \in S /\ o = op
    BY DEF HasOp
  <2>4. HasOp(f, o) <=> "file" \in S /\ o = op
    BY DEF HasOp
  <2>. QED BY <2>2, <2>3, <2>4
<1>2. events' = events \o (d \o f)
  BY DEF Report, By
<1>. HIDE DEF d, f
<1>3. HasOp(d \o f, o) <=> HasOp(d, o) \/ HasOp(f, o)
  BY <1>1, ConcatHas
<1>4. d \o f \in Seq(Event)
  BY <1>1
<1>5. HasOp(events', o) <=> HasOp(events, o) \/ HasOp(d \o f, o)
  BY <1>2, <1>4, ConcatHas
<1>. QED BY <1>1, <1>3, <1>5

(* Where nothing is watched, the goroutine is about to learn of it, or what the
   file says now was written unseen. *)
WatchedOK ==
  /\ step = "off" => watched = {}
  /\ step # "off" /\ watched = {} =>
       \/ unseen \/ HasOp(events, "remove")
       \/ step \in {"rewatch", "fail"} \/ file = Absent

(* What the worker will use, unless it hears of something newer: it does when a
   write is among the events, or is being handled. *)
Newest ==
  IF step = "send" THEN offer ELSE IF task = "select" THEN config ELSE update
Pending == step \in {"rewatch", "load", "fail"} \/ HasOp(events, "write")
NewestOK == proc # "off" /\ Loads /\ ~unseen /\ ~Pending => Newest = file

ScheduleOf(c) == IF c \in Compacting THEN c ELSE Nil
ScheduledOK ==
  /\ task \in {"compaction", "statics"} => config = update
  /\ proc \notin {"off", "loaded"} /\ task = "select" =>
       compaction = ScheduleOf(config)
  /\ task = "statics" => compaction = ScheduleOf(update)

(* What is written to the file is reported, or it is unseen. *)
LEMMA EditWatched ==
  ASSUME TypeOK, WatchedOK, Edit, UNCHANGED goroutine
  PROVE  /\ WatchedOK'
         /\ \/ ~Loads' \/ unseen' \/ Pending'
            \/ UNCHANGED <<file, unseen>> /\ (Pending => Pending')
<1>0. /\ UNCHANGED <<step, parent, removed, offer>>
      /\ watched \subseteq {"file", "dir"} /\ events \in Seq(Event)
      /\ Absent \notin Loadable /\ Blank # Absent /\ Bad # Absent
  BY ContentsAssumption DEF goroutine, TypeOK, WatchTypeOK, Loadable
<1>1. CASE Truncate \/ Fill
  <2>0. file # Absent /\ UNCHANGED watched /\ Report(By("write", watched))
        /\ unseen' = (watched = {} /\ (unseen \/ Unnoticed))
    BY <1>0, <1>1 DEF Truncate, Fill, Written
  <2>1. CASE watched # {}
    <3>1. HasOp(events', "write")
      BY <1>0, <2>0, <2>1, ReportHas
    <3>. QED BY <1>0, <2>0, <2>1, <3>1 DEF WatchedOK, Pending
  <2>2. CASE watched = {}
    <3>1. step \in {"rewatch", "fail"} \/ unseen'
      BY <1>0, <2>0, <2>2 DEF WatchedOK, Unnoticed, HasOp
    <3>. QED BY <1>0, <2>0, <2>2, <3>1 DEF WatchedOK, Pending
  <2>. QED BY <2>1, <2>2
<1>2. CASE Create \/ Replace
  BY <1>0, <1>2 DEF Create, Replace, WatchedOK
<1>3. CASE Remove \/ MoveAway
  BY <1>0, <1>3 DEF Remove, MoveAway, WatchedOK, Loads
<1>4. CASE Sibling
  <2>1. PICK op \in {"touch", "remove"} : Report(By(op, {"dir"}))
    BY <1>4 DEF Sibling
  <2>2. HasOp(events, "write") => HasOp(events', "write")
    BY <1>0, <2>1, ReportHas
  <2>. QED BY <1>0, <1>4, <2>2 DEF Sibling, WatchedOK, Pending
<1>. QED BY <1>1, <1>2, <1>3, <1>4 DEF Edit

LEMMA StepWatched ==
  ASSUME TypeOK, WatchedOK, WatchSteps
  PROVE  /\ WatchedOK' /\ UNCHANGED <<file, unseen>>
         /\ \/ ~Loads \/ Pending'
            \/ step' = "send" /\ offer' = file
            \/ /\ step = "select" /\ step' = "select" /\ offer' = offer
               /\ ~Pending
<1>0. events \in Seq(Event)
  BY DEF TypeOK, WatchTypeOK
<1>1. \A op, o : Taking(op) /\ o # op => (HasOp(Tail(events), o) <=> HasOp(events, o))
  BY <1>0, TailHas DEF Taking
<1>2. CASE TakeRemove
  <2>1. step = "select" /\ (HasOp(events', "write") <=> HasOp(events, "write"))
    BY <1>1, <1>2 DEF TakeRemove, Taking
  <2>. QED BY <1>2, <2>1 DEF TakeRemove, Goto, WatchedOK, Pending
<1>3. CASE TakeTouch
  <2>1. step = "select" /\ (HasOp(events', "write") <=> HasOp(events, "write"))
        /\ (HasOp(events', "remove") <=> HasOp(events, "remove"))
    BY <1>1, <1>3 DEF TakeTouch, Taking
  <2>. QED BY <1>3, <2>1 DEF TakeTouch, WatchedOK, Pending
<1>4. CASE TakeWrite
  <2>1. CASE parent
    BY <1>4, <2>1 DEF TakeWrite, Goto, WatchedOK, Pending
  <2>2. CASE ~parent
    <3>1. step = "select" /\ (HasOp(events', "remove") <=> HasOp(events, "remove"))
      BY <1>1, <1>4, <2>2 DEF TakeWrite, Taking
    <3>. QED BY <1>4, <2>2, <3>1 DEF TakeWrite, Goto, WatchedOK, Pending
  <2>. QED BY <2>1, <2>2
<1>5. CASE Rewatch
  BY <1>5 DEF Rewatch, Goto, WatchedOK, Pending
<1>6. CASE Load
  BY <1>6 DEF Load, Goto, external, WatchedOK, Pending
<1>7. CASE Timeout
  BY <1>7 DEF Timeout, Goto, external, WatchedOK, Pending
<1>. QED BY <1>2, <1>3, <1>4, <1>5, <1>6, <1>7 DEF WatchSteps

LEMMA WatchedStep ==
  ASSUME TypeOK, ProcessOK, WatchedOK, Next
  PROVE  WatchedOK'
<1>1. CASE UNCHANGED configWatch
  BY <1>1 DEF configWatch, external, goroutine, WatchedOK
<1>2. CASE WatchEndsOnly \/ (proc = "off" /\ WatchSeen) \/ NewWatch \/ Sent
  BY <1>2 DEF WatchEndsOnly, WatchEnds, WatchSeen, NewWatch, Sent, Goto, external,
              goroutine, ProcessOK, WatchedOK
<1>. QED BY <1>1, <1>2, WatchCases, EditWatched, StepWatched

LEMMA EndsCurrent ==
  ASSUME Ends
  PROVE  NewestOK' /\ ScheduledOK'
BY DEF Ends, NewestOK, ScheduledOK

LEMMA NewestStep ==
  ASSUME TypeOK, ProcessOK, WatchedOK, NewestOK, ScheduledOK, Next
  PROVE  NewestOK'
<1>1. CASE Start
  BY <1>1 DEF Start, ProcessOK, goroutine, NewestOK, Newest
<1>2. CASE Edits
  <2>1. UNCHANGED <<step, offer, task, config, update, proc>>
    BY <1>2 DEF Edits, goroutine, process, worker
  <2>2. \/ ~Loads' \/ unseen' \/ Pending'
        \/ UNCHANGED <<file, unseen>> /\ (Pending => Pending')
    BY <1>2, EditWatched DEF Edits
  <2>. QED BY <2>1, <2>2 DEF NewestOK, Newest, Loads
<1>3. CASE Watches
  <2>1. UNCHANGED <<task, config, update, proc>>
    BY <1>3 DEF Watches, process, worker
  <2>2. /\ UNCHANGED <<file, unseen>>
        /\ \/ ~Loads \/ Pending'
           \/ step' = "send" /\ offer' = file
           \/ /\ step = "select" /\ step' = "select" /\ offer' = offer
              /\ ~Pending
    BY <1>3, StepWatched DEF Watches
  <2>. QED BY <2>1, <2>2 DEF NewestOK, Newest, Loads
<1>4. CASE Receive
  BY <1>4 DEF Receive, Sent, external, process, NewestOK, Newest, Loads, Pending
<1>5. CASE SetConfig \/ RescheduleCompaction \/ RescheduleStatics
  BY <1>5, EndsCurrent
     DEF SetConfig, RescheduleCompaction, RescheduleStatics, configWatch, external,
         goroutine, process, ScheduledOK, NewestOK, Newest, Loads, Pending
<1>6. CASE UNCHANGED <<configWatch, worker>> /\ proc # "off"
  BY <1>6 DEF configWatch, external, goroutine, worker, NewestOK, Newest, Loads, Pending
<1>7. CASE ScheduleAll
  BY <1>7 DEF ScheduleAll, configWatch, external, goroutine, NewestOK, Newest, Loads,
              Pending
<1>8. CASE Starting /\ ~ScheduleAll
  <2>1. CASE NewWatch /\ UNCHANGED worker /\ proc = "checked"
    BY <2>1 DEF NewWatch, Goto, ProcessOK, worker, NewestOK, Newest, Loads, Pending
  <2>. QED BY <1>6, <1>8, <2>1, EndsCurrent
           DEF ProcessOK, Starting, InfoDone, DryRun, RunOnce, OnceDone, Run, StartScheduler
<1>9. CASE \/ BeginNext \/ BeginDue \/ JobSteps
           \/ Processes(PipelineProceeds(Fed)) \/ Processes(PipelineFails)
  <2>1. UNCHANGED <<configWatch, worker, process>>
    BY <1>9 DEF BeginNext, BeginDue, Begin, JobSteps, Processes, Others
  <2>. QED BY <1>6, <2>1 DEF process, NewestOK
<1>. QED BY <1>1, <1>2, <1>3, <1>4, <1>5, <1>7, <1>8, <1>9, EndsCurrent
         DEF Next, WorkerSteps, WatchFails, Killed

LEMMA ScheduledStep ==
  ASSUME TypeOK, ProcessOK, ScheduledOK, Next
  PROVE  ScheduledOK'
<1>1. CASE Start \/ ScheduleAll
  BY <1>1 DEF Start, ScheduleAll, ScheduleRepoCompaction, ScheduleOf, ProcessOK,
              ScheduledOK
<1>2. CASE Starting /\ ~ScheduleAll
  BY <1>2, EndsCurrent
     DEF Starting, InfoDone, DryRun, RunOnce, OnceDone, Run, StartScheduler, worker,
         ProcessOK, ScheduledOK
<1>3. CASE WorkerSteps
  BY <1>3, EndsCurrent
     DEF WorkerSteps, Receive, SetConfig, RescheduleCompaction, RescheduleStatics,
         WatchFails, ScheduleRepoCompaction, ScheduleOf, process, ProcessOK,
         ScheduledOK
<1>4. CASE \/ Edits \/ Watches \/ BeginNext \/ BeginDue \/ JobSteps
           \/ Processes(PipelineProceeds(Fed)) \/ Processes(PipelineFails)
  <2>1. UNCHANGED <<process, worker>>
    BY <1>4 DEF Edits, Watches, BeginNext, BeginDue, Begin, JobSteps, Processes, Others
  <2>. QED BY <2>1 DEF process, worker, ScheduledOK
<1>. QED BY <1>1, <1>2, <1>3, <1>4, EndsCurrent DEF Next, Killed

(* Once all events are handled borgd uses what the file says, however it was
   edited, replaced and watched in between; unless it was written where no watch
   could see it. *)
THEOREM FileIsInEffect == Spec => []ConfigIsCurrent
<1>. DEFINE CurrentOK == WatchedOK /\ NewestOK /\ ScheduledOK
<1>1. Init => CurrentOK
  BY DEF Init, WatchInit, WatchedOK, NewestOK, ScheduledOK
<1>2. TypeOK /\ ProcessOK /\ CurrentOK /\ [Next]_vars
        => (TypeOK /\ ProcessOK /\ CurrentOK)'
  <2>1. ASSUME UNCHANGED vars, CurrentOK PROVE CurrentOK'
    BY <2>1 DEF vars, configWatch, external, goroutine, process, worker, WatchedOK,
                NewestOK, Newest, Pending, Loads, ScheduledOK
  <2>. QED BY <2>1, TypeStep, WatchedStep, NewestStep, ScheduledStep
<1>3. CurrentOK => ConfigIsCurrent
  <2>1. events = <<>> => ~HasOp(events, "write")
    BY DEF HasOp
  <2>. QED BY <2>1 DEF NewestOK, Newest, Pending, ScheduledOK, ScheduleOf,
                       ConfigIsCurrent, Settled
<1>. HIDE DEF CurrentOK
<1>. QED BY <1>1, <1>2, <1>3, InitType, PTL DEF Spec
=============================================================================
