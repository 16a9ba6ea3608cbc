------------------------------- MODULE Drone -------------------------------
(***************************************************************************)
(* The borgd process: its start (cmd/drone/main.go), the worker's loop     *)
(* over new configurations, and the jobs that call borg: compaction, the   *)
(* static backups, and what the jobs of containers ask of borg.  With      *)
(* --once all jobs run one after the other and the process ends; as a      *)
(* daemon it runs them when they are due, while the configuration they     *)
(* read may be exchanged.  (ContainerJob has the rest of a container's     *)
(* job, and the worker's other watch.)                                     *)
(***************************************************************************)
EXTENDS ConfigWatch, Pipeline

CONSTANTS
  Compacting,   \* the configurations that schedule a compaction
  Backups,      \* the static backups of each configuration
  Containers,   \* what containers there may be to back up, see Kind
  Modes         \* how borgd is started: "once", "daemon", "dryRun"

(* What a job does: static backups of paths, of what a command has written to
   paths, and of its output; and the same three for containers. *)
Static == {"paths", "exec", "output"}
OfContainer == {"volumes", "ctnrExec", "ctnrOutput"}
Kind == Static \cup OfContainer \cup {"info", "compact"}

ASSUME ConfigAssumption ==
  /\ Compacting \subseteq Config
  /\ Backups \in [Config -> Seq(Static)]
  /\ Containers \subseteq Seq(OfContainer)

VARIABLES
  mode, proc,   \* of borgd; proc: how far it has come
  config,       \* the borg client's configuration
  compaction,   \* the scheduler's entry for the compaction: whose schedule it has
  statics,      \* the scheduler's entries for static backups
  task, update, \* of the worker: what it does next with a new configuration
  queue,        \* what RunOnce has still to run
  pc, kind,     \* of the job in progress
  failed,       \* its err
  location, env \* whose repository, and whose keys, the call of borg is given

process == <<mode, proc>>
worker  == <<config, compaction, statics, task, update>>
job     == <<pc, kind, failed, location, env>>
vars    == <<configWatch, pipeline, process, worker, queue, job>>

Piped == {"output", "ctnrOutput"}
Fed == kind \in Piped
BackupsOf(c) == IF c = Blank THEN <<>> ELSE Backups[c]

-----------------------------------------------------------------------------
(* The process *)

JobRests ==
  /\ pc' = "idle" /\ kind' = Nil /\ failed' = FALSE
  /\ location' = Nil /\ env' = Nil
  /\ PipelineRests

(* It returns from main, gives up, or panics; something may start it again. *)
Ends ==
  /\ mode' = Nil /\ proc' = "off" /\ queue' = <<>>
  /\ config' = Nil /\ compaction' = Nil /\ statics' = <<>>
  /\ task' = "select" /\ update' = Nil
  /\ JobRests /\ WatchEnds

Killed == proc # "off" /\ Ends /\ UNCHANGED <<file, unseen>>

(* LoadConfig and NewClient, which asks borg for its version. *)
Start ==
  /\ proc = "off" /\ Loads
  /\ mode' \in Modes /\ proc' = "loaded"
  /\ config' = file /\ unseen' = FALSE
  /\ UNCHANGED <<file, watched, events, goroutine, pipeline, compaction, statics,
                 task, update, queue, job>>

(* Mutation: what has no schedule is scheduled as well. *)
ScheduleAlways(c) == compaction' = c
ScheduleRepoCompaction(c) == compaction' = IF c \in Compacting THEN c ELSE Nil
ScheduleStaticBackups(c) == statics' = BackupsOf(c)

ScheduleAll ==
  /\ proc = "loaded" /\ proc' = "info"
  /\ ScheduleRepoCompaction(config) /\ ScheduleStaticBackups(config)
  /\ pc' = "location" /\ kind' = "info"
  /\ UNCHANGED <<configWatch, pipeline, mode, config, task, update, queue,
                 failed, location, env>>

(* Whatever is wrong ends the process: errors.As panics when it is given the
   address of an api.Error, for only *api.Error is an error.  So a repository
   that is missing is not initialized either. *)
InfoDone ==
  /\ kind = "info" /\ pc = "done"
  /\ IF failed THEN Ends /\ UNCHANGED <<file, unseen>>
     ELSE /\ proc' = "checked" /\ JobRests
          /\ UNCHANGED <<configWatch, mode, worker, queue>>

DryRun ==
  /\ proc = "checked" /\ mode = "dryRun"
  /\ Ends /\ UNCHANGED <<file, unseen>>

(* RunOnce goes through the entries of the scheduler in their order, and then
   compacts. *)
RunOnce ==
  /\ proc = "checked" /\ mode = "once" /\ proc' = "once"
  /\ \E ctnrs \in Containers :
       queue' = (IF compaction = Nil THEN <<>> ELSE <<"compact">>)
                  \o statics \o ctnrs \o <<"compact">>
  /\ UNCHANGED <<configWatch, pipeline, mode, worker, job>>

OnceDone ==
  /\ proc = "once" /\ queue = <<>> /\ pc = "idle"
  /\ Ends /\ UNCHANGED <<file, unseen>>

Run ==
  /\ proc = "checked" /\ mode = "daemon"
  /\ \/ NewWatch /\ proc' = "watching"
        /\ UNCHANGED <<pipeline, mode, worker, queue, job>>
     \/ file = Absent /\ Ends /\ UNCHANGED <<file, unseen>>

(* The schedule of a static backup is nil, which is a panic of the scheduler
   when it runs. *)
StartScheduler ==
  /\ proc = "watching"
  /\ IF statics # <<>> THEN Ends /\ UNCHANGED <<file, unseen>>
     ELSE proc' = "daemon"
          /\ UNCHANGED <<configWatch, pipeline, mode, worker, queue, job>>

-----------------------------------------------------------------------------
(* The worker's loop *)

Receive ==
  /\ proc = "daemon" /\ task = "select"
  /\ Sent /\ update' = offer /\ task' = "config"
  /\ UNCHANGED <<pipeline, process, config, compaction, statics, queue, job>>

(* The client's lock is held while a call reads the configuration.  Mutation:
   it is not. *)
NotLocked == FALSE
ConfigLocked == pc = "env"

SetConfig ==
  /\ task = "config" /\ ~ConfigLocked
  /\ config' = update /\ task' = "compaction"
  /\ UNCHANGED <<configWatch, pipeline, process, compaction, statics, update, queue, job>>

(* Mutation: an entry is only replaced by another. *)
RescheduleKeeping ==
  /\ task = "compaction" /\ task' = "statics"
  /\ compaction' = IF update \in Compacting THEN update ELSE compaction
  /\ UNCHANGED <<configWatch, pipeline, process, config, statics, update, queue, job>>
RescheduleCompaction ==
  /\ task = "compaction" /\ task' = "statics"
  /\ ScheduleRepoCompaction(update)
  /\ UNCHANGED <<configWatch, pipeline, process, config, statics, update, queue, job>>

RescheduleStatics ==
  /\ task = "statics"
  /\ IF BackupsOf(update) # <<>> THEN Ends /\ UNCHANGED <<file, unseen>>
     ELSE /\ ScheduleStaticBackups(update)
          /\ task' = "select" /\ update' = Nil
          /\ UNCHANGED <<configWatch, pipeline, process, config, compaction, queue, job>>

(* An error of the watch ends the worker, and with it the process. *)
WatchFails ==
  /\ proc = "daemon" /\ task = "select" /\ step = "fail"
  /\ Ends /\ UNCHANGED <<file, unseen>>

WorkerSteps == Receive \/ SetConfig \/ RescheduleCompaction \/ RescheduleStatics \/ WatchFails

-----------------------------------------------------------------------------
(* The jobs, one at a time: with --once they are, and those of a daemon share
   nothing but the configuration. *)

Others == UNCHANGED <<configWatch, process, worker>>
Becomes(phase) == pc' = phase /\ UNCHANGED <<kind, location, env>>
Phase(p, q) == pc = p /\ Becomes(q) /\ UNCHANGED failed

Begin(k) ==
  /\ pc = "idle" /\ kind' = k
  /\ pc' = CASE k \in Static -> "pre"
             [] k \in {"volumes", "compact"} -> "location"
             [] k \in {"ctnrExec", "ctnrOutput"} -> "start"
  /\ UNCHANGED <<failed, location, env, pipeline>> /\ Others

BeginNext == proc = "once" /\ queue # <<>> /\ Begin(Head(queue)) /\ queue' = Tail(queue)
BeginDue ==
  /\ proc = "daemon"
  /\ \/ compaction # Nil /\ Begin("compact")
     \/ \E ctnrs \in Containers : ctnrs # <<>> /\ Begin("volumes")
  /\ UNCHANGED queue

(* Done with the call of borg and what led to it.  A job that has backed up what
   a command wrote in a container goes on when the call has failed. *)
Fail(p) == pc = p /\ Becomes("done") /\ failed' = TRUE
CallFails(p) ==
  /\ pc = p /\ failed' = TRUE
  /\ Becomes(IF kind = "ctnrExec" THEN "complete" ELSE "done")

Pre ==
  \/ /\ Phase("pre", IF kind = "paths" THEN "location" ELSE "start")
     /\ UNCHANGED pipeline
  \/ Fail("pre") /\ UNCHANGED pipeline

(* A command that is waited for, or one whose output goes to borg. *)
StartCommand ==
  \/ Fail("start") /\ UNCHANGED pipeline
  \/ /\ Phase("start", "location")
     /\ IF Fed THEN ExecWithOutput /\ UNCHANGED borgVars ELSE UNCHANGED pipeline

(* What a call is given is read in two steps, under the lock. *)
ReadLocation ==
  /\ pc = "location" /\ pc' = "env" /\ location' = config
  /\ UNCHANGED <<kind, failed, env, pipeline>>

ReadEnv ==
  /\ env' = config
  /\ \/ pc = "env" /\ pc' = "borg" /\ BorgStarts /\ UNCHANGED failed
     \/ /\ pc = "env" /\ pc' = IF kind = "ctnrExec" THEN "complete" ELSE "done"
        /\ failed' = TRUE /\ UNCHANGED borgVars
  /\ UNCHANGED <<kind, location, producer, pipe>>

Wait ==
  /\ Phase("borg", "parse") /\ BorgWaited(Fed)
  /\ UNCHANGED <<producer, borgVars>>

(* The result of a borg that exited with 0 is read, which may fail. *)
Resultless == kind = "compact"
Parse ==
  /\ ~Unparsable /\ UNCHANGED pipeline
  /\ \/ /\ Succeeded
        /\ Phase("parse", IF kind \in {"info", "compact"} THEN "done"
                         ELSE IF Fed THEN "outcome" ELSE "complete")
     \/ (~Succeeded \/ (borg = "ok" /\ ~Resultless)) /\ CallFails("parse")

(* output.Error waits for the goroutine that copies. *)
Outcome ==
  /\ ErrorAnswers
  /\ Phase("outcome", IF err = "error" THEN "incomplete" ELSE "complete")
  /\ UNCHANGED pipeline

(* It logs "backup complete", after a warning or not. *)
Logged ==
  /\ Phase("complete", "done") \/ Phase("incomplete", "done")
  /\ UNCHANGED pipeline

Done ==
  /\ pc = "done" /\ kind # "info"
  /\ \/ kind \notin Static /\ JobRests
     \/ /\ kind \in Static
        /\ Becomes(IF failed THEN "finally" ELSE "post") /\ UNCHANGED <<failed, pipeline>>

Post == Phase("post", "finally") /\ UNCHANGED pipeline
Finally == pc = "finally" /\ JobRests

JobSteps ==
  /\ \/ Pre \/ StartCommand \/ ReadLocation \/ ReadEnv \/ Wait \/ Parse
     \/ Outcome \/ Logged \/ Done \/ Post \/ Finally
  /\ Others /\ UNCHANGED queue

Processes(steps) == pc # "idle" /\ steps /\ UNCHANGED <<job, queue>> /\ Others

-----------------------------------------------------------------------------

Init ==
  /\ WatchInit /\ PipelineInit
  /\ mode = Nil /\ proc = "off" /\ queue = <<>>
  /\ config = Nil /\ compaction = Nil /\ statics = <<>>
  /\ task = "select" /\ update = Nil
  /\ pc = "idle" /\ kind = Nil /\ failed = FALSE /\ location = Nil /\ env = Nil

(* Once the file is loaded, it matters to a daemon alone. *)
Edits ==
  /\ mode \in {Nil, "daemon"} /\ Edit
  /\ UNCHANGED <<goroutine, pipeline, process, worker, queue, job>>
Watches ==
  /\ WatchSteps
  /\ UNCHANGED <<pipeline, process, worker, queue, job>>

Starting == ScheduleAll \/ InfoDone \/ DryRun \/ RunOnce \/ OnceDone \/ Run \/ StartScheduler

Next ==
  \/ Start \/ Starting \/ Killed \/ Edits \/ Watches \/ WorkerSteps
  \/ BeginNext \/ BeginDue \/ JobSteps
  \/ Processes(PipelineProceeds(Fed)) \/ Processes(PipelineFails)

Spec == Init /\ [][Next]_vars

(* The goroutines are scheduled, and Go's RWMutex lets no writer wait for ever;
   borg reads to the end and exits, and the command writes while there is room:
   nothing has to fail. *)
FairSpec ==
  /\ Spec
  /\ WF_configWatch(Watches) /\ SF_worker(WorkerSteps)
  /\ WF_<<pipeline, process, queue, job>>(
       Starting \/ BeginNext \/ JobSteps \/ Processes(PipelineProceeds(Fed)))

-----------------------------------------------------------------------------
(* Properties *)

(* Every variable stays within what its field can hold; the pipe within its
   room, and the job within the phases of its kind. *)
Phases == {"idle", "pre", "start", "location", "env", "borg", "parse", "outcome",
           "complete", "incomplete", "done", "post", "finally"}
TypeOK ==
  /\ WatchTypeOK /\ PipelineTypeOK
  /\ mode \in Modes \cup {Nil}
  /\ proc \in {"off", "loaded", "info", "checked", "once", "watching", "daemon"}
  /\ config \in Loadable \cup {Nil} /\ compaction \in Compacting \cup {Nil}
  /\ statics \in Seq(Static) /\ queue \in Seq(Kind)
  /\ task \in {"select", "config", "compaction", "statics"}
  /\ update \in Loadable \cup {Nil}
  /\ pc \in Phases /\ kind \in Kind \cup {Nil} /\ failed \in BOOLEAN
  /\ location \in Loadable \cup {Nil} /\ env \in Loadable \cup {Nil}
  /\ pc \in {"pre", "post", "finally"} => kind \in Static

(* Once all events are handled the daemon uses what the file says, borg's calls
   and the schedule of the compaction alike, however the file was removed,
   truncated, written and watched in between; unless it was written where no
   watch could see it (unseen), or put in its place by a rename, which the
   watch of a directory does not take for a change. *)
Settled == proc = "daemon" /\ task = "select" /\ step = "select" /\ events = <<>>
ConfigIsCurrent ==
  Settled /\ Loads /\ ~unseen =>
    /\ config = file
    /\ compaction = IF file \in Compacting THEN file ELSE Nil

(* A call of borg gets repository and keys of the same configuration, whenever
   a new one arrives. *)
OneConfigPerCall == pc \notin {"location", "env"} => location = env

(* A backup is reported as complete, without a warning, only when borg has
   archived the whole output of a command that succeeded; but for the backup of
   what a command wrote in a container, which is always. *)
Whole == Succeeded /\ (Fed => command = "ok" /\ left = 0 /\ EndOfInput)
CompleteMeansWhole == pc = "complete" /\ kind # "ctnrExec" => Whole

(* While the commands after a static backup run, its borg does not, and the
   command it backed up only when the backup had failed or its output had. *)
FinallyIsLast ==
  pc \in {"post", "finally"} =>
    /\ borg # "running"
    /\ command = "running" => failed \/ err = "error"

(* Every job ends, whichever of its processes fails; but for one that parses a
   log whose last line has no end. *)
EveryJobEnds == pc # "idle" ~> pc = "idle" \/ (pc = "parse" /\ Unparsable)

(* What is written to the file comes to be in effect, or borgd ends, unless the
   file changes again first. *)
ConfigConverges ==
  \A c \in Loadable :
    proc = "daemon" /\ file = c /\ ~unseen ~> config = c \/ file # c \/ unseen \/ proc = "off"
=============================================================================
