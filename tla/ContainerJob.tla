---------------------------- MODULE ContainerJob ----------------------------
(***************************************************************************)
(* The backups of one project of containers: the Docker engine and its     *)
(* event stream, the handler of the events, the worker that schedules the  *)
(* project's job, and the runs of that job, which stop and start the       *)
(* containers around their backups.  Handler, worker and runs share one    *)
(* map of the project's containers.                                        *)
(***************************************************************************)
EXTENDS Naturals, Sequences, FiniteSets

CONSTANTS
  Service,  \* the services of the project
  MaxId,    \* bound: how many containers there ever are
  MaxEvents, \* bound: how many events the handler is behind
  Updated,  \* the services whose containers are updated
  Run,      \* the runs of the project's jobs that may be in progress at once
  Labels,   \* what the labels of the services may say, see Label
  Faults,   \* "engine": its calls may fail; "exit": a container may end;
            \* "kill": borgd may
  Nil

Mode == {"default", "offline", "dependentOffline"}
(* source: whether findSourceForInContainerPath finds where the paths of a
   command are on the host ("found", "none"), or panics, as it does for a path
   above the one a volume is mounted at ("above"). *)
Label == [mode : Mode, kind : {"exec", "volumes", "none"}, deps : SUBSET Service,
          source : {"found", "none", "above"}]

ASSUME BoundsAssumption ==
  MaxId \in Nat /\ MaxEvents \in Nat /\ IsFiniteSet(Service)
ASSUME NilAssumption == Nil \notin (1..MaxId) \cup Run
ASSUME LabelsAssumption == Labels \subseteq [Service -> Label]
ASSUME OfflineAssumption ==
  \A l \in Labels : \A s \in Service :
    /\ l[s].mode = "offline" => l[s].kind # "exec"
    /\ l[s].source # "found" => l[s].kind = "exec"

VARIABLES
  labels,      \* of each service
  state,       \* of each container, in the engine
  service,     \* of each container
  stream,      \* events the engine has sent and the handler has not taken
  proc,        \* of borgd: "down", "read" (projects read), "up" (watching)
  containers,  \* the project in the cache: service -> container
  update,      \* what the handler waits to hand over to the worker, and
  task,        \* what the worker schedules: the project in the "cache", or one
               \* "dropped" from it when it was emptied, whose map stays empty
  entry,       \* the job in the scheduler, or Nil
  pc, job,     \* of each run
  (* What an observer remembers. *)
  downBy,      \* the run that stopped a container of its project last, while
               \* the container stays with the project, or Nil
  stirred,     \* per run: the containers others have started, or that came to
               \* light, since the run began its current backup, if it is at one
  missed       \* the services whose newest container the cache may not hold:
               \* there were two at the start, one came or went between reading
               \* and watching, the newest went and an older one stayed, or an
               \* older one was the last to be updated

engine == <<state, service, stream>>
worker == <<proc, containers, update, task, entry>>
runs   == <<pc, job>>
seen   == <<downBy, stirred, missed>>
vars   == <<labels, engine, worker, runs, seen>>

Ids == 1..MaxId
Alive == {i \in Ids : state[i] \in {"exited", "running"}}
Created == {i \in Ids : state[i] # "unborn"}
Of(s) == {i \in Alive : service[i] = s}
Latest(s) == IF Of(s) = {} THEN Nil ELSE CHOOSE i \in Of(s) : \A j \in Of(s) : j <= i

Plan == UNION {[1..n -> Ids] : n \in 0..Cardinality(Service)}
LabelOf(i) == labels[service[i]]
Maps == [Service -> Ids \cup {Nil}]
Empty == [s \in Service |-> Nil]
IdsIn(m) == {m[s] : s \in Service} \ {Nil}
MayFail(f) == f \in Faults

(* live: the run's map is the one in the cache; own: its job is the one in the
   scheduler; short: how many containers of those counted it did not find. *)
Job == [plan : Plan, cur : Ids \cup {Nil}, todo : SUBSET (Ids \cup {Nil}),
        failed : BOOLEAN, live : BOOLEAN, own : BOOLEAN,
        wg : 0..Cardinality(Service), short : 0..Cardinality(Service)]
NoJob == [plan |-> <<>>, cur |-> Nil, todo |-> {}, failed |-> FALSE,
          live |-> FALSE, own |-> FALSE, wg |-> 0, short |-> 0]
Idle(r) == pc[r] = "idle"

(* Others have started the containers in S. *)
Stir(S, others) ==
  stirred' = [r \in Run |-> IF r \in others /\ job[r].cur # Nil
                            THEN stirred[r] \cup S ELSE stirred[r]]

-----------------------------------------------------------------------------
(* The plan of a job *)

NeedsBackup(i) == LabelOf(i).kind # "none"

Less(a, b) ==
  LET rank == [default |-> 1, offline |-> 2, dependentOffline |-> 3]
  IN \/ service[b] \in LabelOf(a).deps
     \/ rank[LabelOf(a).mode] < rank[LabelOf(b).mode]

(* What sorting by Less may give: Less is no order, and of two containers that
   are each less than the other either may come first. *)
Plans(S) ==
  {p \in [1..Cardinality(S) -> S] :
     /\ \A j, k \in DOMAIN p : p[j] = p[k] => j = k
     /\ \A k \in 1..(Cardinality(S) - 1) :
          Less(p[k + 1], p[k]) => Less(p[k], p[k + 1])}

(* No job can be made of a project that depends on a service that it does not
   have, or of a path without a source; the search for a source may panic.  The
   containers are looked at in any order, and each one's paths come first. *)
Refused(m) ==
  \E i \in IdsIn(m) :
    \/ LabelOf(i).source = "none"
    \/ LabelOf(i).source = "found" /\ \E d \in LabelOf(i).deps : m[d] = Nil
Panics(m) == \E i \in IdsIn(m) : LabelOf(i).source = "above"

-----------------------------------------------------------------------------
(* The engine, and those who use it besides borgd *)

(* Events reach borgd while it watches. *)
Emit(ev, i) ==
  /\ Len(stream) < MaxEvents
  /\ stream' = IF proc = "up" THEN Append(stream, [ev |-> ev, id |-> i]) ELSE stream

(* A container is created stopped, and started by whoever created it; a new
   container of a service may come before the old one goes. *)
Create(s) ==
  /\ Cardinality(Created) < MaxId
  /\ LET i == Cardinality(Created) + 1 IN
     /\ state' = [state EXCEPT ![i] = "exited"]
     /\ service' = [service EXCEPT ![i] = s]
     /\ Emit("create", i)
  /\ missed' = CASE proc = "up"   -> missed \ {s}
                 [] proc = "read" -> missed \cup {s}
                 [] proc = "down" -> missed
  /\ UNCHANGED <<labels, worker, runs, downBy, stirred>>

(* docker update, of any of the containers of a service. *)
Update(i) ==
  /\ i \in Alive /\ service[i] \in Updated /\ proc = "up"
  /\ Emit("update", i)
  /\ missed' = IF \A j \in Of(service[i]) : j <= i THEN missed \ {service[i]}
               ELSE missed \cup {service[i]}
  /\ UNCHANGED <<labels, state, service, worker, runs, downBy, stirred>>

Destroy(i) ==
  /\ i \in Alive
  /\ state' = [state EXCEPT ![i] = "gone"]
  /\ downBy' = [downBy EXCEPT ![i] = Nil]
  /\ stirred' = [r \in Run |-> stirred[r] \ {i}]
  /\ Emit("destroy", i)
  /\ LET s == service[i]
         older == proc = "up" /\ i = Latest(s) /\ Of(s) # {i}
     IN missed' = IF proc = "read" \/ older THEN missed \cup {s} ELSE missed
  /\ UNCHANGED <<labels, service, worker, runs>>

Start(i) ==
  /\ state[i] = "exited"
  /\ state' = [state EXCEPT ![i] = "running"]
  /\ downBy' = [downBy EXCEPT ![i] = Nil]
  /\ Stir({i}, Run)
  /\ UNCHANGED <<labels, service, stream, worker, runs, missed>>

Exit(i) ==
  /\ MayFail("exit") /\ state[i] = "running"
  /\ state' = [state EXCEPT ![i] = "exited"]
  /\ UNCHANGED <<labels, service, stream, worker, runs, seen>>

-----------------------------------------------------------------------------
(* The process *)

(* It ends, because it is killed, the event stream breaks off, or a handler
   gives up; the containers stay as they are. *)
Dies ==
  /\ proc' = "down" /\ stream' = <<>>
  /\ containers' = Empty /\ update' = "none" /\ task' = "none" /\ entry' = Nil
  /\ pc' = [r \in Run |-> "idle"] /\ job' = [r \in Run |-> NoJob]
  /\ downBy' = [i \in Ids |-> Nil] /\ stirred' = [r \in Run |-> {}]
  /\ missed' = {}
Killed ==
  MayFail("kill") /\ proc # "down" /\ Dies /\ UNCHANGED <<labels, state, service>>

(* The jobs newContainerProjectBackupJob can make of a project: none, if it is
   empty or refused. *)
Jobs(m) ==
  IF m = Empty \/ Refused(m) THEN {Nil}
  ELSE [plan : Plans({i \in IdsIn(m) : NeedsBackup(i)}), live : {TRUE}]

(* ReadProjects and ScheduleContainerBackups, which end the process when there
   is a project that no job can be made of.  Of the containers of a service the
   one the engine lists last is taken. *)
Boot ==
  /\ proc = "down" /\ proc' = "read"
  /\ \E m \in Maps :
       /\ \A s \in Service :
            m[s] \in IF Of(s) = {} THEN {Nil} ELSE Of(s)
       /\ ~Refused(m) /\ ~Panics(m) /\ entry' \in Jobs(m)
       /\ containers' = m
  /\ missed' = {s \in Service : Cardinality(Of(s)) > 1}
  /\ UNCHANGED <<labels, engine, update, task, runs, downBy, stirred>>

Watch ==
  /\ proc = "read" /\ proc' = "up"
  /\ UNCHANGED <<labels, engine, containers, update, task, entry, runs, seen>>

-----------------------------------------------------------------------------
(* handleEvent.  The send to the worker blocks, so that there is one update at
   most. *)

(* While the worker or a run ranges over the map a write to it is a data race,
   and Go's maps end the process when they notice one. *)
Ranging == task = "cache" \/ \E r \in Run : pc[r] = "range" /\ job[r].live

(* The project is dropped from the cache with its last container: who holds its
   map keeps the empty one. *)
Drop ==
  /\ task' = IF task = "cache" THEN "dropped" ELSE task
  /\ entry' = IF entry = Nil THEN Nil ELSE [entry EXCEPT !.live = FALSE]
  /\ job' = [r \in Run |-> [job[r] EXCEPT !.live = FALSE]]

Write(s, i) ==
  \/ Ranging /\ Dies
  \/ /\ containers' = [containers EXCEPT ![s] = i]
     /\ IF containers' = Empty THEN update' = "dropped" /\ Drop
        ELSE update' = "cache" /\ UNCHANGED <<task, entry, job>>
     /\ Stir({i} \ {Nil}, Run)
     /\ downBy' = [j \in Ids |-> IF j \in IdsIn(containers') THEN downBy[j] ELSE Nil]
     /\ stream' = Tail(stream)
     /\ UNCHANGED <<proc, pc, missed>>

Taking(evs) == stream # <<>> /\ update = "none" /\ Head(stream).ev \in evs

(* Whichever container was created or updated becomes the service's, be it the
   newest or not.  An inspection that fails ends the worker, and with it the
   process. *)
handleContainerUpdated ==
  /\ Taking({"create", "update"})
  /\ LET i == Head(stream).id IN
     \/ i \in Alive /\ Write(service[i], i)
     \/ (i \notin Alive \/ MayFail("engine")) /\ Dies
  /\ UNCHANGED <<labels, state, service>>

(* Mutation: the entry goes whichever container of the service is in it. *)
handleContainerDestroyedByService ==
  /\ Taking({"destroy"})
  /\ LET s == service[Head(stream).id] IN
     \/ containers[s] # Nil /\ Write(s, Nil)
     \/ /\ containers[s] = Nil /\ stream' = Tail(stream)
        /\ UNCHANGED <<worker, runs, seen>>
  /\ UNCHANGED <<labels, state, service>>
handleContainerDestroyed ==
  /\ Taking({"destroy"})
  /\ LET i == Head(stream).id IN
     \/ i \in IdsIn(containers) /\ Write(service[i], Nil)
     \/ /\ i \notin IdsIn(containers) /\ stream' = Tail(stream)
        /\ UNCHANGED <<worker, runs, seen>>
  /\ UNCHANGED <<labels, state, service>>

-----------------------------------------------------------------------------
(* The worker: it takes a project, and replaces the project's job. *)

Receive ==
  /\ update # "none" /\ task = "none"
  /\ task' = update /\ update' = "none"
  /\ UNCHANGED <<labels, engine, proc, containers, entry, runs, seen>>

Replace(jobs) ==
  /\ entry' \in jobs /\ task' = "none"
  /\ job' = [r \in Run |-> [job[r] EXCEPT !.own = FALSE]]
  /\ UNCHANGED <<engine, proc, containers, update, pc, seen>>

scheduleDockerBackup ==
  /\ task # "none"
  /\ LET m == IF task = "cache" THEN containers ELSE Empty IN
     \/ Panics(m) /\ Dies /\ UNCHANGED <<state, service>>
     \/ (Panics(m) => Refused(m)) /\ Replace(Jobs(m))
  /\ UNCHANGED labels

-----------------------------------------------------------------------------
(* A run of a job *)

Map(r) == IF job[r].live THEN containers ELSE Empty
DependenciesByName(r) == LabelOf(job[r].cur).deps
Dependencies(r) == {Map(r)[s] : s \in LabelOf(job[r].cur).deps}
DependentsInPlan(r) ==
  {i \in IdsIn(Map(r)) : NeedsBackup(i) /\ service[job[r].cur] \in LabelOf(i).deps}
Dependents(r) == {i \in IdsIn(Map(r)) : service[job[r].cur] \in LabelOf(i).deps}

Goto(r, phase, j) ==
  /\ pc' = [pc EXCEPT ![r] = phase]
  /\ job' = [job EXCEPT ![r] = j]
Running == UNCHANGED <<labels, service, stream, worker, missed>>
Deciding == UNCHANGED <<labels, engine, worker, seen>>

(* EnsureContainerRunning and EnsureContainerStopped, which find out what they
   have done to the container or fail: there is none, the engine fails, the
   container does not become healthy in time, or the group they belong to was
   cancelled. *)
Ensure(r, i, want, ok) ==
  IF i \in Alive
  THEN /\ ok \/ MayFail("engine") \/ job[r].failed
       /\ \E s \in IF ok THEN {want} ELSE {want, state[i]} :
            /\ state' = [state EXCEPT ![i] = s]
            /\ downBy' = [downBy EXCEPT ![i] =
                 IF s = "exited" /\ state[i] = "running"
                 THEN IF i \in IdsIn(Map(r)) THEN r ELSE Nil
                 ELSE IF s = "running" \/ pc[r] = "restart" THEN Nil ELSE @]
            /\ Stir(IF s = "running" /\ state[i] # s THEN {i} ELSE {}, Run \ {r})
  ELSE ~ok /\ UNCHANGED <<state, downBy, stirred>>

(* cron's SkipIfStillRunning: a job has one run at a time, but one that was
   replaced in the scheduler may still have its last. *)
Begin(r) ==
  /\ Idle(r) /\ proc = "up" /\ entry # Nil
  /\ \A q \in Run : ~job[q].own
  /\ Goto(r, "next", [NoJob EXCEPT !.plan = entry.plan, !.live = entry.live, !.own = TRUE])
  /\ Deciding

Pick(r) ==
  /\ pc[r] = "next" /\ job[r].plan # <<>>
  /\ Goto(r, "self", [job[r] EXCEPT !.cur = Head(job[r].plan), !.plan = Tail(@)])
  /\ stirred' = [stirred EXCEPT ![r] = {}]
  /\ UNCHANGED <<labels, engine, worker, downBy, missed>>

Again(r) == [job[r] EXCEPT !.cur = Nil, !.todo = {}, !.failed = FALSE]
GiveUp(r) == Goto(r, "next", Again(r))
Proceed(r) ==
  Goto(r, IF LabelOf(job[r].cur).kind = "exec" THEN "exec" ELSE "read", job[r])

EnsureSelf(r) ==
  /\ pc[r] = "self"
  /\ LET offline == LabelOf(job[r].cur).mode = "offline" IN
     \E ok \in BOOLEAN :
       /\ Ensure(r, job[r].cur, IF offline THEN "exited" ELSE "running", ok)
       /\ IF ~ok THEN GiveUp(r)
          ELSE IF offline THEN Goto(r, "read", job[r])
          ELSE Goto(r, "dependencies", [job[r] EXCEPT !.todo = Dependencies(r)])
  /\ Running

(* An errgroup: its calls in any order, cancelled when one has failed. *)
Group(r, phase, want) ==
  /\ pc[r] = phase
  /\ \E i \in job[r].todo, ok \in BOOLEAN :
       /\ Ensure(r, i, want, ok)
       /\ Goto(r, phase, [job[r] EXCEPT !.todo = @ \ {i}, !.failed = @ \/ ~ok])
  /\ Running

DependenciesDone(r) ==
  /\ pc[r] = "dependencies" /\ job[r].todo = {}
  /\ IF job[r].failed THEN GiveUp(r)
     ELSE IF LabelOf(job[r].cur).mode = "default" THEN Proceed(r)
     ELSE Goto(r, "dependents", [job[r] EXCEPT !.todo = Dependents(r)])
  /\ Deciding

DependentsDoneRegardless(r) ==
  /\ pc[r] = "dependents" /\ job[r].todo = {}
  /\ Proceed(r) /\ Deciding
DependentsDone(r) ==
  /\ pc[r] = "dependents" /\ job[r].todo = {}
  /\ IF job[r].failed THEN GiveUp(r) ELSE Proceed(r)
  /\ Deciding

(* The command in the container, before or while borg reads. *)
Exec(r) ==
  /\ pc[r] = "exec"
  /\ \/ state[job[r].cur] = "running" /\ Goto(r, "read", job[r])
     \/ (state[job[r].cur] # "running" \/ MayFail("engine")) /\ GiveUp(r)
  /\ Deciding

(* borg has read the volumes or the output, or failed. *)
ReadDone(r) == pc[r] = "read" /\ GiveUp(r) /\ Deciding

(* In the end every container of the project is started: first they are
   counted, then the map is ranged over, then each is started by a goroutine
   that counts down, whether it succeeds or not. *)
Count(r) ==
  /\ pc[r] = "next" /\ job[r].plan = <<>>
  /\ Goto(r, "range", [job[r] EXCEPT !.wg = Cardinality(IdsIn(Map(r)))])
  /\ stirred' = [stirred EXCEPT ![r] = {}]
  /\ UNCHANGED <<labels, engine, worker, downBy, missed>>

(* Mutation: a container whose own backup is online is taken to be up. *)
ToRestartOffline(r) == {i \in IdsIn(Map(r)) : LabelOf(i).mode # "default"}
ToRestart(r) == IdsIn(Map(r))
RangeOver(r) ==
  /\ pc[r] = "range"
  /\ LET n == Cardinality(IdsIn(Map(r)))  wg == job[r].wg
     IN Goto(r, "restart", [job[r] EXCEPT !.todo = ToRestart(r),
                                          !.short = IF n < wg THEN wg - n ELSE 0])
  /\ Deciding

(* A negative counter is a panic, when the container has been seen to. *)
CountedDownIfOk(r, ok) == IF ok THEN job[r].wg - 1 ELSE job[r].wg
CountedDown(r, ok) == job[r].wg - 1
Restart(r) ==
  /\ pc[r] = "restart"
  /\ \E i \in job[r].todo, ok \in BOOLEAN :
       \/ /\ job[r].wg > 0
          /\ Ensure(r, i, "running", ok)
          /\ Goto(r, "restart", [job[r] EXCEPT !.todo = @ \ {i}, !.wg = CountedDown(r, ok)])
          /\ Running
       \/ /\ job[r].wg = 0 /\ Dies
          /\ \/ state' = state
             \/ i \in Alive /\ state' = [state EXCEPT ![i] = "running"]
          /\ UNCHANGED <<labels, service>>

(* The run is over when the counter is 0; of a map that had grown since it was
   counted there are goroutines left. *)
EndUnawaited(r) ==
  /\ pc[r] = "restart"
  /\ Goto(r, "idle", NoJob)
  /\ Deciding
End(r) ==
  /\ pc[r] = "restart" /\ job[r].wg = 0
  /\ \/ job[r].todo = {} /\ Goto(r, "idle", NoJob)
     \/ job[r].todo # {} /\ job[r].own /\ Goto(r, "restart", [job[r] EXCEPT !.own = FALSE])
  /\ Deciding

-----------------------------------------------------------------------------
(* Init: borgd is not running, some containers may be. *)
Init ==
  /\ labels \in Labels
  /\ state = [i \in Ids |-> "unborn"] /\ service = [i \in Ids |-> Nil]
  /\ stream = <<>> /\ proc = "down"
  /\ containers = Empty /\ update = "none" /\ task = "none" /\ entry = Nil
  /\ pc = [r \in Run |-> "idle"] /\ job = [r \in Run |-> NoJob]
  /\ downBy = [i \in Ids |-> Nil] /\ stirred = [r \in Run |-> {}]
  /\ missed = {}

Step(r) ==
  \/ Pick(r) \/ EnsureSelf(r)
  \/ Group(r, "dependencies", "running") \/ DependenciesDone(r)
  \/ Group(r, "dependents", "exited") \/ DependentsDone(r)
  \/ Exec(r) \/ ReadDone(r) \/ Count(r) \/ RangeOver(r) \/ Restart(r) \/ End(r)

Next ==
  \/ \E s \in Service : Create(s)
  \/ \E i \in Ids : Update(i) \/ Destroy(i) \/ Start(i) \/ Exit(i)
  \/ Killed \/ Boot \/ Watch
  \/ handleContainerUpdated \/ handleContainerDestroyed
  \/ Receive \/ scheduleDockerBackup
  \/ \E r \in Run : Begin(r) \/ Step(r)

Spec == Init /\ [][Next]_vars

(* The goroutines of a run are scheduled, and their calls of the engine and of
   borg return; handler and worker are none that a run waits for. *)
FairSpec == Spec /\ \A r \in Run : WF_runs(Step(r))

-----------------------------------------------------------------------------
(* Properties *)

(* Every variable stays within what its field can hold; a run counts down no
   further than it has counted. *)
TypeOK ==
  /\ labels \in Labels
  /\ state \in [Ids -> {"unborn", "exited", "running", "gone"}]
  /\ service \in [Ids -> Service \cup {Nil}]
  /\ \A k \in DOMAIN stream : stream[k] \in [ev : {"create", "update", "destroy"}, id : Ids]
  /\ proc \in {"down", "read", "up"}
  /\ containers \in Maps
  /\ update \in {"none", "cache", "dropped"} /\ task \in {"none", "cache", "dropped"}
  /\ entry \in [plan : Plan, live : BOOLEAN] \cup {Nil}
  /\ pc \in [Run -> {"idle", "next", "self", "dependencies", "dependents",
                     "exec", "read", "range", "restart"}]
  /\ job \in [Run -> Job]
  /\ downBy \in [Ids -> Run \cup {Nil}] /\ stirred \in [Run -> SUBSET Ids]
  /\ missed \subseteq Service

(* While borg reads, what the mode of the container asks to be down is down:
   the container itself, or the dependents the project has; unless somebody
   else, another run for one, started it since this backup began. *)
QuietWhileRead ==
  \A r \in Run : pc[r] = "read" =>
    LET i == job[r].cur
        quiet == CASE LabelOf(i).mode = "offline" -> {i}
                   [] LabelOf(i).mode = "dependentOffline" ->
                          {j \in IdsIn(Map(r)) : service[i] \in LabelOf(j).deps}
                   [] OTHER -> {}
    IN \A j \in quiet : state[j] = "running" => j \in stirred[r]

(* A container of its project that a run has stopped and nobody started since is
   down only until the run ends; but for one the engine failed to start, one that
   left the project, for another of its service, before the run got to starting
   it, and for the death of borgd. *)
WhatWasStoppedRuns == \A i \in Alive : downBy[i] # Nil => ~Idle(downBy[i])

(* When all events are handled the job in the scheduler is the one for the
   containers in the cache, and there is one if there can be; and of each service
   the cache holds the newest container the engine has, unless it was never told
   of it, or told of an older one after it (missed). *)
Settled == proc = "up" /\ stream = <<>> /\ update = "none" /\ task = "none"
EntryIsCurrent ==
  Settled =>
    /\ \A s \in Service \ missed : containers[s] = Latest(s)
    /\ entry \in Jobs(containers)

(* Every run ends, failing calls of the engine or not; one that found fewer
   containers than it had counted waits for ever. *)
EveryRunEnds == \A r \in Run : ~Idle(r) ~> Idle(r) \/ job[r].short > 0
=============================================================================
