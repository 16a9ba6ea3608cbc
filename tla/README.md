# Verification of borg-collective

TLA+ modules, TLC runs and TLAPS proofs about `credstore` (the credential
server under `src/credentials`) and `borgd` (the backup drone under
`src/borg-collective`). Everything here is translated from the Go source;
`PROJECT.json` maps each definition to the lines it stands for.

## 1. Inventory

### credstore and cred (`src/credentials`)

| part | state | operations | what makes it correct |
|---|---|---|---|
| vault (`internal/store/vault`) | on disk: identity, `.version`, `.recovery`, `.recovery.sum`, one metadata and one value file per item, backups of values; in memory: identity key, secret, item map | Unlock, Lock, VerifyPassphrase, SetRecoveryRecipient, CreateItem, SetItemValue, DeleteItem, GetItem, GetItemForPeer | no accepted value is lost; memory and disk agree after any restart; an item is bound to its first reader for good; only the owner's passphrase fills the map; a recovery recipient covers every readable item |
| storage backend (`vault/backend.go`) | the directory | write, read, delete, list | none of its own: it may fail, or be cut short |
| credential service (`internal/store/service`) | none: a handler is a goroutine between calls of the vault | the RPCs of the two gRPC services | an RPC that is answered did what it says, whatever other RPCs do between its calls of the vault |
| gRPC server, listener, certificates (`internal/store/server`, `cert`) | connections, certificate | serve, reload on SIGHUP | not modelled, but for "a panic ends the process" |
| `cred` (`internal/cli`) | the configuration file, the keyring of the desktop, the file of an export | one command per process: prompts, then calls of the store; `configure` and `login` write file and keyring | what is sent to a store was entered for it and belongs together; an export that is on file is a whole one |

Handlers call the vault directly; the vault takes one `sync.RWMutex` for each
call, so two RPCs interact only between calls. The vault touches its files one
by one while it holds the mutex; a crash can fall between two of them or into
one. The hard parts are therefore partial writes and failing writes within one
call, and the interleaving of RPCs between calls. `cred` commands are processes
without a lock between them: each loads the file and the entries of the keyring
and may write them back later, one after the other. The entries of the keyring are
named by the host and the port of the file, which has none for 443 with TLS and
for 80 without.

### borgd (`src/borg-collective`)

| part | state | operations | what makes it correct |
|---|---|---|---|
| worker (`drone/worker/worker.go`) | cron entries per project, static jobs, compaction job | schedule and reschedule on events, run, shut down | each project that can be backed up has one entry, made from its latest state |
| container backup job (`worker/container.go`, `common.go`) | plan, the project's containers (shared with the event handler) | per container: online, offline or dependents-offline backup; restart all | a container is read in the state its mode asks for; what was stopped runs again |
| docker engine (`container/docker`) | cache of projects, event stream | read projects, watch, ensure running/stopped, exec | every event reaches the cache and the worker; waiting ends |
| borg client (`drone/borg`) | configuration under a lock, running borg processes | info, init, create, compact | one configuration per command; every log line is handled |
| configuration (`drone/config`) | the file, its watch | load, watch | the last valid content of the file is used |
| pipelines (`internal/utils`) | a command, the goroutine that copies its output, the pipe to borg | exec, exec with output | the job ends; a backup is called complete only when all output of a command that succeeded is in it |
| static backups and compaction (`worker/static.go`, `worker/borg.go`) | none: a job lives for one run | the commands before, after and at the end; paths, exec, exec with output | their steps in this order whatever fails |
| process (`cmd/drone/main.go`) | mode | start, run once, run as a daemon, dry run | none of its own |

The worker's goroutine receives projects from the docker watch and
configurations from the file watch, and replaces jobs in the cron scheduler,
which runs them in goroutines of their own. The hard parts are the map of
containers that jobs and event handler share, jobs replaced while they run,
and channels closed while somebody sends.

## 2. Plan

Written, in the order of importance: credstore holds the secrets, so it came
first.

1. `Vault`, the vault file by file; `VaultProofs`, its invariants proved.
2. `AtomicVault`, what its callers are promised; `VaultAtomic`, the refinement.
3. `CredService`, RPCs as interleaved processes over `AtomicVault`.
4. `ContainerJob`, the backups of a project of containers: event handler,
   worker and runs against an engine whose calls fail.
5. `ConfigWatch`, the watch of the configuration file; `Pipeline`, one call of
   borg and the command that feeds it; `Drone`, which composes the two with the
   process, the worker's loop and the jobs.
6. `CredCli`, the commands of `cred` over what they share.

7. The proofs: `VaultCrashProofs`, `VaultRefines`, `CredServiceProofs`,
   `ContainerJobProofs`, `DroneProofs`, `CredCliProofs`. Every invariant and
   every action property of the runs is now a theorem.

To come:

8. What `CredService` keeps when file operations fail, stated per failure, so
   that the last three theorems about it need not assume that none does.
9. `ContainerJob` for several projects, whose jobs share nothing but the
   worker, and the inside of `EnsureContainerRunning`.

## 3. The modules

### Vault

One state variable per file (`identity`, `version`, `recovery`, `recoverySum`,
and per item `meta`, `val`, `bak`), one per field of the `Vault` struct
(`identityKey`, `secret`, `loaded`, `items`), and `pc`/`job` for the operation
that holds the mutex: since each operation holds it from beginning to end, one
`pc` is enough. Each file write or removal is a step, so that a crash can fall
between any two. What a write leaves behind:

- it succeeds: the new content;
- it fails (`"err" \in Faults`) or the process dies in it (`"crash" \in
  Faults`): the old content, the new, or a torn file (`Garbled`, or `Short` when
  shorter than the header that the code slices off unchecked).

A value file is a record of the value and of whether it is encrypted for the
recovery recipient. Encryption, HMAC and checksums are what they let a reader
tell: a metadata file verifies or does not, a value matches its checksum or
does not. A read may fail where file operations may. `history` variables say
what clients were told: `acked` the value last stored, `bound` the first
reader, `born`/`gone` the ids created and deleted, `ackedRec` the recipient last
set. Backups have names of their own (the code names them by millisecond).
`Refused` is any operation of a locked vault, and SetItemValue of an empty value.
`BuildVersion` says whether the build's version is above the 0.2.0 that the
upgrade compares with.

### AtomicVault, VaultAtomic

The vault as its callers may see it: an operation takes effect in memory and on
disk at one step, or fails and leaves the item it was about in the old state,
the new one, or unreadable. `VaultAtomic` maps `Vault` to it: the abstract disk
holds the metadata that verifies. `ActsAtomically` is checked as a property.

### CredService

Each RPC is a process with its own `pc`, and makes its calls of the vault, the
actions of `AtomicVault`, one at a time. `lock` is the mutex where a call takes
several steps (Unlock, the binding and reading of an item, the loop of
SetRecoveryRecipient). A panic in a handler ends the process: no interceptor
recovers it (`server/grpc.go:140-164`), and all RPCs in flight end with it.
`ReadVaultItem` overwrites the result of the passphrase check by that of parsing
the id (`service/vault.go:112-125`); the model does what the code does.
A client may send an empty value, which the vault refuses after the item is made.
History: `made`, `removed`, `fresh`, `readers`, and per RPC what was known when it
was called (`seen`) and whether the vault stayed open (`calm`).

### ContainerJob

One project of `borgd`, from the engine to the runs of its job:

- the engine (external): containers of services that are created, updated,
  destroyed, started and end by themselves, and its stream of `create`, `update`
  and `destroy` events. A new container of a service may come before the old one
  goes, and either of the two may be updated.
- `Boot`, `Watch`: `ReadProjects` and the first jobs, then the subscription,
  two steps as in `main.go:84-123`. With two containers of a service the one
  listed last is taken, whichever it is.
- `handleContainerUpdated`, for `create` and `update` alike, and
  `handleContainerDestroyed`: the handlers, which
  write the project's map (`containers`) and hand the project to the worker over
  an unbuffered channel (`update`); `Receive`, `scheduleDockerBackup`: the worker.
- `Begin` to `End`: a run, step by step. `SkipIfStillRunning` is wrapped around
  each job, so that a replaced job may still have its last run while the new
  job has its first. An errgroup is a set of calls still to be made (`todo`).

Go's maps are shared by reference: worker, scheduled job and runs see the
handler's writes, until the project is dropped from the cache with its last
container. `live`, and `"dropped"` for `update` and `task`, say which map they
hold. A write while another goroutine ranges over the map is a data race: the
step then either goes well or ends the process, as Go's runtime does when it
notices. `wg.Add(len(...))` and the `range` after it are two steps, so that they
may disagree: the counter becomes negative, a panic, or the run never ends
(`short`). `wg.Wait` returns when the counter is 0, which may be before the last
of the goroutines that are too many has counted down: the run is then over for
the scheduler, and its goroutines go on (`End`).

A job is made only of a project whose dependencies are all there and whose paths
have a source on the host (`Refused`); `findSourceForInContainerPath` tests the
prefix the other way round, so that a path above the mount point of a volume
slices out of range (`Panics`), which ends the process in `scheduleDockerBackup`.

`EnsureContainerRunning` and `EnsureContainerStopped` are one step: what they
inspect and what they do about it concern one container, and a failing call may
have had its effect or not. The labels of a service do not change, and are
valid. `"kill"` is the process killed, or the event stream broken off, which
ends it too. The observer's variables are `downBy` (who stopped a container,
while it stays in the project's map), `stirred` (what others have started since
the backup of a container began) and `missed` (the services whose newest
container the cache may not hold: there were two when borgd started, one came or
went before it watched, the newest was removed and an older one stayed, or an
older one was the last to be updated). An update of the older of two containers
puts it over the newer one in the cache (`watch.go:195`), and when the older goes
the entry goes with it: `EntryIsCurrent` leaves such a service out until its
newest container is created or updated again.

### ConfigWatch

`file` is what is at the path: nothing, an empty file (valid: a configuration of
nothing), one that does not load, or a configuration. Others (external) truncate,
fill, create, remove, move away and replace it; `watched` and `events` are what
fsnotify watches and has queued. A watch of a file is one of its inode: when the
file goes the goroutine watches the directory until the file is written
(`TakeRemove`, `TakeWrite`, `Rewatch`). `step`, `parent` and `removed` are the
goroutine of `NewWatch` (`watch.go:58-145`), with its half second after a removal
(`Timeout`), and `offer` what it sends over the unbuffered channel. The
observer's `unseen` says that what the file says now was not written before the
eyes of a watch, as after a rename over it, which reaches the watch of a
directory as a creation and is passed over.

### Pipeline

One call of borg: `borg` and its `log`, and, where a command feeds it, the
command with what it has `left` to write, the goroutine that copies
(`copier`), the pipe with its `Room`, its write end (`writer`) and the error the
goroutine leaves on its channel (`err`). `ExecWithOutput` of `exec.go` and of the
engine behave alike and share the actions. Each process may fail at any time.
A borg that exited is waited for only when the goroutine of os/exec that feeds it
has ended too: at the end of the pipe, or when it meets the end of borg
(`BorgWaited`). `parseLogLines` does not get past a last line without a newline.

### Drone

EXTENDS the two above. `proc` follows `main` through its three modes: load,
schedule, `borg info`, then once, as a daemon, or nothing. The scheduler is
`compaction` (whose configuration its entry was made from) and `statics`.
`Receive`, `SetConfig`, `RescheduleCompaction`, `RescheduleStatics` are the case
of the worker's select that takes a configuration, call by call. `pc` and `kind`
are the job in progress, of six kinds of backup, `info` and `compact`; what it
takes from the configuration is read in two steps (`location`, `env`) while
`configLock` is held (`ConfigLocked`). `CallFails` and `Outcome` are where the
kinds differ after a failure. The process ends where the code gives up or
panics: `errors.As` with a target that is no error (`main.go:100`), and a static
backup in a daemon, whose schedule was stored in a copy (`config.go:115`).

One job is in progress at a time: with `--once` they run one after the other, and
those of a daemon share the configuration only, which each reads under the lock.
`ContainerJob` has what jobs of containers do to each other.

### CredCli

Each process runs one command after the other: `Begin` loads file and keyring,
then come the questions (`Asked`), the call (`Request`), and, for `configure` and
`login`, `Store`: truncate the file, set id, secret and passphrase in the
keyring, encode the file (`Truncate` to `Encode`). A command is a record of what
the code of its `Run` does with the shared state: its first step, its questions,
which credentials it takes; since a command loads the configuration once, what
it will send is known from `Begin` on. Each thing that is entered is named by the
number of its login; what is presented to a host can so be traced to where it
was entered. An export lists, reads item by item, and writes its file last.

A store is what the file keeps of its address and what the keys of the keyring
are made of: the name, and the port unless it is the default one (`Host`,
`Kept`). So 443 with TLS and 80 without are one `Host`, whose entries both use.

A keyring may fail at any entry, also when `Begin` reads them one by one
(`Found`); a write may be cut short, and what is then on file may still decode,
without the secret of its credentials (`half`), the credentials, the flags, the
port or some of its digits (`Short`, `CutPorts`); two commands may
write the same file at once (`Over`); a command may be killed anywhere. The
observer's `owner`, `confirmed` and `last` hold for which hosts a login was
entered or carried to by a `configure` that moves, where a user has accepted
clear text, and what a read should present; `marks` the mishaps that a property
names as its excuse. `CredentialsOfHost` excuses none but two commands that write
the file at once: a file that was cut leads to another port of the name, where
nothing may be sent that was not entered for it.

`MCVault`, `MCCredService`, `MCContainerJob`, `MCDrone` and `MCCredCli` give the
constants, the symmetry and the views. A view leaves out the last reply, or the
backups, which no step reads, in runs whose properties do not read them either.
Symmetry is used in runs of safety properties only, but for `ActsAtomically`,
which is about single steps.

## 4. The runs

| run | bounds | shows |
|---|---|---|
| `vault_items` | 1 item, 2 values, 2 peers, 2 passphrases, 1 recipient, failing and cut writes | `NoValueLost`, `PeerBindingDurable`, `OpenedByOwner`, and that the vault implements `AtomicVault` |
| `vault_crash` | 2 items, 2 recipients, cut writes | `MemoryMirrorsDisk`, `DeletedStaysDeleted`, `RecoveryCoversAll`, and the implementation with an item to be left alone |
| `vault_ends` | 1 item, 2 recipients, failing writes | `EveryCallEnds`; `RecoveryChangeAtomic` |
| `vault_failed_unlock` | 1 item, failing writes | violated: an Unlock that failed leaves the vault unlocked |
| `vault_damage` | 1 item, cut writes | violated: a damaged file ends the process |
| `service_safe` | 2 RPCs in flight, 2 items, 2 peers | `CreatedIsComplete`, `DeletedIsGone`, `ListIsComplete`, `OneReader` |
| `service_ends` | 2 RPCs, 1 item, failures and crashes | `NoLeftovers`; `EveryRpcEnds` |
| `service_empty_read` | 2 RPCs, 1 item | violated: reading an item that is still empty ends the process |
| `jobs_safe` | 2 services, 3 containers ever, 2 events waiting, updates of the application's containers, 1 run at a time, failing calls of the engine, death of borgd | `QuietWhileRead`, `WhatWasStoppedRuns`, `EntryIsCurrent` |
| `jobs_overlap` | 2 services, 2 containers ever, 4 events waiting, no updates, 2 runs at a time, all faults | `QuietWhileRead`, `WhatWasStoppedRuns` when runs overlap; `EveryRunEnds` |
| `drone` | 2 configurations, all modes, 2 pieces of output, room for 1, 1 event waiting | `ConfigIsCurrent`, `OneConfigPerCall`, `CompleteMeansWhole`, `FinallyIsLast`; `EveryJobEnds`, `ConfigConverges` |
| `cli` | 1 name with 2 ports, the default and another, 2 processes, 3 commands that write, 2 logins, 1 item, 2 faults, 1 overlap | `PairOfOneLogin`, `CredentialsOfHost`, `ClearTextWasConfirmed`, `LoginIsKept`, `ExportIsWhole` |

Why the bounds are enough. Operations of the vault touch one item, but for
Unlock and SetRecoveryRecipient, which treat items independently: a second item
is what can be confused with the first or left half way through the loop. Two
values tell old from new, two peers the first from another, two recipients the
old from the new. Ids are never used again (the code draws UUIDs), so that a run
over one or two items still goes through any number of operations on them. Two
RPCs in flight show every pair of handlers interleaved; a third would only
repeat what one of the two does between calls. In these modules nothing else is
bounded: no counter grows but the three tries, which are the code's.

`ContainerJob` is bounded by `MaxId`, how many containers there ever are: with
three, both services of a project have one and one of them is replaced, which is
what a project's containers do between two events; with two, a project loses its
last container and comes back. `MaxEvents` bounds how many events the handler is
behind: with two, an event of one container is handled after the next of another
has happened; the engine waits when there are more, which leaves out only longer
delays. `Updated` names the services whose containers are updated, any number of
times. There are any number of starts, ends, deaths of
borgd and runs. Two services are the least with a dependency; the sets of
labels (`Pairs`) are a database dumped while its application is down, a pair
that wants both (and whose modes contradict the dependency, so that the plan has
either order), an application backed up online over a database backed up
offline, one beside a database whose paths have no source, and one whose own
paths make the search panic. Two runs are what a replaced job and its successor
have.

`Drone` is bounded by `Backlog`, how many events may wait when the file changes
again: with one, each change finds the goroutine before, between or after its
steps for the last, and a removal in the directory may queue two. `Chunks` and
`Room`: two pieces over a pipe with room for one make the command block, which is
all that a longer output could do. Of the two configurations one schedules a
compaction, the other has a static backup of each kind; the three kinds of
containers' backups come beside them. The file changes any number of times.

`CredCli` is bounded by `MaxStores`, the commands `configure` and `login`, and
`MaxLogins`: three of the former, two of them logins at most, are a `configure`, a
login and another of either, which tells the first host and login from the next
and lets two processes do either at once. `MaxFaults` and `MaxOverlaps` bound the
faults and how often a command begins beside another: with two faults and one
overlap a fault meets the remains of another, or a command that overlaps, in
either order. An export of one item can lose it. The two ports, 80 and 443, each
of them reached with TLS and without, give three stores of one name: port 443
without TLS, port 80 with it, and the two defaults, which share their keys. A
second name could only be confused with the first as one port is with another.
The other commands are unbounded.

`cli` alone turns off the check for deadlock: when the commands that write are
used up and the file does not decode, no command is left. Everything else goes on
for ever: a vault can always be called again, and a dead process restarts; so
does borgd.

`VaultItems` includes every disjunct of `Next` but those for an old build or a
recovery recipient over another, which `VaultCrash` and `VaultEnds` add.

## 5. Fairness

`Vault!FairSpec` is weak fairness of the steps of the operation in progress: the
goroutine that holds the mutex runs on, and file operations return. Starting an
operation is not fair: nobody has to call. `CredService!FairSpec` is strong
fairness of each RPC's own steps: goroutines are scheduled, and Go's RWMutex
starves nobody, so a handler that waits for the mutex gets it although others
take it in between. Crashes are never forced.

`ContainerJob!FairSpec` is weak fairness of the steps of each run: its
goroutines are scheduled, and calls of the engine and of borg return. Runs are
not started by it; containers, handler and worker do nothing on its account.

`Drone!FairSpec` is weak fairness of the watch's goroutine, strong fairness of the
worker (it competes with jobs for `configLock`, and a Go RWMutex lets no writer
wait for ever), and weak fairness of the job in progress and its processes: borg
reads what it is given and exits, a command writes while there is room. Nothing
has to fail or to be edited: `PipelineFails`, `Edits`, `Killed` and the scheduler's
`BeginDue` are left out. `CredCli` states no fairness, for its users may go away.

## 6. What is proved

Seven modules hold theorems. Each is proved for any values of the constants
(any number of items, clients, RPCs, containers, runs, services, contents,
commands and any bounds) under the assumptions that the module of the component
declares and TLC evaluates in the runs: markers such as `Nil`, `Short`, `Absent`
differ from what they stand beside, bounds are numbers, `Service` is finite, and
`Labels` says what labels may say. Where a theorem needs more, it says so.

| module | theorem | says |
|---|---|---|
| `VaultProofs` | `TypeCorrect` | `Spec => [](TypeOK /\ PhaseOK)` |
| | `OwnerHasKey`, `NoValueIsLost`, `PeerStaysBound` | `[]OpenedByOwner`, `[]NoValueLost`, `[]PeerBindingDurable` |
| | `RecoveryStaysInForce` | `RecoveryChangeAtomic` |
| `VaultCrashProofs` | `MemoryIsMirrored`, `DeletedIsForGood`, `RecipientReadsAll` | `NoErrors =>` the three invariants of `vault_crash` |
| `VaultRefines` | `VaultIsAtomic` | `Faults # {} => (Spec => ActsAtomically)` |
| `CredServiceProofs` | `TypeCorrect`, `OneReaderOnly`, `NoneIsLeftOver` | `[]TypeOK`, `[]OneReader`, `[]NoLeftovers` |
| | `ServiceUsesVault` | `Spec => VaultSpec`: the service steps only as `AtomicVault` allows |
| | `LockIsGivenBack` | whoever holds the mutex is inside a call of the vault |
| | `AnsweredIsComplete`, `DeletedIsNotRead`, `CalmListIsComplete` | `NoFaults =>` `CreatedIsComplete`, `DeletedIsGone`, `ListIsComplete` |
| `ContainerJobProofs` | `TypeCorrect`, `ReadsAreQuiet`, `StoppedAreStarted`, `EntryFollows` | `[]TypeOK`, `[]QuietWhileRead`, `[]WhatWasStoppedRuns`, `[]EntryIsCurrent` |
| | `RunsDoNotHang` | a run that has started all it ranged over waits only if it counted more |
| `DroneProofs` | `TypeCorrect`, `CallHasOneConfig`, `CompleteIsWhole`, `FinallyComesLast`, `FileIsInEffect` | `TypeOK`, `OneConfigPerCall`, `CompleteMeansWhole`, `FinallyIsLast`, `ConfigIsCurrent` |
| `CredCliProofs` | `TypeCorrect`, `ExportsAreWhole`, `ClearTextIsConfirmed`, `PairsAreOfOneLogin`, `CredentialsStayAtHome`, `LoginsAreKept` | the six properties of `cli` |

Together `VaultIsAtomic` and `ServiceUsesVault` close the gap between the two
models of the vault: the service relies on nothing of `AtomicVault` that the
vault of files does not do.

### Hypotheses of single theorems

- `NoErrors` (no file operation fails; each may be cut short by the death of the
  process): `DeleteItem` only logs a removal that fails and answers that the item
  is gone, and an item whose file cannot be read is left out of the map, so the
  three properties do not hold without it.
- `Faults # {}` in `VaultIsAtomic`: a panic of the vault may follow from what is
  on disk, when nothing fails any more, where `AtomicVault` has one only with
  faults. The hypothesis is about the abstract vault's freedom, not about
  the vault's.
- `NoFaults` in three theorems about the service, as in `service_safe`: a
  re-encryption that fails may lose an item's file, a removal that fails leaves
  it, and a `Load` may miss items. Panics, Lock and Unlock at any moment and
  any interleaving of RPCs are included.

### The inductive invariants

*Vault.* `PhaseOK` says for each `pc` which operation is in progress and what it
has established so far (for example that between `backup` and `meta` the job's
new value is what its new metadata names); without it neither types nor
anything else is preserved by the later steps of an operation. `ValueOK` adds
that the last accepted value is in the value file, or was copied to a backup by
the operation that overwrites it; `PeerOK` that map, verifying metadata and the
copies a job carries agree on the peer; `MirrorOK` that map and metadata change
at one step or the map is lost; `GoneOK` that what was reported deleted, or is
about to be (`delval`), is in neither of them and its id was drawn; `CoverOK` that a value that lacks the
new recipient is among those a re-encryption still has to do. `SameSum`, that a re-encryption
writes metadata that says what it said, makes its steps stutters of
`AtomicVault`.

*CredService.* `JobFits` and `LockFits` say what each RPC carries in each phase
and that exactly `value`, `reencrypt` and `load` hold the mutex. `OneReader`
needs that an item that was read bears its reader in memory and on disk
(`Bears`), and that an RPC between binding and reading holds the mutex.
`NoLeftovers` needs that each item has one maker and that `fresh` is empty while
the vault is locked. For the other three, `Mirrored` and `Stored` say that
memory is the disk and the disk what was accepted, and `SeenFits` what a list in
progress already has.

*ContainerJob.* `BornOK` and `KnownOK`: stream, cache, scheduled job and runs have
only containers that were created, and the cache has each under its own service;
a removal in the stream is of a container that is gone. `WakesOK` is
`WhatWasStoppedRuns` before the run is over: the run that has stopped a container
is in progress, has the map the container is in, and in its last loop has the
container still to start. `QuietAt` follows a backup from its first step to the
end of the read; others can break it only by starting a container, which is
noted (`Noted`). `EntryOK` says what worker and scheduler have yet to learn of
the cache. `CacheOK` says for each service that was not missed: the last
creation or update in the stream, or, when there is none, the cache, has the
newest container, and if that is gone there is no other and its removal is still
to come. Any order of creations, updates and removals keeps it but for those that
make the service missed. `CountOK`
relates the counter of the last loop, the containers left and those missing.

*Drone.* `CallOK`: between its two halves a call's location is of the
configuration in effect, which `configLock` guards. `PipelineOK` and `ReportOK`
follow the output from command to report; `WatchedOK`, `NewestOK` and
`ScheduledOK` follow a change from the file over event, watch and worker to the
schedule.

*CredCli.* `RunOK` says what a command holds at each step. `PairOK` excepts the
one writer that has set the id and not yet the secret; `HalfOK` has half of
the credentials only after a cut; `OwnerOK` says that each entry of the keyring,
the file and every command's configuration hold what was entered for, or carried
to, the store they are of, where a `configure` that moves holds it for the old
store until it stores; `SmoothOK`, for `LoginIsKept`, says that a writer that
meets no mishap is alone and foresees what a read will present when it is done
(`WillId`, `WillSecret`).

Each is proved by one lemma per action, or per group of actions that leave its
variables alone, and checked with TLC before on the instances of the runs; the
theorems put the lemmas together with PTL.

### Only model-checked

Liveness: `EveryCallEnds`, `EveryRpcEnds`, `EveryRunEnds`, `EveryJobEnds` and
`ConfigConverges`, for `ENABLED` and fairness are beyond the prover
(`LockIsGivenBack` and `RunsDoNotHang` are the safety two of them rest on). The three
violated properties are refuted by TLC. Induction over data and recursive
operators would be out of the prover's reach too; no module needs either.

## 7. Where code and statements disagree

- A failed Unlock leaves the vault unlocked: `identityKey` is set before the
  steps that can fail (`vault.go:165`, `190-193`), a test expects it locked.
- A metadata file cut to less than 32 bytes makes every Unlock panic, and a
  damaged value ends the process when it is read, where `docs/security.md:10-11`
  says that reading those values fails.
- `GetItem` answers nil for an empty item, its callers dereference it.

Seen in the code and modelled as it is, with no property: an upgrade that was
interrupted between its two files fails for ever; a failing removal is logged
at debug level and the item returns with the next Unlock; the recorded peer is
host and port. In borgd: an update of the older of two containers of a service
puts it over the newer one in the cache, and its removal then leaves the service
without one; a container that a run has stopped stays down when another takes
its place in the map before the run ends, also if it comes back to the map
later; a create event of a container that is gone when it is
inspected ends the process; so do a start with a dependency missing, and a map
written while it is read; what a run has stopped stays down when borgd ends in
the middle; a run waits for ever when a container goes between the count of the
containers and the loop over them; and two overlapping runs start what the other
has stopped. `errors.As` panics on a target that is no error, so that a missing
repository is never initialized; a daemon ends on any static backup, whose
schedule is nil; a backup of what a command wrote in a container is logged as
complete when borg has failed; a failing borg leaves the command that feeds it
blocked; a log whose last line has no end is parsed for ever; a configuration
that is moved over the old one is not noticed, and a file that was only
truncated yet is loaded as an empty configuration; a path in a container above a
volume is a panic. In cred: setting a recovery recipient goes on after its second
question was declined; `configure` writes the credentials it has loaded for one
host to the keyring entries of the next; 443 with TLS and 80 without have the same
keyring entries, so that what was entered for the one is loaded for the other;
a configuration cut short may name another port; credentials in the file are not used
while the keyring has a pair; a configuration cut short reads as one without TLS.

What the code does there is also what the properties except, each in its comment:
`calm` (a Lock between two calls of a list), `stirred` (a container that another
run starts during a read), `short` (a run that counted more containers than it
found), `missed` (a service whose newest container borgd does not know), `unseen`
(a file moved over another), a log that does not end, the output of a command in a
container whose borg failed, and in cred a cut file (`ClearTextWasConfirmed`), two
commands that write at once (`LoginIsKept`, and of the others where their comments
say so). Those hazards are in the model but no property catches them:
`PROJECT.json` lists each without a property and says why.

## 8. Not modelled

Encryption and key derivation, the format of the metadata, generated protobuf
code and the wiping of messages (`internal/proto`), which change no state that
anything reads; TLS, the listener, certificates and metrics of credstore, which
share no state with the vault; flags, wording and logging. The clock: schedules
are "due at any time", and backups of the vault's values have names of their
own, where the code takes the millisecond. Of the docker client: several
projects at once, labels that change or do not parse, the multiplexing of
streams, the goroutine that outlives the timeout of `EnsureContainerRunning`,
and the channels that are closed twice while the process ends.
