# Bivac: specifications, model checking and proofs

Bivac backs up container volumes with restic. A long-lived *manager* discovers
the volumes of an orchestrator (Docker, Kubernetes or Cattle), decides which of
them need a backup, and deploys for each a short-lived *agent*, which runs
restic and reports. An HTTP API lists volumes, triggers backups and restores
and runs raw restic commands.

This directory holds TLA+ specifications of that code, TLC configurations that
model-check them, and TLAPS proofs. `PROJECT.json` maps every definition to the
lines it models.

## 1. Inventory

| Component | Code | State | Operations |
|---|---|---|---|
| Backup scheduler | `internal/manager/manager.go`, `Start` | the channel `backupSlots`, one channel per host in `slots`, `err`, `timedout` and `tearDown` of each worker | refresher, dispatcher, workers with retries, one-hour watchdogs |
| Attempts | `backup.go` `backupVolume`, `restore.go` `restoreVolume` | `BackingUp`, `LastBackupDate`, `LastBackupStartDate`, `LastBackupStatus`, `Mux` of each volume | pre-command, deployment, report, post-command |
| Volume registry | `volumes.go` | `m.Volumes` | `retrieveVolumes`, filters, date of the last snapshot |
| Orphan recovery | `manager.go:69-91`, `backup.go` `attachOrphanAgent` | `orphanAgents` | at start-up, attach to agents of a former manager |
| Agent and engine | `internal/agent`, `internal/engine` | `Output`; the restic repository with its locks | `Backup`, `Restore`, and a raw command run by the manager itself |
| Report | `utils.HandleExitCode`, `updateBackupLogs` | `LastBackupStatus`, `Logs`, metrics | reading exit codes |
| Restore merge | `restoreVolume` (engine), `utils.MergePaths`, `CopyFile` | files of the volume | moving restored files in place |
| Providers | `provider.go` | `BackupDir` | detection, pre- and post-commands in containers |
| API server | `server.go` | none | manual backup and restore, raw command, report receiver, queries |
| Orchestrators | `pkg/orchestrators` | containers, pods, services | `GetVolumes`, `DeployAgent`, `AttachOrphanAgent`, `IsNodeAvailable`, ... |
| Command line, client | `cmd`, `pkg/client` | none | flags, HTTP requests |

How they interact:

    refresher --backupSlots--> dispatcher --go--> worker --call--> backupVolume --> orchestrator --> agent
        |                         |                 |                  |                               |
        | retrieveVolumes         +--slots[host]----+--- watchdog      | v.Mux                         | restic
        v                                                              |                               v
     m.Volumes  <--------------- API requests ------> backupVolume, restoreVolume, RunResticCommand --> repository

What is hard in it:

- Goroutines share `err`, `BackingUp` and the dates without synchronisation;
  the only lock is the volume's mutex, held while an agent runs, and the marks
  that the scheduler reads are written and cleared outside of it.
- A slot is a token in a channel that does not say whose it is, released
  either by the worker or by its watchdog, which race after one hour.
- The refresher blocks on a channel of 100 entries, agents may hang, and
  a volume that finds no slot is dropped.
- Every step of an attempt and of an agent's run may fail, be killed or lose
  its answer; restic's locks survive the process that took them.
- The manager restarts while agents run.

What makes each component correct:

- *Scheduler*: slots are neither lost nor released twice and bound the agents of
  a host; nothing that hangs stops discovery or keeps a slot; each volume is
  tried again and again, unless it finds no slot each time; not more often than
  the interval; failures are retried.
- *Attempts*: one agent per volume at a time; the marks are always cleared; the
  record of the last backup is that of the last backup.
- *Agent*: the history is only shortened by a run that extended it; `Success`
  means a stored snapshot, as far as commands have an exit code; a run ends;
  nobody works beside a prune.
- *Registry*: a managed volume is one that the options select and has one
  object; a volume taken for due has not just been backed up, unless its report
  was lost; each volume that stays in the list is attempted, or at least offered to the
  dispatcher, again and again.
- *Orphans*: an agent of a former manager is attached to, not doubled.
- *Deployment*: every agent's container has a call that will remove it; an agent
  that failed and is restarted is waited for; every call returns and frees the
  volume's mutex.
- *Providers*: if the pre-command succeeded the agent finds a whole dump; the dump
  is removed afterwards; nothing that a mutex can keep away touches it while it is
  read.
- *Restore merge*: a restore in which nothing fails has everything in place; no
  restore touches anything else, whatever fails; one that lives and can remove
  its working directory leaves none.

The list of hazards, each at its line and with the properties that address it,
is in `PROJECT.json`.

## 2. Modules

| Module | What it is |
|---|---|
| `SlotPool` | abstract: slots of each host that are owned, handed over and returned |
| `BackupScheduler` | the scheduler, the attempts and the API's backups and restores |
| `BackupSchedulerProofs` | theorems about it, the refinement of `SlotPool` among them |
| `ResticAgent` | an agent's restic commands, its report, raw commands, and the locks of the repository |
| `ResticAgentProofs` | theorems about it |
| `AgentDeployment` | the containers agents run in, on the three orchestrators, over failures and restarts |
| `AgentDeploymentProofs` | theorems about it |
| `VolumeFilters` | the whitelist and the blacklist, sorted in place |
| `VolumeFiltersProofs` | theorems about sorting and consulting them |
| `VolumeRegistry` | the list of volumes while they come and go, reports, orphans and restarts; extends `VolumeFilters` |
| `VolumeRegistryProofs` | theorems about it, which rest on those of `VolumeFiltersProofs` |
| `ProviderCommands` | detection, pre- and post-commands in the containers that mount a volume |
| `ProviderCommandsProofs` | theorems about it |
| `RestoreMerge` | the files a restore puts in place |
| `RestoreMergeProofs` | theorems about it |
| `MC*` | instances of each for TLC |

The modules cut the system where the code has narrow interfaces. What one models
is a choice of outcomes in the others: `BackupScheduler` and `VolumeRegistry` know
of a deployment that it fails or ends, which `AgentDeployment` details; of
a provider that it is found or not, which `ProviderCommands` details; of an agent
that it reports or not, which `ResticAgent` details; and `ResticAgent` knows of
a restore that it leaves the repository alone, `RestoreMerge` details its files.

### BackupScheduler

One process per goroutine. The refresher has a position in the volume list and
the volume it is sending (`next`, `rvol`); the dispatcher the volume it holds
a slot for (`dvol`); a worker or an API request (an *actor*) a place `pc`:

    begin -> wait -> locked -> agent -> report -> post -> unlocked -> unflagged -> returned
             Lock    Deploy    AgentReports  Dated  Finish   ClearFlag   ClearStartDate |
             ^       (errors at locked, agent and post lead to unlocked)         Assign |
             |                                                                          v
             +--------------- Retry ------------------------------- sleep <---------- check
                                                                      |                 |
                                   idle <- release <- teardown <- exit <----------------+

`wait` is the call of `v.Mux.Lock()`. On return the two deferred functions of
`backupVolume` run in Go's order: `Unlock` first (`Leave`), then the clearing of
`BackingUp` and of the start date (`ClearFlag`, `ClearStartDate`), without the
mutex. A restore
has only the former and writes no mark. `wd` is the watchdog of a worker: it
waits for `tearDown` or the timer, and after the timer sets `timedout` and
releases the slot in two steps, between any steps of the worker. `used[h]` is
`len(slots[h])`.

Choices that shape the model:

- *One access per step.* `BackingUp`, the dates, the status, `err` and `timedout`
  are read and written without synchronisation; each access is one atomic step that
  interleaves with the others. `isBackupNeeded` is such a sequence: `Examine` reads
  `BackingUp`, `look` is what is read next, `Verdict` what follows from it. It reads
  the start date twice, and if that was cleared in between, the empty date cannot be
  parsed and the volume is not due (`Unparsable`). A report writes the status, then
  the date (`AgentReports`, `Dated`).
- *`err`* is the named result of `Start`, captured by all goroutines. The
  refresher assigns the outcome of `retrieveVolumes` to it, a worker `nil` before
  its loop and the result of each attempt (`Assign`); the loop then reads it back
  (`Check`).
- *Time.* A date is its age in ticks, saturated at `AgeCap`, which the
  assumptions put above both limits `isBackupNeeded` compares with, so that
  saturation cannot be observed. `UTCLag` is the difference between the local
  time in which the start date is written and UTC in which it is read. The
  one-hour timer of a watchdog may fire at any time: it is not tied to the
  ticks, which allows every order of the timer with the steps of the backup.
- *Goroutines.* Go starts as many as it likes; the model has `Workers`. When all
  are alive `Room` is false and the volume is dropped, as it is for want of
  a slot. A worker that sends on `tearDown` after its watchdog has left blocks
  for ever; since it holds nothing and nobody observes it, its identity is used
  again (`Leaked`).
- *Volumes* are fixed; the initial state is the one after the first
  `retrieveVolumes`, with any mixture of old, recent and missing snapshots.
- The orchestrator is a choice of outcomes: the provider cannot be determined,
  the agent cannot be deployed, reports success or failure, or returns something
  that is not base64. `IsNodeAvailable` counts only on Cattle.

### SlotPool

What the slots are for: each belongs to somebody, is handed over from the
dispatcher to a goroutine, and is returned by its owner. The refinement mapping
(`Pool`, `Leases`) gives the slot to the dispatcher while `dvol` is set, to the
worker while its watchdog has not released it, and still to the worker between
`tearDown` and its own release.

### ResticAgent

An agent runs one command after another (`pc` names it) as `Engine.Backup` and
`Engine.Restore` do. Commands take time: `Execute` starts one and takes
restic's lock, `CommandEnds` gives the result, records the exit code in `out`
and decides what is next. A command that cannot get its lock, or `init` on an
existing repository, fails without having run. `Report` hands the exit codes to
`updateBackupLogs`; `LoseReport` is an unreadable output or a failed POST; `Die`
is a container that is killed with its command, which leaves its lock in the
repository (`stale`). Raw commands are run by the manager (`RunResticCommand`)
without the volume's mutex.

restic itself is external and modelled from what it documents: `snapshots`,
`backup`, `ls` and `restore` take a shared lock, `forget` an exclusive one (it
prunes with the default `RESTIC_FORGET_ARGS`), `init` and `unlock` none; `unlock
--remove-all` removes the locks of everybody; a live process holds its lock
until it ends. `repo` is also whether the repository exists; a `backup` that
reports an error may have stored a partial snapshot. `asked` remembers that
somebody has asked for locks to be removed, by `--force` or by a raw `unlock`.

The details that decide the properties are those of `HandleExitCode`: a positive
exit code, -1 for a signal, 0 for a process that could not start. All of them occur
in the runs and in the theorems. `cut` is history: the runs that a command without
an exit code of its own has ended, at the probe, at `init` or at the backup. The files
moved by a restore are left to `RestoreMerge`.

### AgentDeployment

Calls of `DeployAgent` and `AttachOrphanAgent` for one volume, on one of the
orchestrators. The volume may be dropped and found again, so that a deployment
holds the mutex of one of its objects (`object`; `MaxObjects` are in use at a
time). A container is named by the call that creates it; `Former` are deployments
of a manager that died. A call goes through

        prepare -> [mounts | manager] -> create -> [start] -> poll [<-> sleep] -> [inspect] -> read -> remove -> [removing]

as its orchestrator does it: Docker pulls the image, asks for the manager's own
mounts, creates and starts; Kubernetes asks for the claim and for the manager's
pod; Cattle asks for the manager's mounts and looks at the container once more
after its loop, and its removal waits until the container is gone. From `create`
on the deferred removal is part of every way out (`Errs`, `Missing`, `Timeout`),
before it none is (`Returns`). `Refused` is any request that fails;
`CreateUnanswered` and `StartUnanswered` are requests that were carried out and
answered with an error. `starts` and `stopped` are `StartCount` and the local
variable with which Cattle's loop tells the first stop from the last: having seen
one it sleeps for five seconds and looks again. The restart may come later than
that (`late`).

`getManagerPod`'s error is not returned and a nil pointer is dereferenced:
`MissManagerPod` takes the manager down, unless the call comes from an API
request (`Handled`), whose panics `net/http` recovers.

The orchestrator starts, rejects, restarts (Cattle, once after a failure) and
removes containers, and they may get into a state that a loop does not look for
(`Sticks`: dead on Docker, unknown on Kubernetes); anybody may remove one.
`astray` collects containers whose caller is gone: creation unanswered, removal
refused, manager dead.

### VolumeFilters and VolumeRegistry

`retrieveVolumes` step by step: the answer of `GetVolumes` (`DockerVolumes`,
`KubernetesVolumes`, `CattleVolumes` say what each may leave out), the filter
(`Select`, which looks at the volumes in whatever order they were listed, with the
lists as the calls before have left them), one new object for each volume not
managed yet, with the date of its last snapshot if the repository can be read, and
the removal of those not found. The walk over the volumes then marks and attaches
orphans and queues what is due.

An *object* is the Go struct `Volume`: mutex, mark and date. Attempts, attachments
and the refresher's walk hold objects, `m.Volumes` holds objects, and an object
may be held although it was dropped. The report receiver and the API look a volume
up by its identifier among `managed`. The scheduler's slots, retries and queue are
those of `BackupScheduler`; here an object is queued for one automatic attempt at
most, which the dispatcher begins or drops (`Begin`, `Dropped`: no slot, or a node
that is not available). Each round may attach to an orphan agent once more, so
that an object has a number of attachments (at most `MaxAttachments`); each ends
with its agent, or before it when the provider cannot be found or the agent not be
read (`AttachFails`), and clears the mark. An agent stores its snapshot, ends its
run and reports in three steps (`Stores`, `Finishes`, then `Collect` or
`GetBackupLogs`), and may be removed between them. A date is "recent" or "old"
with respect to the interval, and ages with the snapshots of its volume
(`GetsOld`).

`Crash` and `Restart` lose all of it but the repository and the agents;
`OrphansFound` is what `RetrieveOrphanAgents` may return: on Cattle one running
agent per volume, elsewhere nothing (Docker's compares a prefix with
a hexadecimal identifier, Kubernetes' returns claim names where UIDs are
looked up). `untold` is history: volumes about which a report or a date was lost,
or went to an object that was dropped.

### ProviderCommands

One volume, containers with a mount path and a kind each: `database` has the
provider's tools, `other` has not, `impostor` is a pod that calls another volume
by the same name, which `mapVolClaim` takes for this one. A backup holds the mutex
of the object it was given, of which the volume may have several; an attachment
holds none. `former` says that an agent of a manager that died is still at work: it
reads the dump and holds no mutex any more, and on Docker and Kubernetes no later
manager finds it.

`GetProvider` and `RunCmd` list the containers (as each orchestrator does) and try
one after another; `sub` is the path that took the place of `$volume`, for good, at
the first container, and a command is `Inside` the volume if that is its path in
the container. Detection elsewhere may succeed for any provider. `Answered` is when
`ContainerExec` returns no error: Docker and Cattle do not look at the exit status,
Kubernetes does. Both the pre- and the post-command may fail where they run, and may
be carried out and yet be answered with an error. The effects of commands are
those of `providers-config.default.toml`: the pre-command makes the file before the
tool writes it, the post-command removes it, and an `rm` that fails may have removed
a part.

### RestoreMerge

Trees of two levels; a name is a number in the order of the walk, and the
working directory takes any name that is free, also one that the snapshot has an
entry of: that entry is then merged inside it (`aside`) and the two are renamed.

`listed` is what `restic ls` has given: the path of the snapshot; an error; or output
without the line that has the path, for which `getOrigionalBackupPath` returns the
empty string. Then `restoreDumpPath` is the working directory itself, and what is
merged into the volume's root is the tree that restic restored from the root on
(`Leading`, with the paths in `Absolute`); `astray` remembers it.

Each file operation is a step: `MergePaths` looks at the source and makes room,
`Visits` is `filepath.Walk`, files are linked, or truncated and then written,
entries are removed from the working directory after their merge. Each may fail,
and what the code then does differs: an error of the source or target ends the
merge of the entry (`MergeFails`, `WalkFails`), one of `MkdirAll` is not looked at
(`MakeDirectoryFails`), a write may fail after the file was truncated
(`WriteFails`), and a directory that makes room for a file may have lost only some
of its entries. In every case the source is removed next, or is left where it is
if that fails too, and goes with the working directory. `RenameEntryFails` and
`WorkStays` are errors at the end. `spoilt` says that the restore has had a
failing operation.

Symbolic links of the snapshot lead to another path of it, or nowhere, and `os.Stat`
follows them. `Die` is the agent's death, and after any restore another may follow.
The volume before the restore has files, directories and devices or sockets
("special"), and no symbolic links; nobody else writes to it.

## 3. What is checked

TLC runs, all of them complete explorations:

| Run | Instance | States | Shows |
|---|---|---|---|
| `SchedulerSharing` | 2 volumes on one host, 2 workers, 1 slot | 2.4 M | `SlotAccounting`, `ScheduledAgentsBounded`; refinement `PoolSpec` |
| `SchedulerRequests` | 1 volume, 1 worker with a retry, 1 request, Cattle; agents may hang | 350 k | `TypeOK`, `SlotAccounting`, `AgentExclusion`, `MarksHaveOwner`, `SlotReturned`, `RefresherNeverStuck` |
| `SchedulerProgress` | 2 volumes on one host, 1 worker, 1 slot; agents end | 380 k | `TriedOrCrowdedOut` |
| `AgentRuns` | 1 agent with and without `--force`, 2 raw commands of any kind, commands that fail, are killed or do not start | @AGENT@ | `TypeOK`, `ForgetAfterBackup`, `PruneAlone`, `SuccessIsABackup`, `AgentEnds` |
| `Deployments` | a worker's call, a request's call and a former agent, each orchestrator; 2 objects, 1 on Cattle | 340 k | `TypeOK`, `NoStrayAgent`, `AgentsApart`, `RestartIsAwaited`, `CallsReturn` |
| `Registry` | 2 volumes (one selected, which comes and goes), 2 objects, 1 request, 2 agents, 2 attachments of an object, each orchestrator | 1.3 M | `TypeOK`, `Selected`, `AgentsOfVolume`, `StoredIsKnown` |
| `RegistryProgress` | 2 volumes, both selected, one of which comes and goes, 2 objects, 1 agent, Docker and Kubernetes | 260 k | `DueIsAttempted` |
| `Providers` | 2 backups, 2 objects, 1 attachment, 2 containers, 2 paths, 2 providers, each orchestrator | 990 k | `TypeOK`, `DumpIsWhole`, `DumpsRemoved`, `DumpKept` |
| `Restores` | 3 names, 3 paths in the snapshot, 2 in the volume, 1 death or undeletable directory | 2.3 M | `TypeOK`, `InPlace`, `Untouched`, `Residue` |

Why these bounds suffice to be interesting:

- One slot (`ParallelCount = 1`) and two workers: a second worker exists only
  when the first has been written off after its hour or has released its
  slot, which is where the two could release the same slot. Two volumes of one host
  compete for it, which is when one can be dropped for want of a slot.
- A queue of one entry: the refresher blocks as soon as the dispatcher is
  behind, and duplicates of a volume still arise (one entry queued, one held by
  the dispatcher, one by a worker).
- `Interval = Hour = 0` with ages 0 and 1: "just now" and "due" are the two sides
  of each comparison of `isBackupNeeded`. That a failed backup is due after an hour
  and a successful one after the interval only changes how soon, and every
  property here is checked for the soonest.
- In `SchedulerSharing` states that differ only in the status or in the age of
  a start date are identified (`VIEW AllButStatus`): with `Hour = Interval` the status
  never decides `IsBackupNeeded`, with `UTCLag` beyond `Interval` every start date is
  long past, nothing else reads them, and what is checked there does not either.
- `MaxTries` is 3 as in the code. Two operators are needed besides one agent for
  one to work beside a prune of the other's while the agent is anywhere.
- Three calls: two that overlap because one does not need the mutex, has the mutex
  of another object or is over, and the container of a former manager that outlives
  both. On Cattle, where orphan agents are found and attached to, one object is
  enough for two calls to overlap.
- Two objects: the one a volume had when it was dropped and the one it has since.
  `VIEW Live` blanks the fields of objects that nobody refers to, which
  `Discover` overwrites before they are read. `CONSTRAINT TwoAttempts` keeps to
  two attempts or attached objects at a time, and to log servers on Docker, where the
  answers of the orchestrator are fewest: what a report does there does not depend on
  them. The properties that several attempts can violate need two.
- Two attachments of one object (`MaxAttachments`): one that ends while another goes
  on and has its mark cleared.
- The whitelist of `Registry` is unsorted, names a volume that does not exist and
  leaves one out. `RegistryProgress` sets no option, so that two volumes are due.
- Two containers: the one that is tried first and the one whose path or tools
  differ from it. Providers with and without a post-command. Two objects for two
  backups at a time.
- Two entries and a file inside the first, three names; every pair of kinds meets at
  one path, the volume has a path below that entry that the snapshot has not, links
  lead to files and directories before and after them, and the working directory has
  the name of an entry, or of none. `Absolute` is the first entry and the path in it:
  a restore without a path meets both what the snapshot has and what it has not.
- `SYMMETRY` (`WorkerSymmetry`, `Interchangeable`) is used in runs without
  liveness only; `CHOOSE` among objects and agents is among ones with no state.
- `CHECK_DEADLOCK FALSE` in `Restores` and `DocRestored` only: with three names and
  a directory that was left, a restore may find none that is free, where the code
  would have another of its many. With four names there is no such state, but the
  run takes too long.

Each property also has a mutant: an altered definition (for example a watchdog
that is not torn down, a mutex that is not taken, a flag cleared only on success,
an error dropped after the backup) with which TLC finds it violated. They stand
beside the definition they alter, marked "Mutant of".

### Fairness

`Fairness` of `BackupScheduler` says that every goroutine that can run does
(weak fairness of refresher, dispatcher, worker, watchdog), that timers fire and
time passes, and that a goroutine waiting for a mutex gets it if it is free
again and again: Go's `sync.Mutex` hands over to the waiter at the head of its
queue after 1 ms (strong fairness of `Lock`). Nothing is assumed of API requests,
nor of the orchestrator: the runs that speak of hanging agents use this.
`TriedOrCrowdedOut` needs `AttemptFairness` besides (`LiveSpec`): agents end and
commands in containers return. It is an assumption on the environment which the code
does not enforce (no call has a timeout); without it a hung agent holds the
volume's mutex for ever. `FairSpec` of `ResticAgent` says that each agent
goes on: restic commands end, and the network answers or fails. That of
`AgentDeployment` says that goroutines run and timers fire, that agents end
(`AgentRuns` shows that they do) and that an accepted deletion is carried out; it
does not say that a container ever starts. That of `VolumeRegistry` says that
goroutines run, agents end and time passes, and nothing of what the orchestrator
answers: `DueIsAttempted` holds although every retrieval may fail, because what
is known is walked then, and every deployment, and although the dispatcher may drop
whatever it is offered: being offered again and again is all that the refresher can
give, and what the property says then. `TriedOrCrowdedOut` says when the dispatcher
drops.

## 4. What is proved

For every number of volumes, hosts, workers, requests, slots, retries and calls, with
`tlapm` (SMT, Zenon, LS4), from the named assumptions of the modules only:

| Theorem | Statement |
|---|---|
| `TypeCorrect` | `Spec => []TypeOK` |
| `OneAgentPerVolume` | `Spec => []AgentExclusion` |
| `SlotsAccounted` | `Spec => []SlotAccounting` |
| `ScheduledAgents` | `Spec => []ScheduledAgentsBounded` |
| `ImplementsSlotPool` | `Spec => PoolSpec` |
| `MarksOwned` | `Spec => []MarksHaveOwner` |
| `AgentTypeCorrect` | `Spec => []TypeOK` (`ResticAgent`) |
| `HistoryKept` | `Spec => []ForgetAfterBackup`, whatever commands do |
| `SuccessNeedsSnapshot` | `Spec => SuccessIsABackup`, however commands end |
| `DeploymentTypeCorrect` | `Spec => []TypeOK` (`AgentDeployment`) |
| `AgentsAreRemoved` | `Spec => []NoStrayAgent` |
| `DeploymentsKeepApart` | `Spec => []AgentsApart` |
| `RestartsAreAwaited` | `Spec => []RestartIsAwaited` |
| `PruneIsAlone` | `Spec => []PruneAlone`: until somebody asks for locks to be removed |
| `SortingReorders` | `Sorted(list)` ascends and has the names of `list` |
| `ConsultSettles` | `Consult(Consult(Consult(lists))) = Consult(Consult(lists))` |
| `SelectionKeepsPromise` | `Select(lists, volumes).kept = volumes \intersect Promised(options)`, if the options are `Plain` and `lists` is what consulting has made of them |
| `RegistryTypeCorrect` | `Spec => []TypeOK` (`VolumeRegistry`) |
| `SelectedIfPlain` | `Spec => [](Plain(options.white) /\ Plain(options.black) => Selected)` |
| `AgentsShareNoObject` | `Spec => []AgentsOfVolume` |
| `SnapshotsAreKnown` | `Spec => []StoredIsKnown` |
| `CommandsTypeCorrect` | `Spec => []TypeOK` (`ProviderCommands`) |
| `UnwarnedDumpIsWhole` | `Spec => []DumpIsWhole`, which speaks of Kubernetes and of backups alone with their volume |
| `NoDumpLeft` | `Spec => []DumpsRemoved`, likewise |
| `DumpIsKept` | `Spec => DumpKept`, also for agents whose manager has died |
| `MergeTypeCorrect` | `Spec => []TypeOK` (`RestoreMerge`) |
| `NothingElseTouched` | `Spec => []Untouched`, whatever operation fails |
| `EntriesInPlace` | `Spec => []InPlace`, for restores in which none does |
| `ResidueBounded` | `Spec => []Residue` |

The arguments:

- *Slots.* `SlotAccounting` is not inductive: whether the worker or the watchdog
  will release depends on where both are. `WatchdogCoupling` relates `pc[w]` and
  `wd[w]` (a worker at `release` has torn its watchdog down; one at `begin` to
  `exit` has a watchdog; an idle one has none that is armed), and `VolumeKnown`
  says that whoever still has to release a slot knows the host. With these each
  step either leaves the leases of a host alone, hands one over, or adds or removes
  one lease together with one token. The refinement follows with the same
  lemmas: `Admit` is `Grant`, `Spawn` is `Handover`, `RefuseNode`, `Release` and
  `WatchdogRelease` are `Return`, everything else stutters.
- *Agents.* `MutexHeld` (who is at `locked`, `agent` or `post` holds the mutex of
  its volume) gives `AgentExclusion`; with `SlotAccounting` a worker at `agent`
  that was not written off is among the leases, which are at most
  `ParallelCount`.
- *Marks.* `MarksHaveOwner` is inductive together with `Coupling`; every step
  that ends the last attempt of a volume is the `ClearFlag` of that attempt.
- *Reports.* `Reasons` says why a run is where it is: after the backup command it
  has stored a snapshot, and at a report without one the exit code of `init` or of
  `backup` is 1, which `Failure` sees, or a command that was killed or did not
  start has ended the run (`cut`), which it does not see (section 5).
- *Locks.* `LocksHeld` says that whoever runs a locking command still has its
  lock and that an exclusive lock is the only one, as long as nobody has asked for
  locks to be removed (`~asked`): every removal is preceded by such a request.
- *Containers.* `NoStrayAgent` alone does not say why a call may give up a
  container: `Accepted` adds that a removal that is waited for was accepted,
  `Known` that nothing exists before it is created, that who waits does so for
  something that was, and how often it was started. `OneOwner` is what the mutexes
  give (one call for each object waits for a container of its own, all others for
  the orphan), and with `NoStrayAgent` makes `AgentsApart`: two running agents that
  nobody left behind have two calls, each with its own. `Awaited` says that a call
  which has seen its container stop looks again only when the restart that was due is
  over or late; then what it takes for the end is one, and stays so (`Ended`).
- *Lists.* `sort.Strings` is `Sorted`, which puts each name at its rank. Ranks
  are a permutation of the positions (a smaller name has a strictly smaller set
  of names up to it; then by counting), so that a sorted list is ascending and
  `Similar` to the list it was. Sorting a second time changes nothing
  (`ConsultSettles`), which is why `Consulted` may stop at two calls. A `Plain`
  list, one that is not set or has no empty name, is defined or not whatever its
  order; then the lists of every round select what the options promise. With an
  empty name among others this fails (section 5, `volumes.go:70`).
- *Objects.* `Named` says that an object anybody refers to (managed, to be walked,
  attached, target of an attempt) is of a volume, so that giving a discovered
  volume one that is free moves nobody's. `Mutex` is the object's lock, `Unique`
  that a volume is managed as one object: together they make `AgentsOfVolume`.
  `StoredIsKnown` needs to know whose output is taken: `Deployed` says that an
  attempt's agent is its own and mounts its target's volume, and is not anybody's
  orphan; `Orphans` that the orphan agent of a volume still is the volume's, or is
  gone. Whoever takes an output then either dates the one managed object of that
  volume, or the volume is in `untold`.
- *Dumps.* `Substituted` (the path put in place of `$volume` is that of some
  container), `OneBackup` (the mutex of an object), `Alone` (a backup that started
  when no other was under way stays the only one until another starts),
  `NoAttachment` (orphans are found on Cattle only) and `Ahead` (nothing is prepared
  before its step) make `DumpIsWhole` and `DumpsRemoved` inductive. For `DumpKept`,
  `DumpChanges` lists the steps that touch a dump: commands of a backup, whose object
  no other backup has, and of an attachment.
- *Merge.* `Sources` says that what is to be merged is a part of one of the trees
  that restic may restore; in a restore in which nothing has failed (`Smooth`)
  what is left of the snapshot is what Walk has not passed, and `InOrder` that
  entries go in the order of their names: with these `os.Stat` finds everything in
  an entry without broken links (`Found`). Walk makes a directory before what is
  in it (`TopFirst`), and the file that is being written is the one it is at
  (`Torn`). `Merging` extends `InPlace` to all that has been merged or visited, in
  the volume or aside. `Spared` adds to `Untouched` that nothing kept is in the
  way of the working directory or has the name of an entry that is merged inside
  it; `LeftBounded` counts the directories left behind without the one in use. The
  steps of a visit, failing ones too, have one form (`VisitSteps`): a path is
  written or loses what is there and below it, and nothing else changes.

Each of these invariants was checked by TLC on the runs' instances as well.

Only model-checked: the liveness properties `SlotReturned`,
`RefresherNeverStuck`, `TriedOrCrowdedOut`, `AgentEnds`, `CallsReturn` and
`DueIsAttempted`, since fairness is out of the prover's reach; and of `Selected`
what options with an empty name in them would do, for which it does not hold.

## 5. Where code and documentation disagree

Three are runs that TLC ends with a counterexample:

- `DocInterval`: `isBackupNeeded` is evaluated when a volume is queued, not when
  a worker takes it. A volume queued twice, which the two seconds between two
  retries suffice for, is backed up twice in a row, whatever the "minimum
  interval between automatic backups".
- `DocOrphan`: `orphanAgents` is keyed by volume, but the entry is deleted by
  container (`manager.go:90`). The volume of an orphan agent is marked
  `BackingUp` in each round just before `isBackupNeeded` looks at the mark, and
  is not backed up again until the manager restarts.
- `DocRestored`: the report of a restore has exit code 0 whatever happened: the
  failure of `restic restore` is overwritten by that of `os.ReadDir`, which has no
  exit code, as have none the errors of `MergePaths`. Besides failures of
  restic, symbolic links are lost: one to a directory is skipped by `CopyFile`,
  one to an entry that was merged earlier finds its target removed.

Others were met while modelling and have no run of their own, because they are
visible in the code once pointed at:

- `manager.go:160`: the shared `err` lets the refresher's success hide a worker's
  failed attempt, which is then not retried (`Check` of `BackupScheduler`),
  although `BIVAC_RETRY_COUNT` counts failures.
- `restore.go:83`: a restore overwrites the status and date of the last backup,
  and so puts the next automatic backup off (`AgentReports`).
- `backup.go:202`, `utils.go:60`: an exit status of -1 is not above 0, and a command
  that could not be started counts as 0, so that a restic killed by a signal while it
  backs up, or missing, yields the status `Success` (the second half of
  `SuccessIsABackup`).
- `manager.go:115`: a volume that finds no slot is dropped and not put back. A volume
  whose backups always fail stays due, and with one slot may take it in every round
  just before another of its host is offered, which is never backed up then
  (`TriedOrCrowdedOut` says that nothing else has this effect).
- `docker.go:149`: the removal is deferred before the loop, so that one inspection
  that fails (161) removes an agent at work by force; the other orchestrators do
  the same.
- `cattle.go:192`: the loop gives a failed agent five seconds to be restarted. If
  Cattle takes longer the first failure counts as the end, and the agent is removed
  in its second run (`late`).
- `docker.go:269`, `cattle.go:309`: `ContainerExec` ignores the exit status, so that
  a pre-command without its tool, and a post-command whose `rm` fails, count as
  success, and the dump stays in the volume (`DumpsRemoved` is of Kubernetes only).
- `backup.go:55`: an agent that outlives its manager is not known to the next one (on
  Docker and Kubernetes never, on Cattle not to the mutex), whose pre-command
  truncates the dump that the agent reads (the second half of `DumpKept`).
- `engine.go:302`: without the expected line in the output of `restic ls` the path is
  the empty string, and the tree restored from the root on is merged into the
  volume: a snapshot of `/data` adds a directory `data` to it, and replaces what has
  that name (`astray`).
- `engine.go:226`, `utils.go:156`, `utils.go:219`: a file that was truncated and
  could not be written, a directory that could not be made and any other operation
  that fails end the merge of the entry, whose source is removed all the same; the
  report has exit code 0 (`spoilt`).
- `engine.go:41`: `--force` is to remove restic's locks first; a backup probes the
  repository before, and with a stale exclusive lock ends there.
- `provider.go:76`: `$volume` is to be replaced with the mount path "inside that
  container or pod" (README.md), but the first container's path stays in the
  command for all.
- `backup.go:69`: `BackupDir` of a provider detected once stays when none is
  detected any more; `backup.go:96`: without an agent no post-command is run.
- `volumes.go:70`: with a trailing comma in an option the sorted list starts with
  the empty string, which from the second volume on counts as an option not set.
- `kubernetes.go:84`: the filters passed to `GetVolumes` are empty, so that
  `BIVAC_WHITELIST_ANNOTATION` never has an effect; `kubernetes.go:123`: the label
  `bivac.ignore` is not looked at for claims that no pod mounts.
- `docker.go:318` and `kubernetes.go:428`: orphan agents are never found there.
- `cattle.go:180`, `docker.go:167`: a container that is never scheduled or that
  somebody else removes on Cattle, or that is dead on Docker, is waited for without
  end (`CallsReturn` says so).

Not a run, but visible in the model: a backup that lasts more than one hour
loses its slot and keeps its agent, and manual backups and restores take no slot,
so that `--parallel.count` bounds neither all agents nor the long ones
(`ScheduledAgentsBounded` says what it does bound).

## 6. Not modelled, and the plan

Planned: abstract specifications of the repository's locks (`ResticAgent`) and of
a restore as one that replaces path by path (`RestoreMerge`), with proofs that
the code implements them as it does `SlotPool`.

Left out on purpose:

- Data races as such: accesses are atomic steps that interleave. The map `slots`
  and the maps `Logs`, which goroutines read and write without a lock, may end
  the process by a fatal error of the Go runtime, and `json.Marshal` may walk a
  volume that changes.
- The provider commands of a restore: `BackupScheduler` has their outcomes.
- In `RestoreMerge`, symbolic links in the volume itself, trees of more than two
  levels (also those that lead to a snapshot from the root), file modes, writers
  beside the restore, and two restores at once (the mutex of the volume excludes
  them, unless it was dropped and found again). `os.Stat` is taken to tell whether
  a random name is free, that name to be found, and the `MkdirAll` of the working
  directory to succeed.
- In `ProviderCommands`, a command that goes on in its container after its request
  has ended, and `BackupDir`: what is read is the dump, wherever the agent looks.
- In `VolumeRegistry`, slots (a queued volume may be dropped at any time), and volumes
  whose identifier changes under one name. `Registry` has one volume selected at a
  time, `RegistryProgress` two.
- Environment variables that contain `=`, which Kubernetes and Cattle cut off,
  and the log receiver's address of a restore, which no handler serves.

Not to be modelled: the command line and the client (flags and requests without
state), the choice of the orchestrator at start-up, the generated mocks, metrics
and logging.
