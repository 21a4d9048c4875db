--------------------------- MODULE BackupScheduler ---------------------------
(***************************************************************************)
(* The manager's scheduling core: the goroutines started by Start          *)
(* (src/internal/manager/manager.go), the attempt to back a volume up      *)
(* (backup.go), and the manual backups and restores that the API server    *)
(* runs beside them (manager.go, restore.go).                              *)
(*                                                                         *)
(*   refresher   walks the volumes and sends those that need a backup to   *)
(*               the bounded channel backupSlots                           *)
(*   dispatcher  receives them, takes a slot of the volume's host or drops *)
(*               the volume, and starts one worker goroutine               *)
(*   worker      tries the backup up to RetryCount + 1 times; a watchdog   *)
(*               goroutine gives its slot back after one hour              *)
(*   request     an HTTP handler that backs up or restores one volume      *)
(*                                                                         *)
(* Time: a date is the number of ticks since it was written, saturated at  *)
(* AgeCap. The volume list is fixed here. Accesses to unprotected shared   *)
(* variables (BackingUp, the dates, the status, err, timedout) are         *)
(* interleaved one atomic access at a time.                                *)
(***************************************************************************)
EXTENDS Integers, Sequences, FiniteSets

CONSTANTS
    Volumes,        \* the managed volumes
    VolumeSeq,      \* m.Volumes, in the order the refresher walks it
    Hosts,
    HostOf,         \* HostOf[v] is v.HostBind
    Unbound,        \* the host "unbound" of a volume nobody mounts
    Cattle,         \* TRUE when the orchestrator is Cattle
    Workers,        \* identities of the worker goroutines
    Requests,       \* identities of the API requests
    Dispatcher,
    ParallelCount,  \* --parallel.count
    QueueCap,       \* capacity of backupSlots (100 in the code)
    RetryCount,     \* --retry.count
    Hour,           \* ticks after which a failed backup is due again
    Interval,       \* --backup.interval, in ticks
    UTCLag,         \* UTC minus local time, in ticks
    AgeCap,         \* ages saturate here
    Reports,        \* the statuses that reports of agents give
    Found,          \* the dates of last snapshots found in the repositories
    NoVolume, NoActor, NoDate

Actors == Workers \union Requests

ASSUME VolumesAssumption ==
    /\ VolumeSeq \in Seq(Volumes)
    /\ HostOf \in [Volumes -> Hosts]
    /\ NoVolume \notin Volumes

ASSUME ActorsAssumption ==
    /\ IsFiniteSet(Workers)
    /\ Workers \intersect Requests = {}
    /\ Dispatcher \notin Actors
    /\ NoActor \notin Actors

ASSUME BoundsAssumption ==
    /\ ParallelCount \in Nat
    /\ QueueCap \in Nat \ {0}
    /\ RetryCount \in Nat
    /\ Hour \in Nat /\ Interval \in Nat /\ UTCLag \in Int /\ AgeCap \in Nat
    /\ Cattle \in BOOLEAN
    /\ NoDate \notin Int
    /\ Reports \subseteq {"Success", "Failed"}
    /\ Found \subseteq 0..AgeCap \union {NoDate}

\* Saturation is invisible to isBackupNeeded.
ASSUME AgeCapAssumption ==
    \A n \in {Hour, Interval} : AgeCap > n /\ AgeCap + UTCLag > n

VARIABLES
    next,       \* the refresher's position in VolumeSeq
    rvol,       \* the volume it examines or sends, or NoVolume
    look,       \* what of it the refresher reads next, "send" when it is due
    ref,        \* where isBackupNeeded has the date it compares with from
    queue,      \* backupSlots
    dvol,       \* the volume the dispatcher holds a slot for, or NoVolume
    used,       \* used[h] is len(slots[h])
    pc,         \* where each worker or request is
    vol,        \* the volume it works on
    job,        \* "backup" or "restore"
    failed,     \* the error its attempt will return
    try,        \* the worker's loop counter i
    wd,         \* the worker's watchdog goroutine
    err,        \* Start's result variable, shared by every goroutine
    backingUp, lastBackup, startDate, status,   \* fields of volume.Volume
    mux         \* who holds v.Mux

refresherVars == <<next, rvol, look, ref>>
dispatcherVars == <<dvol, used>>
actorVars == <<pc, vol, job, failed, try>>
volumeVars == <<backingUp, lastBackup, startDate, status, mux>>
vars == <<refresherVars, queue, dispatcherVars, actorVars, wd, err, volumeVars>>

Dates == 0..AgeCap \union {NoDate}

Attempting == {"wait", "locked", "agent", "report", "post", "unlocked", "unflagged"}
Places == Attempting \union {"idle", "begin", "returned", "check", "sleep", "exit",
                            "teardown", "release"}
RequestPlaces == Attempting \union {"idle"}

(***************************************************************************)
(* The watchdog: "armed" waits for tearDown or for its timer, "expired"    *)
(* has chosen the timer, "flagged" has set timedout, "released" has given  *)
(* the slot back, "off" was torn down.                                     *)
(***************************************************************************)
WatchdogStates == {"off", "armed", "expired", "flagged", "released"}

QueueTypeOK ==
    /\ next \in 1..(Len(VolumeSeq) + 1)
    /\ rvol \in Volumes \union {NoVolume}
    /\ look \in {"last", "start", "date", "status", "send"}
    /\ rvol = NoVolume => look = "last"
    /\ ref \in {"last", "start"}
    /\ queue \in Seq(Volumes) /\ Len(queue) <= QueueCap
    /\ dvol \in Volumes \union {NoVolume}
    /\ used \in [Hosts -> Nat]

ActorTypeOK ==
    /\ pc \in [Actors -> Places]
    /\ \A r \in Requests : pc[r] \in RequestPlaces
    /\ vol \in [Actors -> Volumes \union {NoVolume}]
    /\ job \in [Actors -> {"backup", "restore"}]
    /\ \A w \in Workers : job[w] = "backup"
    /\ failed \in [Actors -> BOOLEAN]
    /\ try \in [Workers -> 0..RetryCount]
    /\ wd \in [Workers -> WatchdogStates]
    /\ err \in {"nil", "error"}

VolumeTypeOK ==
    /\ backingUp \in [Volumes -> BOOLEAN]
    /\ lastBackup \in [Volumes -> Dates]
    /\ startDate \in [Volumes -> Dates]
    /\ status \in [Volumes -> {"", "Unknown", "Success", "Failed"}]
    /\ mux \in [Volumes -> Actors \union {NoActor}]

\* Every variable has its type, the loop counter stays below the retry count
\* and the queue within its capacity.
TypeOK == QueueTypeOK /\ ActorTypeOK /\ VolumeTypeOK

\* What the first retrieveVolumes finds in the repository of each volume.
InitialStatus ==
    [v \in Volumes |-> IF lastBackup[v] = NoDate THEN "" ELSE "Unknown"]

\* The first retrieveVolumes has run: a volume of which the repository has
\* snapshots carries the date of the last one and the status "Unknown".
Init ==
    /\ next = 1 /\ rvol = NoVolume /\ look = "last" /\ ref = "last"
    /\ queue = <<>>
    /\ dvol = NoVolume /\ used = [h \in Hosts |-> 0]
    /\ pc = [a \in Actors |-> "idle"]
    /\ vol = [a \in Actors |-> NoVolume]
    /\ job = [a \in Actors |-> "backup"]
    /\ failed = [a \in Actors |-> FALSE]
    /\ try = [w \in Workers |-> 0]
    /\ wd = [w \in Workers |-> "off"]
    /\ err \in {"nil", "error"}
    /\ backingUp = [v \in Volumes |-> FALSE]
    /\ lastBackup \in [Volumes -> Found]
    /\ startDate = [v \in Volumes |-> NoDate]
    /\ status = InitialStatus
    /\ mux = [v \in Volumes |-> NoActor]

-----------------------------------------------------------------------------
(* The refresher *)

\* A new round after the sleep: retrieveVolumes stores its result in err.
Refresh ==
    /\ next > Len(VolumeSeq) /\ rvol = NoVolume
    /\ next' = 1
    /\ err' \in {"nil", "error"}
    /\ UNCHANGED <<rvol, look, ref, queue, dispatcherVars, actorVars, wd, volumeVars>>

\* isBackupNeeded is asked of the next volume; it says no at once if a backup is
\* under way.
Examine ==
    /\ next <= Len(VolumeSeq) /\ rvol = NoVolume
    /\ next' = next + 1
    /\ rvol' = IF backingUp[VolumeSeq[next]] THEN NoVolume ELSE VolumeSeq[next]
    /\ UNCHANGED <<look, ref, queue, dispatcherVars, actorVars, wd, err, volumeVars>>

\* The start date is written in local time and read back as UTC.
ReferenceAge ==
    IF ref = "last" THEN lastBackup[rvol] ELSE startDate[rvol] + UTCLag

\* The date compared with is read a second time; if it has been cleared since it
\* cannot be parsed.
Unparsable == ref = "start" /\ startDate[rvol] = NoDate

\* What isBackupNeeded reads in turn after BackingUp: LastBackupDate,
\* LastBackupStartDate, one of the dates, and LastBackupStatus if it is older
\* than an hour. "skip": no backup is needed.
Verdict ==
    CASE look = "last"   -> IF lastBackup[rvol] = NoDate THEN "send" ELSE "start"
      [] look = "start"  -> "date"
      [] look = "date"   -> IF Unparsable THEN "skip"
                            ELSE IF ReferenceAge > Interval THEN "send"
                            ELSE IF ReferenceAge > Hour THEN "status" ELSE "skip"
      [] look = "status" -> IF status[rvol] = "Failed" THEN "send" ELSE "skip"

IsBackupNeeded ==
    /\ rvol # NoVolume /\ look # "send"
    /\ look' = IF Verdict = "skip" THEN "last" ELSE Verdict
    /\ rvol' = IF Verdict = "skip" THEN NoVolume ELSE rvol
    /\ ref' = IF look = "start" /\ startDate[rvol] # NoDate THEN "start" ELSE "last"
    /\ UNCHANGED <<next, queue, dispatcherVars, actorVars, wd, err, volumeVars>>

\* m.backupSlots <- v, which waits while the channel is full.
Enqueue ==
    /\ rvol # NoVolume /\ look = "send"
    /\ Len(queue) < QueueCap
    /\ queue' = Append(queue, rvol)
    /\ rvol' = NoVolume /\ look' = "last"
    /\ UNCHANGED <<next, ref, dispatcherVars, actorVars, wd, err, volumeVars>>

-----------------------------------------------------------------------------
(* The dispatcher *)

\* A worker goroutine that sends on tearDown after its watchdog has left
\* waits for ever; nothing can observe it, so its identity is used again.
Leaked(w) == pc[w] = "teardown" /\ wd[w] = "released"

Free(w) == (pc[w] = "idle" /\ wd[w] \in {"off", "released"}) \/ Leaked(w)

\* Mutant of Room: one worker too many.
RoomOffByOne(v) == used[HostOf[v]] <= ParallelCount /\ \E w \in Workers : Free(w)

\* The model has |Workers| goroutines: when all are alive the volume is
\* dropped, as it would be for want of a slot.
Room(v) == used[HostOf[v]] < ParallelCount /\ \E w \in Workers : Free(w)

Admit ==
    /\ dvol = NoVolume /\ queue # <<>>
    /\ Room(Head(queue))
    /\ dvol' = Head(queue)
    /\ used' = [used EXCEPT ![HostOf[Head(queue)]] = @ + 1]
    /\ queue' = Tail(queue)
    /\ UNCHANGED <<refresherVars, actorVars, wd, err, volumeVars>>

\* Mutant of Drop: the volume is put back in the queue.
DropPutBack ==
    /\ dvol = NoVolume /\ queue # <<>>
    /\ ~Room(Head(queue))
    /\ queue' = Append(Tail(queue), Head(queue))
    /\ UNCHANGED <<refresherVars, dispatcherVars, actorVars, wd, err, volumeVars>>

Drop ==
    /\ dvol = NoVolume /\ queue # <<>>
    /\ ~Room(Head(queue))
    /\ queue' = Tail(queue)
    /\ UNCHANGED <<refresherVars, dispatcherVars, actorVars, wd, err, volumeVars>>

\* Mutant of RefuseNode: the slot of an unavailable node is kept.
RefuseNodeKeepingSlot ==
    /\ dvol # NoVolume
    /\ Cattle /\ HostOf[dvol] # Unbound
    /\ dvol' = NoVolume
    /\ UNCHANGED <<refresherVars, queue, used, actorVars, wd, err, volumeVars>>

\* IsNodeAvailable said no, which only counts for a bound volume on Cattle.
RefuseNode ==
    /\ dvol # NoVolume
    /\ Cattle /\ HostOf[dvol] # Unbound
    /\ used[HostOf[dvol]] > 0
    /\ used' = [used EXCEPT ![HostOf[dvol]] = @ - 1]
    /\ dvol' = NoVolume
    /\ UNCHANGED <<refresherVars, queue, actorVars, wd, err, volumeVars>>

StartWorker(w) ==
    /\ dvol # NoVolume
    /\ Free(w)
    /\ pc' = [pc EXCEPT ![w] = "begin"]
    /\ vol' = [vol EXCEPT ![w] = dvol]
    /\ wd' = [wd EXCEPT ![w] = "armed"]
    /\ dvol' = NoVolume
    /\ UNCHANGED <<refresherVars, queue, used, job, failed, try, err, volumeVars>>

Spawn(w) == StartWorker(w)

-----------------------------------------------------------------------------
(* Attempts: backupVolume and restoreVolume *)

Goto(a, place) == pc' = [pc EXCEPT ![a] = place]

\* The worker clears err and enters backupVolume, which raises the flag
\* before it asks for the volume's mutex.
Begin(w) ==
    /\ pc[w] = "begin"
    /\ Goto(w, "wait")
    /\ err' = "nil"
    /\ backingUp' = [backingUp EXCEPT ![vol[w]] = TRUE]
    /\ UNCHANGED <<refresherVars, queue, dispatcherVars, vol, job, failed, try,
                   wd, lastBackup, startDate, status, mux>>

RequestBackup(r, v) ==
    /\ pc[r] = "idle"
    /\ Goto(r, "wait")
    /\ vol' = [vol EXCEPT ![r] = v]
    /\ job' = [job EXCEPT ![r] = "backup"]
    /\ backingUp' = [backingUp EXCEPT ![v] = TRUE]
    /\ UNCHANGED <<refresherVars, queue, dispatcherVars, failed, try, wd, err,
                   lastBackup, startDate, status, mux>>

\* A restore raises no flag.
RequestRestore(r, v) ==
    /\ pc[r] = "idle"
    /\ Goto(r, "wait")
    /\ vol' = [vol EXCEPT ![r] = v]
    /\ job' = [job EXCEPT ![r] = "restore"]
    /\ UNCHANGED <<refresherVars, queue, dispatcherVars, failed, try, wd, err, volumeVars>>

Acquire(a) ==
    /\ Goto(a, "locked")
    /\ mux' = [mux EXCEPT ![vol[a]] = a]
    /\ startDate' = [startDate EXCEPT ![vol[a]] = IF job[a] = "backup" THEN 0 ELSE @]
    /\ UNCHANGED <<refresherVars, queue, dispatcherVars, vol, job, failed, try,
                   wd, err, backingUp, lastBackup, status>>

\* Mutant of Lock: the mutex is not taken by every path.
LockUnguarded(a) == pc[a] = "wait" /\ Acquire(a)

\* v.Mux.Lock(), then a backup writes its start date.
Lock(a) ==
    /\ pc[a] = "wait" /\ mux[vol[a]] = NoActor
    /\ Acquire(a)

\* The deferred Unlock runs first; a backup has its other deferred call to do.
\* The error a request returns only shows in its HTTP answer.
Leave(a, error) ==
    /\ Goto(a, IF job[a] = "backup" THEN "unlocked" ELSE "idle")
    /\ mux' = [mux EXCEPT ![vol[a]] = NoActor]
    /\ failed' = [failed EXCEPT ![a] = error /\ a \in Workers]
    /\ UNCHANGED <<refresherVars, queue, dispatcherVars, vol, job, try, wd, err,
                   backingUp, lastBackup, startDate, status>>

ProviderFails(a) == pc[a] = "locked" /\ Leave(a, TRUE)

\* The pre-command, whose failure is ignored, and the call of DeployAgent.
Deploy(a) ==
    /\ pc[a] = "locked"
    /\ Goto(a, "agent")
    /\ UNCHANGED <<refresherVars, queue, dispatcherVars, vol, job, failed, try,
                   wd, err, volumeVars>>

\* DeployAgent returns an error: the post-command does not run.
AgentFails(a) == pc[a] = "agent" /\ Leave(a, TRUE)

\* DeployAgent returns a report, which updateBackupLogs records in the volume
\* whether it comes from a backup or from a restore: first its status ...
AgentReports(a) ==
    /\ pc[a] = "agent"
    /\ Goto(a, "report")
    /\ \E s \in Reports : status' = [status EXCEPT ![vol[a]] = s]
    /\ UNCHANGED <<refresherVars, queue, dispatcherVars, vol, job, failed, try,
                   wd, err, backingUp, lastBackup, startDate, mux>>

\* ... then the date.
Dated(a) ==
    /\ pc[a] = "report"
    /\ Goto(a, "post")
    /\ lastBackup' = [lastBackup EXCEPT ![vol[a]] = 0]
    /\ UNCHANGED <<refresherVars, queue, dispatcherVars, vol, job, failed, try,
                   wd, err, backingUp, startDate, status, mux>>

\* The report is not base64: it is logged and nothing is recorded.
AgentUnreadable(a) ==
    /\ pc[a] = "agent"
    /\ Goto(a, "post")
    /\ UNCHANGED <<refresherVars, queue, dispatcherVars, vol, job, failed, try,
                   wd, err, volumeVars>>

\* The attempt returns the error of its post-command, if it has one.
Finish(a) == pc[a] = "post" /\ \E error \in BOOLEAN : Leave(a, error)

\* Mutant of FlagAfter: the flag is only cleared on the success path.
FlagClearedOnSuccess(a) == failed[a]

\* v.BackingUp = false, whatever the outcome.
FlagAfter(a) == FALSE

\* The deferred function of backupVolume, which runs without the mutex: the flag ...
ClearFlag(a) ==
    /\ pc[a] = "unlocked"
    /\ Goto(a, "unflagged")
    /\ backingUp' = [backingUp EXCEPT ![vol[a]] = FlagAfter(a)]
    /\ UNCHANGED <<refresherVars, queue, dispatcherVars, vol, job, failed, try,
                   wd, err, lastBackup, startDate, status, mux>>

\* ... and v.LastBackupStartDate = "".
ClearStartDate(a) ==
    /\ pc[a] = "unflagged"
    /\ Goto(a, IF a \in Workers THEN "returned" ELSE "idle")
    /\ startDate' = [startDate EXCEPT ![vol[a]] = NoDate]
    /\ UNCHANGED <<refresherVars, queue, dispatcherVars, vol, job, failed, try,
                   wd, err, backingUp, lastBackup, status, mux>>

-----------------------------------------------------------------------------
(* The worker's retry loop and its end *)

\* err = backupVolume(m, v, false)
Assign(w) ==
    /\ pc[w] = "returned"
    /\ Goto(w, "check")
    /\ err' = IF failed[w] THEN "error" ELSE "nil"
    /\ failed' = [failed EXCEPT ![w] = FALSE]
    /\ UNCHANGED <<refresherVars, queue, dispatcherVars, vol, job, try, wd,
                   volumeVars>>

\* if err != nil { ...; time.Sleep(2 * time.Second) } else { break }
Check(w) ==
    /\ pc[w] = "check"
    /\ Goto(w, IF err = "error" THEN "sleep" ELSE "exit")
    /\ UNCHANGED <<refresherVars, queue, dispatcherVars, vol, job, failed, try,
                   wd, err, volumeVars>>

TryAgain(w) ==
    /\ pc[w] = "sleep"
    /\ try' = [try EXCEPT ![w] = @ + 1]
    /\ Goto(w, "wait")
    /\ backingUp' = [backingUp EXCEPT ![vol[w]] = TRUE]
    /\ UNCHANGED <<refresherVars, queue, dispatcherVars, vol, job, failed, wd,
                   err, lastBackup, startDate, status, mux>>

\* Mutant of Retry: one attempt too many.
RetryOnceMore(w) == try[w] <= RetryCount /\ TryAgain(w)

Retry(w) == try[w] < RetryCount /\ TryAgain(w)

GiveUp(w) ==
    /\ pc[w] = "sleep" /\ try[w] = RetryCount
    /\ Goto(w, "exit")
    /\ UNCHANGED <<refresherVars, queue, dispatcherVars, vol, job, failed, try,
                   wd, err, volumeVars>>

TimedOut(w) == wd[w] \in {"flagged", "released"}

\* Mutant of AfterLoop: the slot is released without stopping the watchdog.
AfterLoopWithoutTearDown(w) == IF TimedOut(w) THEN "idle" ELSE "release"

\* if !timedout { tearDown <- true; <-slots[v.HostBind] }
AfterLoop(w) == IF TimedOut(w) THEN "idle" ELSE "teardown"

\* The deferred function of the worker reads timedout. A goroutine that ends
\* takes its variables with it, unless its watchdog still needs the volume.
Exit(w) ==
    /\ pc[w] = "exit"
    /\ Goto(w, AfterLoop(w))
    /\ try' = [try EXCEPT ![w] = 0]
    /\ vol' = [vol EXCEPT ![w] = IF wd[w] = "released" THEN NoVolume ELSE @]
    /\ UNCHANGED <<refresherVars, queue, dispatcherVars, job, failed, wd, err,
                   volumeVars>>

\* Mutant of TearDown: a buffered channel, so the send never waits.
TearDownBuffered(w) ==
    /\ pc[w] = "teardown"
    /\ Goto(w, "release")
    /\ wd' = [wd EXCEPT ![w] = IF @ = "armed" THEN "off" ELSE @]
    /\ UNCHANGED <<refresherVars, queue, dispatcherVars, vol, job, failed, try,
                   err, volumeVars>>

\* tearDown is unbuffered: the send needs the watchdog to be waiting.
TearDown(w) ==
    /\ pc[w] = "teardown" /\ wd[w] = "armed"
    /\ Goto(w, "release")
    /\ wd' = [wd EXCEPT ![w] = "off"]
    /\ UNCHANGED <<refresherVars, queue, dispatcherVars, vol, job, failed, try,
                   err, volumeVars>>

\* <-slots[v.HostBind]
GiveBack(w) ==
    /\ used[HostOf[vol[w]]] > 0
    /\ used' = [used EXCEPT ![HostOf[vol[w]]] = @ - 1]
    /\ UNCHANGED <<refresherVars, queue, dvol, job, failed, try, err, volumeVars>>

Release(w) ==
    /\ pc[w] = "release"
    /\ Goto(w, "idle")
    /\ GiveBack(w)
    /\ vol' = [vol EXCEPT ![w] = IF wd[w] = "off" THEN NoVolume ELSE @]
    /\ UNCHANGED wd

-----------------------------------------------------------------------------
(* The watchdog *)

WatchdogStep(w, from, to) ==
    /\ wd[w] = from
    /\ wd' = [wd EXCEPT ![w] = to]

Expire(w) ==
    /\ WatchdogStep(w, "armed", "expired")
    /\ UNCHANGED <<refresherVars, queue, dispatcherVars, actorVars, err, volumeVars>>

FlagTimeout(w) ==
    /\ WatchdogStep(w, "expired", "flagged")
    /\ UNCHANGED <<refresherVars, queue, dispatcherVars, actorVars, err, volumeVars>>

TakeSlotBack(w) ==
    /\ WatchdogStep(w, "flagged", "released")
    /\ GiveBack(w)
    /\ vol' = [vol EXCEPT ![w] = IF pc[w] \in {"idle", "teardown"} THEN NoVolume ELSE @]
    /\ UNCHANGED pc

\* Mutant of WatchdogRelease: the slot waits for the end of the backup.
WatchdogReleaseAtEnd(w) == pc[w] = "idle" /\ TakeSlotBack(w)

WatchdogRelease(w) == TakeSlotBack(w)

-----------------------------------------------------------------------------

Older(d) == IF d = NoDate \/ d = AgeCap THEN d ELSE d + 1

Tick ==
    /\ lastBackup' = [v \in Volumes |-> Older(lastBackup[v])]
    /\ startDate' = [v \in Volumes |-> Older(startDate[v])]
    /\ UNCHANGED <<refresherVars, queue, dispatcherVars, actorVars, wd, err,
                   backingUp, status, mux>>

Refresher == Refresh \/ Examine \/ IsBackupNeeded \/ Enqueue

DispatcherStep == Admit \/ Drop \/ RefuseNode \/ \E w \in Workers : Spawn(w)

\* The steps of backupVolume and restoreVolume that wait for the orchestrator.
OrchestratorStep(a) ==
    \/ ProviderFails(a) \/ Deploy(a)
    \/ AgentFails(a) \/ AgentReports(a) \/ AgentUnreadable(a)
    \/ Finish(a)

\* Those that do not.
LocalStep(a) == Dated(a) \/ ClearFlag(a) \/ ClearStartDate(a)

WorkerStep(w) ==
    \/ Begin(w) \/ Assign(w) \/ Check(w) \/ Retry(w) \/ GiveUp(w)
    \/ Exit(w) \/ TearDown(w) \/ Release(w)

Watchdog(w) == Expire(w) \/ FlagTimeout(w) \/ WatchdogRelease(w)

Next ==
    \/ Refresher
    \/ DispatcherStep
    \/ \E w \in Workers : WorkerStep(w) \/ Watchdog(w)
    \/ \E a \in Actors : Lock(a) \/ OrchestratorStep(a) \/ LocalStep(a)
    \/ \E r \in Requests, v \in Volumes : RequestBackup(r, v) \/ RequestRestore(r, v)
    \/ Tick

Spec == Init /\ [][Next]_vars

(***************************************************************************)
(* The goroutines of Start run and timers fire. Nothing is assumed of the  *)
(* attempts: an agent, a command in a container or the wait for a volume's *)
(* mutex may hang for ever.                                                *)
(***************************************************************************)
Fairness ==
    /\ WF_vars(Refresher)
    /\ WF_vars(DispatcherStep)
    /\ \A w \in Workers : WF_vars(WorkerStep(w)) /\ WF_vars(Watchdog(w))

(***************************************************************************)
(* Agents end, commands return, and attempts go on; the starvation mode of *)
(* sync.Mutex gives the lock to each waiter in turn; time passes. Nothing  *)
(* is assumed of the requests' arrival.                                    *)
(***************************************************************************)
AttemptFairness ==
    /\ \A a \in Actors :
        WF_vars(OrchestratorStep(a)) /\ WF_vars(LocalStep(a)) /\ SF_vars(Lock(a))
    /\ WF_vars(Tick)

FairSpec == Spec /\ Fairness

LiveSpec == FairSpec /\ AttemptFairness

-----------------------------------------------------------------------------
(* Properties *)

\* A worker owns its slot until its watchdog has given it back, or, once the
\* watchdog was torn down, until the worker itself has.
Leasing(w) == wd[w] \in {"armed", "expired", "flagged"} \/ pc[w] = "release"

Leases(h) ==
    {w \in Workers : Leasing(w) /\ HostOf[vol[w]] = h}
        \union {d \in {Dispatcher} : dvol # NoVolume /\ HostOf[dvol] = h}

\* The channel slots[h], a bare counter, always agrees with the number of
\* dispatches, workers and watchdogs that still have to release one slot of h:
\* through every race of a timeout with the end of a backup no slot is lost,
\* none is released twice, and no release can block on an empty channel.
SlotAccounting ==
    \A h \in Hosts :
        used[h] = Cardinality(Leases(h)) /\ used[h] <= ParallelCount

\* On each host, the agents deployed by the scheduler for workers that have
\* not been written off after one hour are at most ParallelCount.
ScheduledAgentsBounded ==
    \A h \in Hosts :
        Cardinality({w \in Workers : /\ pc[w] = "agent"
                                     /\ wd[w] # "released"
                                     /\ HostOf[vol[w]] = h}) <= ParallelCount

\* No two agents work on one volume at a time, whatever mixture of scheduled
\* backups, retries, manual backups and restores is under way.
AgentExclusion ==
    \A a, b \in Actors :
        pc[a] = "agent" /\ pc[b] = "agent" /\ vol[a] = vol[b] => a = b

At(a, v, places) == vol[a] = v /\ job[a] = "backup" /\ pc[a] \in places

\* A volume is marked BackingUp only while some backup of it is under way, and
\* carries a start date only while one that took the mutex has yet to clear it:
\* the marks, which decide whether the scheduler tries the volume again, are
\* not left behind by any failure path or order of two overlapping attempts.
MarksHaveOwner ==
    \A v \in Volumes :
        /\ backingUp[v] => \E a \in Actors : At(a, v, Attempting \ {"unflagged"})
        /\ startDate[v] # NoDate => \E a \in Actors : At(a, v, Attempting \ {"wait"})

\* The slots implement a pool of owned slots.
Pool == INSTANCE SlotPool WITH
            Holders <- Workers \union {Dispatcher},
            Capacity <- ParallelCount,
            held <- [h \in Hosts |-> Leases(h)]

PoolSpec == Pool!Spec

\* Each slot is released even when the agent it was taken for never ends.
SlotReturned == Pool!EverySlotReturned

\* The refresher never waits for ever for room in backupSlots, even when every
\* agent hangs: the dispatcher keeps draining the queue.
RefresherNeverStuck == rvol # NoVolume ~> rvol = NoVolume

Tried(v) == \E w \in Workers : vol[w] = v /\ pc[w] = "locked"

\* The dispatcher drops v while a worker is at another volume of its host.
CrowdedOut(v) ==
    /\ Drop
    /\ Head(queue) = v
    /\ \E w \in Workers : ~Free(w) /\ vol[w] # v /\ HostOf[vol[w]] = HostOf[v]

\* If agents end, a volume is tried again and again, whatever fails and however
\* attempts overlap, unless it is sent to the dispatcher again and again and
\* finds its host at work for other volumes each time: nothing but a want of
\* slots ends the backups of a volume. (Want of slots does: a volume that always
\* fails stays due, and one slot may be taken for it in every round.)
TriedOrCrowdedOut ==
    \A v \in Volumes : []<>Tried(v) \/ []<><<CrowdedOut(v)>>_vars

-----------------------------------------------------------------------------
(* What the documentation says and the code does not do *)

\* README.md: the minimum interval between automatic backups of one volume.
\* No worker deploys an agent for a volume whose last backup succeeded less
\* than Interval ago.
MinimumInterval ==
    [][\A w \in Workers :
        pc[w] = "locked" /\ pc'[w] = "agent" =>
            ~(status[vol[w]] = "Success" /\ lastBackup[vol[w]] <= Interval)]_vars
=============================================================================
