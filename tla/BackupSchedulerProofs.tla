------------------------ MODULE BackupSchedulerProofs ------------------------
(***************************************************************************)
(* Theorems about BackupScheduler, for every set of volumes, hosts,        *)
(* workers and requests and every value of the counts and intervals.       *)
(***************************************************************************)
EXTENDS BackupScheduler, TLAPS, FiniteSetTheorems

-----------------------------------------------------------------------------
(* Type correctness *)

\* The walk of the refresher is finite.
LEMMA LenVolumes == Len(VolumeSeq) \in Nat
  BY VolumesAssumption

\* What taking the first element of a queue leaves.
LEMMA TailQueue ==
    ASSUME NEW q \in Seq(Volumes), q # <<>>
    PROVE  /\ Head(q) \in Volumes
           /\ Tail(q) \in Seq(Volumes)
           /\ Len(Tail(q)) < Len(q)
           /\ Len(q) \in Nat /\ Len(Tail(q)) \in Nat
  OBVIOUS

\* What sending on a queue that has room leaves.
LEMMA AppendQueue ==
    ASSUME NEW q \in Seq(Volumes), NEW v \in Volumes, Len(q) < QueueCap
    PROVE  Append(q, v) \in Seq(Volumes) /\ Len(Append(q, v)) <= QueueCap
  BY BoundsAssumption

\* Taking a slot, and giving back one that was taken, leave natural numbers.
LEMMA Counters ==
    ASSUME NEW f \in [Hosts -> Nat], NEW h
    PROVE  /\ [f EXCEPT ![h] = @ + 1] \in [Hosts -> Nat]
           /\ f[h] > 0 => [f EXCEPT ![h] = @ - 1] \in [Hosts -> Nat]
<1>1. CASE h \in Hosts
  BY <1>1
<1>2. CASE h \notin Hosts
  <2>1. [f EXCEPT ![h] = @ + 1] = f /\ [f EXCEPT ![h] = @ - 1] = f
    BY <1>2, Zenon
  <2> QED
    BY <2>1
<1> QED
  BY <1>1, <1>2

\* The initial states are well typed.
LEMMA InitType == Init => TypeOK
<1> SUFFICES ASSUME Init PROVE TypeOK
  OBVIOUS
<1>1. QueueTypeOK
  <2>1. next \in 1..(Len(VolumeSeq) + 1)
    <3>1. next = 1
      BY DEF Init
    <3> QED
      BY <3>1, LenVolumes
  <2>2. queue \in Seq(Volumes) /\ Len(queue) <= QueueCap
    <3>1. queue = <<>>
      BY DEF Init
    <3> QED
      BY <3>1, BoundsAssumption
  <2> QED
    BY <2>1, <2>2 DEF Init, QueueTypeOK
<1>2. ActorTypeOK
  <2>1. try \in [Workers -> 0..RetryCount]
    BY BoundsAssumption DEF Init
  <2> QED
    BY <2>1 DEF Init, ActorTypeOK, Places, RequestPlaces, Attempting, WatchdogStates, Actors
<1>3. VolumeTypeOK
  <2>1. lastBackup \in [Volumes -> Dates] /\ startDate \in [Volumes -> Dates]
    BY BoundsAssumption DEF Init, Dates
  <2>2. InitialStatus \in [Volumes -> {"", "Unknown", "Success", "Failed"}]
    BY DEF InitialStatus
  <2> QED
    BY <2>1, <2>2 DEF Init, VolumeTypeOK
<1> QED
  BY <1>1, <1>2, <1>3 DEF TypeOK

\* The refresher, the queue and the dispatcher stay well typed.
LEMMA NextQueueType == TypeOK /\ [Next]_vars => QueueTypeOK'
<1> SUFFICES ASSUME TypeOK, [Next]_vars PROVE QueueTypeOK'
  OBVIOUS
<1> USE DEF refresherVars, dispatcherVars
<1>t. QueueTypeOK
  BY DEF TypeOK
<1>u. ASSUME UNCHANGED <<refresherVars, queue, dispatcherVars>> PROVE QueueTypeOK'
  BY <1>t, <1>u DEF QueueTypeOK
<1>1. CASE Refresh
  <2>1. next' \in 1..(Len(VolumeSeq) + 1)
    <3>1. next' = 1
      BY <1>1 DEF Refresh
    <3> QED
      BY <3>1, LenVolumes
  <2> QED
    BY <1>1, <1>t, <2>1 DEF Refresh, QueueTypeOK
<1>2. CASE Examine
  <2>1. next \in 1..(Len(VolumeSeq) + 1) /\ next <= Len(VolumeSeq) /\ next' = next + 1
    BY <1>2, <1>t DEF Examine, QueueTypeOK
  <2>2. VolumeSeq[next] \in Volumes
    BY <2>1, VolumesAssumption
  <2>3. next' \in 1..(Len(VolumeSeq) + 1)
    BY <2>1, LenVolumes
  <2> QED
    BY <1>2, <1>t, <2>2, <2>3 DEF Examine, QueueTypeOK
<1>n. CASE IsBackupNeeded
  <2>1. Verdict \in {"skip", "start", "date", "status", "send"}
    BY <1>n, <1>t DEF IsBackupNeeded, Verdict, QueueTypeOK
  <2> QED
    BY <1>n, <1>t, <2>1 DEF IsBackupNeeded, QueueTypeOK
<1>3. CASE Enqueue
  <2>1. rvol \in Volumes /\ queue \in Seq(Volumes)
    BY <1>3, <1>t DEF Enqueue, QueueTypeOK
  <2>2. queue' \in Seq(Volumes) /\ Len(queue') <= QueueCap
    BY <1>3, <2>1, AppendQueue DEF Enqueue
  <2> QED
    BY <1>3, <1>t, <2>2 DEF Enqueue, QueueTypeOK
<1>4. ASSUME queue # <<>>, queue' = Tail(queue)
      PROVE  /\ Head(queue) \in Volumes
             /\ queue' \in Seq(Volumes) /\ Len(queue') <= QueueCap
  <2>1. queue \in Seq(Volumes) /\ Len(queue) <= QueueCap
    BY <1>t DEF QueueTypeOK
  <2> QED
    BY <2>1, <1>4, TailQueue, BoundsAssumption
<1>5. CASE Admit
  <2>1. used' \in [Hosts -> Nat]
    <3>1. used \in [Hosts -> Nat] /\ used' = [used EXCEPT ![HostOf[Head(queue)]] = @ + 1]
      BY <1>5, <1>t DEF Admit, QueueTypeOK
    <3> QED
      BY <3>1, Counters
  <2> QED
    BY <1>5, <1>4, <1>t, <2>1 DEF Admit, QueueTypeOK
<1>6. CASE Drop
  BY <1>6, <1>4, <1>t DEF Drop, QueueTypeOK
<1>7. CASE RefuseNode
  <2>1. used' \in [Hosts -> Nat]
    <3>1. /\ used \in [Hosts -> Nat]
          /\ used[HostOf[dvol]] > 0
          /\ used' = [used EXCEPT ![HostOf[dvol]] = @ - 1]
      BY <1>7, <1>t DEF RefuseNode, QueueTypeOK
    <3> QED
      BY <3>1, Counters
  <2> QED
    BY <1>7, <1>t, <2>1 DEF RefuseNode, QueueTypeOK
<1>8. ASSUME NEW w \in Workers, Spawn(w) PROVE QueueTypeOK'
  BY <1>8, <1>t DEF Spawn, StartWorker, QueueTypeOK
<1>9. ASSUME NEW w \in Workers, GiveBack(w) PROVE QueueTypeOK'
  <2>1. used' \in [Hosts -> Nat]
    <3>1. /\ used \in [Hosts -> Nat]
          /\ used[HostOf[vol[w]]] > 0
          /\ used' = [used EXCEPT ![HostOf[vol[w]]] = @ - 1]
      BY <1>9, <1>t DEF GiveBack, QueueTypeOK
    <3> QED
      BY <3>1, Counters
  <2> QED
    BY <1>9, <1>t, <2>1 DEF GiveBack, QueueTypeOK
<1>10. ASSUME NEW w \in Workers, WorkerStep(w) PROVE QueueTypeOK'
  BY <1>10, <1>9, <1>u DEF WorkerStep, Begin, Assign, Check, Retry, TryAgain,
     GiveUp, Exit, TearDown, Release
<1>11. ASSUME NEW w \in Workers, Watchdog(w) PROVE QueueTypeOK'
  BY <1>11, <1>9, <1>u DEF Watchdog, Expire, FlagTimeout, WatchdogRelease, TakeSlotBack
<1>12. ASSUME NEW a \in Actors, Lock(a) \/ OrchestratorStep(a) PROVE QueueTypeOK'
  BY <1>12, <1>u DEF Lock, Acquire, OrchestratorStep, ProviderFails, Deploy,
     AgentFails, AgentReports, AgentUnreadable, Finish, Leave
<1>13. ASSUME NEW a \in Actors, LocalStep(a) PROVE QueueTypeOK'
  BY <1>13, <1>u DEF LocalStep, Dated, ClearFlag, FlagAfter, ClearStartDate
<1>14. ASSUME NEW r \in Requests, NEW v \in Volumes,
              RequestBackup(r, v) \/ RequestRestore(r, v)
       PROVE  QueueTypeOK'
  BY <1>14, <1>u DEF RequestBackup, RequestRestore
<1>15. CASE Tick
  BY <1>15, <1>u DEF Tick
<1>16. CASE UNCHANGED vars
  BY <1>16, <1>u DEF vars
<1> QED
  BY <1>1, <1>2, <1>n, <1>3, <1>5, <1>6, <1>7, <1>8, <1>10, <1>11, <1>12, <1>13,
     <1>14, <1>15, <1>16 DEF Next, Refresher, DispatcherStep

\* The goroutines' own variables stay well typed.
LEMMA NextActorType == TypeOK /\ [Next]_vars => ActorTypeOK'
<1> SUFFICES ASSUME TypeOK, [Next]_vars PROVE ActorTypeOK'
  OBVIOUS
<1>t. ActorTypeOK
  BY DEF TypeOK
<1>u. ASSUME UNCHANGED <<actorVars, wd>>, err' \in {"nil", "error"} PROVE ActorTypeOK'
  BY <1>t, <1>u DEF actorVars, ActorTypeOK
<1>e. err \in {"nil", "error"}
  BY <1>t DEF ActorTypeOK
<1>d. Workers \subseteq Actors /\ Requests \subseteq Actors /\ Workers \intersect Requests = {}
  BY ActorsAssumption DEF Actors
<1>g. ASSUME NEW a \in Actors, NEW p \in Places, p \in RequestPlaces \/ a \in Workers,
             Goto(a, p)
      PROVE  pc' \in [Actors -> Places] /\ \A r \in Requests : pc'[r] \in RequestPlaces
  BY <1>g, <1>t, <1>d DEF Goto, ActorTypeOK
<1>v. ASSUME NEW a \in Actors, NEW v \in Volumes \union {NoVolume}
      PROVE  [vol EXCEPT ![a] = v] \in [Actors -> Volumes \union {NoVolume}]
  BY <1>t DEF ActorTypeOK
<1> USE DEF Places, RequestPlaces, Attempting, WatchdogStates
<1>1. CASE Refresher
  BY <1>1, <1>u, <1>e DEF Refresher, Refresh, Examine, IsBackupNeeded, Enqueue
<1>2. CASE Admit \/ Drop \/ RefuseNode
  BY <1>2, <1>u, <1>e DEF Admit, Drop, RefuseNode
<1>3. ASSUME NEW w \in Workers, Spawn(w) PROVE ActorTypeOK'
  <2>1. dvol \in Volumes \union {NoVolume}
    BY DEF TypeOK, QueueTypeOK
  <2> QED
    BY <1>3, <1>t, <1>d, <2>1 DEF Spawn, StartWorker, ActorTypeOK
<1>4. ASSUME NEW w \in Workers, Begin(w) PROVE ActorTypeOK'
  BY <1>4, <1>t, <1>d DEF Begin, Goto, ActorTypeOK
<1>5. ASSUME NEW a \in Actors, LocalStep(a) PROVE ActorTypeOK'
  <2>1. CASE Dated(a) \/ ClearFlag(a)
    BY <2>1, <1>t, <1>d DEF Dated, ClearFlag, Goto, ActorTypeOK
  <2>2. CASE ClearStartDate(a)
    BY <2>2, <1>t, <1>d DEF ClearStartDate, Goto, Actors, ActorTypeOK
  <2> QED
    BY <1>5, <2>1, <2>2 DEF LocalStep
<1>6. ASSUME NEW w \in Workers, Assign(w) \/ Check(w) PROVE ActorTypeOK'
  BY <1>6, <1>t, <1>d DEF Assign, Check, Goto, ActorTypeOK
<1>7. ASSUME NEW w \in Workers, Retry(w) PROVE ActorTypeOK'
  <2>1. try' \in [Workers -> 0..RetryCount]
    BY <1>7, <1>t, BoundsAssumption DEF Retry, TryAgain, ActorTypeOK
  <2> QED
    BY <1>7, <1>t, <1>d, <2>1 DEF Retry, TryAgain, Goto, ActorTypeOK
<1>8. ASSUME NEW w \in Workers, GiveUp(w) PROVE ActorTypeOK'
  BY <1>8, <1>t, <1>d DEF GiveUp, Goto, ActorTypeOK
<1>9. ASSUME NEW w \in Workers, Exit(w) PROVE ActorTypeOK'
  <2>1. try' \in [Workers -> 0..RetryCount]
    BY <1>9, <1>t, BoundsAssumption DEF Exit, AfterLoop, TimedOut, ActorTypeOK
  <2> QED
    BY <1>9, <1>t, <1>d, <2>1 DEF Exit, AfterLoop, TimedOut, Goto, ActorTypeOK
<1>10. ASSUME NEW w \in Workers, TearDown(w) PROVE ActorTypeOK'
  BY <1>10, <1>t, <1>d DEF TearDown, Goto, ActorTypeOK
<1>11. ASSUME NEW w \in Workers, Release(w) PROVE ActorTypeOK'
  BY <1>11, <1>t, <1>d DEF Release, GiveBack, Goto, ActorTypeOK
<1>12. ASSUME NEW w \in Workers, Expire(w) \/ FlagTimeout(w) PROVE ActorTypeOK'
  BY <1>12, <1>t, <1>d DEF Expire, FlagTimeout, WatchdogStep, actorVars, ActorTypeOK
<1>13. ASSUME NEW w \in Workers, WatchdogRelease(w) PROVE ActorTypeOK'
  BY <1>13, <1>t, <1>d DEF WatchdogRelease, TakeSlotBack, WatchdogStep, GiveBack, ActorTypeOK
<1>14. ASSUME NEW a \in Actors, Lock(a) PROVE ActorTypeOK'
  BY <1>14, <1>t, <1>d DEF Lock, Acquire, Goto, ActorTypeOK
<1>15. ASSUME NEW a \in Actors, NEW error \in BOOLEAN, Leave(a, error) PROVE ActorTypeOK'
  BY <1>15, <1>t, <1>d DEF Leave, Goto, ActorTypeOK
<1>16. ASSUME NEW a \in Actors, OrchestratorStep(a) PROVE ActorTypeOK'
  <2>1. ASSUME Deploy(a) \/ AgentReports(a) \/ AgentUnreadable(a) PROVE ActorTypeOK'
    BY <2>1, <1>t, <1>d DEF Deploy, AgentReports, AgentUnreadable, Goto, ActorTypeOK
  <2> QED
    BY <2>1, <1>15, <1>16 DEF OrchestratorStep, ProviderFails, AgentFails, Finish
<1>17. ASSUME NEW r \in Requests, NEW v \in Volumes,
              RequestBackup(r, v) \/ RequestRestore(r, v)
       PROVE  ActorTypeOK'
  BY <1>17, <1>t, <1>d DEF RequestBackup, RequestRestore, Goto, ActorTypeOK
<1>18. CASE Tick
  BY <1>18, <1>u, <1>e DEF Tick
<1>19. CASE UNCHANGED vars
  BY <1>19, <1>u, <1>e DEF vars
<1> QED
  BY <1>d, <1>1, <1>2, <1>3, <1>4, <1>5, <1>6, <1>7, <1>8, <1>9, <1>10, <1>11, <1>12,
     <1>13, <1>14, <1>16, <1>17, <1>18, <1>19
     DEF Next, DispatcherStep, WorkerStep, Watchdog

\* The fields of the volumes stay well typed.
LEMMA NextVolumeType == TypeOK /\ [Next]_vars => VolumeTypeOK'
<1> SUFFICES ASSUME TypeOK, [Next]_vars PROVE VolumeTypeOK'
  OBVIOUS
<1>t. VolumeTypeOK
  BY DEF TypeOK
<1>u. ASSUME UNCHANGED volumeVars PROVE VolumeTypeOK'
  BY <1>t, <1>u DEF volumeVars, VolumeTypeOK
<1>d. Workers \subseteq Actors /\ Requests \subseteq Actors
  BY DEF Actors
<1>n. 0 \in Dates /\ NoDate \in Dates
  BY BoundsAssumption DEF Dates
<1>1. CASE Refresher
  BY <1>1, <1>u DEF Refresher, Refresh, Examine, IsBackupNeeded, Enqueue
<1>2. CASE DispatcherStep
  BY <1>2, <1>u DEF DispatcherStep, Admit, Drop, RefuseNode, Spawn, StartWorker
<1>3. ASSUME NEW a \in Actors, LocalStep(a) PROVE VolumeTypeOK'
  BY <1>3, <1>t, <1>n DEF LocalStep, Dated, ClearFlag, FlagAfter, ClearStartDate,
     VolumeTypeOK
<1>4. ASSUME NEW w \in Workers, WorkerStep(w) PROVE VolumeTypeOK'
  <2>1. ASSUME Begin(w) \/ Retry(w) PROVE VolumeTypeOK'
    BY <2>1, <1>t DEF Begin, Retry, TryAgain, VolumeTypeOK
  <2>2. ASSUME \/ Assign(w) \/ Check(w) \/ GiveUp(w) \/ Exit(w)
               \/ TearDown(w) \/ Release(w)
        PROVE  UNCHANGED volumeVars
    BY <2>2 DEF Assign, Check, GiveUp, Exit, AfterLoop, TearDown, Release, GiveBack
  <2> QED
    BY <1>4, <1>u, <2>1, <2>2 DEF WorkerStep
<1>5. ASSUME NEW w \in Workers, Watchdog(w) PROVE VolumeTypeOK'
  BY <1>5, <1>u DEF Watchdog, Expire, FlagTimeout, WatchdogRelease, TakeSlotBack, GiveBack
<1>6. ASSUME NEW a \in Actors, Lock(a) PROVE VolumeTypeOK'
  <2>1. startDate' \in [Volumes -> Dates]
    BY <1>6, <1>t, <1>n DEF Lock, Acquire, VolumeTypeOK
  <2> QED
    BY <1>6, <1>t, <2>1 DEF Lock, Acquire, VolumeTypeOK
<1>7. ASSUME NEW a \in Actors, NEW error, Leave(a, error) PROVE VolumeTypeOK'
  BY <1>7, <1>t DEF Leave, VolumeTypeOK
<1>8. ASSUME NEW a \in Actors, OrchestratorStep(a) PROVE VolumeTypeOK'
  <2>1. ASSUME AgentReports(a) PROVE VolumeTypeOK'
    BY <2>1, <1>t, BoundsAssumption DEF AgentReports, VolumeTypeOK
  <2>2. ASSUME Deploy(a) \/ AgentUnreadable(a) PROVE VolumeTypeOK'
    BY <2>2, <1>u DEF Deploy, AgentUnreadable
  <2> QED
    BY <1>8, <1>7, <2>1, <2>2 DEF OrchestratorStep, ProviderFails, AgentFails, Finish
<1>9. ASSUME NEW r \in Requests, NEW v \in Volumes,
             RequestBackup(r, v) \/ RequestRestore(r, v)
      PROVE  VolumeTypeOK'
  BY <1>9, <1>t, <1>u DEF RequestBackup, RequestRestore, VolumeTypeOK
<1>10. CASE Tick
  <2>1. ASSUME NEW d \in Dates PROVE Older(d) \in Dates
    BY BoundsAssumption DEF Older, Dates
  <2> QED
    BY <1>10, <1>t, <2>1 DEF Tick, VolumeTypeOK
<1>11. CASE UNCHANGED vars
  BY <1>11, <1>u DEF vars
<1> QED
  BY <1>d, <1>1, <1>2, <1>3, <1>4, <1>5, <1>6, <1>8, <1>9, <1>10, <1>11 DEF Next

\* Every variable keeps its type in every behaviour of the scheduler.
THEOREM TypeCorrect == Spec => []TypeOK
<1>1. TypeOK /\ [Next]_vars => TypeOK'
  BY NextQueueType, NextActorType, NextVolumeType DEF TypeOK
<1> QED
  BY InitType, <1>1, PTL DEF Spec

-----------------------------------------------------------------------------
(* The inductive invariant *)

\* Where a worker and its watchdog may be at the same time. This is what makes
\* the two releases of a slot, Release and WatchdogRelease, exclude each other.
WatchdogCoupling ==
    \A w \in Workers :
        /\ pc[w] = "idle" => wd[w] \in {"off", "flagged", "released"}
        /\ pc[w] = "release" => wd[w] = "off"
        /\ pc[w] \notin {"idle", "release"} => wd[w] # "off"

\* Whoever still needs a volume knows it.
VolumeKnown ==
    /\ \A a \in Actors : pc[a] \notin {"idle", "teardown"} => vol[a] \in Volumes
    /\ \A w \in Workers : wd[w] \in {"armed", "expired", "flagged"} => vol[w] \in Volumes

\* Between Lock and Leave an actor holds the mutex of its volume.
MutexHeld ==
    \A a \in Actors : pc[a] \in {"locked", "agent", "report", "post"} => mux[vol[a]] = a

Coupling == WatchdogCoupling /\ VolumeKnown

\* Workers, watchdogs and volumes start uncoupled.
LEMMA InitCoupling == Init => Coupling /\ MutexHeld
  BY DEF Init, Coupling, WatchdogCoupling, VolumeKnown, MutexHeld, Actors

\* A worker and its watchdog stay coupled.
LEMMA NextCoupling == TypeOK /\ Coupling /\ [Next]_vars => Coupling'
<1> SUFFICES ASSUME TypeOK, Coupling, [Next]_vars PROVE Coupling'
  OBVIOUS
<1>t. ActorTypeOK
  BY DEF TypeOK
<1>d. Workers \subseteq Actors /\ Requests \subseteq Actors /\ Workers \intersect Requests = {}
  BY ActorsAssumption DEF Actors
<1>u. ASSUME UNCHANGED <<actorVars, wd>> PROVE Coupling'
  BY <1>u DEF Coupling, WatchdogCoupling, VolumeKnown, actorVars
<1> USE DEF Coupling, WatchdogCoupling, VolumeKnown
<1>1. CASE Refresher
  BY <1>1, <1>u DEF Refresher, Refresh, Examine, IsBackupNeeded, Enqueue
<1>2. CASE Admit \/ Drop \/ RefuseNode
  BY <1>2, <1>u DEF Admit, Drop, RefuseNode
<1>3. ASSUME NEW w \in Workers, Spawn(w) PROVE Coupling'
  <2>1. dvol \in Volumes
    BY <1>3 DEF Spawn, StartWorker, TypeOK, QueueTypeOK
  <2> QED
    BY <1>3, <1>t, <1>d, <2>1 DEF Spawn, StartWorker, ActorTypeOK
<1>4. ASSUME NEW a \in Actors, LocalStep(a) PROVE Coupling'
  BY <1>4, <1>t, <1>d DEF LocalStep, Dated, ClearFlag, ClearStartDate, Goto, ActorTypeOK
<1>5. ASSUME NEW w \in Workers,
             Begin(w) \/ Assign(w) \/ Check(w) \/ Retry(w) \/ GiveUp(w)
      PROVE  Coupling'
  BY <1>5, <1>t, <1>d DEF Begin, Assign, Check, Retry, TryAgain, GiveUp, Goto, ActorTypeOK
<1>6. ASSUME NEW w \in Workers, Exit(w) PROVE Coupling'
  BY <1>6, <1>t, <1>d DEF Exit, AfterLoop, TimedOut, Goto, ActorTypeOK
<1>7. ASSUME NEW w \in Workers, TearDown(w) PROVE Coupling'
  BY <1>7, <1>t, <1>d DEF TearDown, Goto, ActorTypeOK
<1>8. ASSUME NEW w \in Workers, Release(w) PROVE Coupling'
  BY <1>8, <1>t, <1>d DEF Release, Goto, ActorTypeOK
<1>9. ASSUME NEW w \in Workers, Expire(w) \/ FlagTimeout(w) PROVE Coupling'
  BY <1>9, <1>t, <1>d DEF Expire, FlagTimeout, WatchdogStep, actorVars, ActorTypeOK
<1>10. ASSUME NEW w \in Workers, WatchdogRelease(w) PROVE Coupling'
  BY <1>10, <1>t, <1>d DEF WatchdogRelease, TakeSlotBack, WatchdogStep, ActorTypeOK
<1>11. ASSUME NEW a \in Actors, Lock(a) PROVE Coupling'
  BY <1>11, <1>t, <1>d DEF Lock, Acquire, Goto, ActorTypeOK
<1>12. ASSUME NEW a \in Actors, NEW error,
              Leave(a, error), pc[a] \in {"locked", "agent", "report", "post"}
       PROVE  Coupling'
  BY <1>12, <1>t, <1>d DEF Leave, Goto, ActorTypeOK
<1>13. ASSUME NEW a \in Actors, OrchestratorStep(a) PROVE Coupling'
  <2>1. ASSUME Deploy(a) \/ AgentReports(a) \/ AgentUnreadable(a) PROVE Coupling'
    BY <2>1, <1>t, <1>d DEF Deploy, AgentReports, AgentUnreadable, Goto, ActorTypeOK
  <2> QED
    BY <2>1, <1>12, <1>13 DEF OrchestratorStep, ProviderFails, AgentFails, Finish
<1>14. ASSUME NEW r \in Requests, NEW v \in Volumes,
              RequestBackup(r, v) \/ RequestRestore(r, v)
       PROVE  Coupling'
  BY <1>14, <1>t, <1>d DEF RequestBackup, RequestRestore, Goto, ActorTypeOK
<1>15. CASE Tick
  BY <1>15, <1>u DEF Tick
<1>16. CASE UNCHANGED vars
  BY <1>16, <1>u DEF vars
<1> QED
  BY <1>d, <1>1, <1>2, <1>3, <1>4, <1>5, <1>6, <1>7, <1>8, <1>9, <1>10, <1>11, <1>13,
     <1>14, <1>15, <1>16 DEF Next, DispatcherStep, WorkerStep, Watchdog

\* No step lets two actors into the section that the mutex of a volume guards.
LEMMA NextMutex == TypeOK /\ Coupling /\ MutexHeld /\ [Next]_vars => MutexHeld'
<1> SUFFICES ASSUME TypeOK, Coupling, MutexHeld, [Next]_vars PROVE MutexHeld'
  OBVIOUS
<1>t. ActorTypeOK /\ VolumeTypeOK
  BY DEF TypeOK
<1>d. Workers \subseteq Actors /\ Requests \subseteq Actors /\ NoActor \notin Actors
  BY ActorsAssumption DEF Actors
<1>v. \A a \in Actors : pc[a] \notin {"idle", "teardown"} => vol[a] \in Volumes
  BY DEF Coupling, VolumeKnown
<1>u. ASSUME UNCHANGED <<pc, vol, mux>> PROVE MutexHeld'
  BY <1>u DEF MutexHeld
<1>g. ASSUME NEW a \in Actors, NEW p \in Places \ {"locked", "agent", "report", "post"},
             Goto(a, p), \A b \in Actors \ {a} : vol'[b] = vol[b], UNCHANGED mux
      PROVE  MutexHeld'
  BY <1>g, <1>t DEF Goto, MutexHeld, ActorTypeOK
<1> USE DEF Places, Attempting
<1>1. CASE Refresher
  BY <1>1, <1>u DEF Refresher, Refresh, Examine, IsBackupNeeded, Enqueue, actorVars, volumeVars
<1>2. CASE Admit \/ Drop \/ RefuseNode
  BY <1>2, <1>u DEF Admit, Drop, RefuseNode, actorVars, volumeVars
<1>3. ASSUME NEW w \in Workers, Spawn(w) PROVE MutexHeld'
  BY <1>3, <1>d, <1>g, <1>t DEF Spawn, StartWorker, Goto, volumeVars, ActorTypeOK
<1>4. ASSUME NEW a \in Actors, LocalStep(a) PROVE MutexHeld'
  <2>1. CASE Dated(a)
    BY <2>1, <1>d, <1>t DEF Dated, Goto, MutexHeld, ActorTypeOK
  <2>2. CASE ClearFlag(a) \/ ClearStartDate(a)
    BY <2>2, <1>d, <1>g DEF ClearFlag, ClearStartDate
  <2> QED
    BY <1>4, <2>1, <2>2 DEF LocalStep
<1>5. ASSUME NEW w \in Workers,
             Begin(w) \/ Assign(w) \/ Check(w) \/ Retry(w) \/ GiveUp(w)
      PROVE  MutexHeld'
  BY <1>5, <1>d, <1>g DEF Begin, Assign, Check, Retry, TryAgain, GiveUp, volumeVars
<1>6. ASSUME NEW w \in Workers, Exit(w) \/ TearDown(w) \/ Release(w) PROVE MutexHeld'
  BY <1>6, <1>d, <1>g, <1>t DEF Exit, AfterLoop, TimedOut, TearDown, Release, GiveBack, volumeVars, ActorTypeOK
<1>7. ASSUME NEW w \in Workers, Expire(w) \/ FlagTimeout(w) PROVE MutexHeld'
  BY <1>7, <1>u DEF Expire, FlagTimeout, actorVars, volumeVars
<1>8. ASSUME NEW w \in Workers, WatchdogRelease(w) PROVE MutexHeld'
  BY <1>8, <1>d, <1>t DEF WatchdogRelease, TakeSlotBack, GiveBack, volumeVars,
     MutexHeld, ActorTypeOK
<1>9. ASSUME NEW a \in Actors, Lock(a) PROVE MutexHeld'
  BY <1>9, <1>d, <1>t, <1>v DEF Lock, Acquire, Goto, MutexHeld, ActorTypeOK, VolumeTypeOK
<1>10. ASSUME NEW a \in Actors, NEW error,
              Leave(a, error), pc[a] \in {"locked", "agent", "report", "post"}
       PROVE  MutexHeld'
  BY <1>10, <1>d, <1>t, <1>v DEF Leave, Goto, MutexHeld, ActorTypeOK, VolumeTypeOK
<1>11. ASSUME NEW a \in Actors, OrchestratorStep(a) PROVE MutexHeld'
  <2>1. ASSUME Deploy(a) \/ AgentReports(a) \/ AgentUnreadable(a) PROVE MutexHeld'
    BY <2>1, <1>t, <1>d DEF Deploy, AgentReports, AgentUnreadable, Goto, MutexHeld,
       ActorTypeOK, volumeVars
  <2> QED
    BY <2>1, <1>10, <1>11 DEF OrchestratorStep, ProviderFails, AgentFails, Finish
<1>12. ASSUME NEW r \in Requests, NEW v \in Volumes,
              RequestBackup(r, v) \/ RequestRestore(r, v)
       PROVE  MutexHeld'
  BY <1>12, <1>t, <1>d, <1>g DEF RequestBackup, RequestRestore, volumeVars, ActorTypeOK
<1>13. CASE Tick
  BY <1>13, <1>u DEF Tick, actorVars
<1>14. CASE UNCHANGED vars
  BY <1>14, <1>u DEF vars, actorVars, volumeVars
<1> QED
  BY <1>d, <1>1, <1>2, <1>3, <1>4, <1>5, <1>6, <1>7, <1>8, <1>9, <1>11, <1>12, <1>13,
     <1>14 DEF Next, DispatcherStep, WorkerStep, Watchdog

\* The mutex keeps agents apart.
LEMMA MutexExcludes == MutexHeld => AgentExclusion
  BY DEF MutexHeld, AgentExclusion

\* Typing, coupling and mutual exclusion hold together.
THEOREM Coupled == Spec => [](TypeOK /\ Coupling /\ MutexHeld)
<1>1. Init => TypeOK /\ Coupling /\ MutexHeld
  BY InitType, InitCoupling
<1>2. TypeOK /\ Coupling /\ MutexHeld /\ [Next]_vars => (TypeOK /\ Coupling /\ MutexHeld)'
  BY NextQueueType, NextActorType, NextVolumeType, NextCoupling, NextMutex DEF TypeOK
<1> QED
  BY <1>1, <1>2, PTL DEF Spec

\* v.Mux keeps the agents of one volume apart: backups scheduled, retried or
\* asked for, and restores.
THEOREM OneAgentPerVolume == Spec => []AgentExclusion
  BY Coupled, MutexExcludes, PTL

-----------------------------------------------------------------------------
(* The slots *)

Holders == Workers \union {Dispatcher}

\* What a step does to the counters and to the leases they stand for.
Kept == used' = used /\ \A h \in Hosts : Leases(h)' = Leases(h)

Taken(g) ==
    /\ used[g] < ParallelCount
    /\ \A h \in Hosts : Dispatcher \notin Leases(h)
    /\ used' = [used EXCEPT ![g] = @ + 1]
    /\ \A h \in Hosts :
          Leases(h)' = IF h = g THEN Leases(h) \union {Dispatcher} ELSE Leases(h)

Passed(w, g) ==
    /\ Dispatcher \in Leases(g)
    /\ \A h \in Hosts : w \notin Leases(h)
    /\ used' = used
    /\ \A h \in Hosts :
          Leases(h)' = IF h = g THEN (Leases(h) \ {Dispatcher}) \union {w} ELSE Leases(h)

Returned(x, g) ==
    /\ x \in Leases(g)
    /\ used[g] > 0
    /\ used' = [used EXCEPT ![g] = @ - 1]
    /\ \A h \in Hosts :
          Leases(h)' = IF h = g THEN Leases(h) \ {x} ELSE Leases(h)

LeaseStep ==
    \/ Kept
    \/ \E g \in Hosts : Taken(g)
    \/ \E g \in Hosts, w \in Workers : Passed(w, g)
    \/ \E g \in Hosts, x \in Holders : Returned(x, g)

\* The leases do not change when no worker starts or stops leasing and the
\* dispatcher keeps what it has.
LEMMA LeasesKept ==
    ASSUME dvol' = dvol, used' = used,
           \A w \in Workers : Leasing(w)' = Leasing(w),
           \A w \in Workers : Leasing(w) => vol'[w] = vol[w]
    PROVE  Kept
  BY DEF Leases, Kept

\* Every step takes one slot, passes one on, returns one or leaves all alone.
LEMMA StepLeases == TypeOK /\ Coupling /\ [Next]_vars => LeaseStep
<1> SUFFICES ASSUME TypeOK, Coupling, [Next]_vars PROVE LeaseStep
  OBVIOUS
<1>t. ActorTypeOK /\ QueueTypeOK
  BY DEF TypeOK
<1>d. /\ Workers \subseteq Actors /\ Requests \subseteq Actors
      /\ Workers \intersect Requests = {} /\ Dispatcher \notin Workers
  BY ActorsAssumption DEF Actors
<1>h. \A v \in Volumes : HostOf[v] \in Hosts
  BY VolumesAssumption
<1>c. /\ WatchdogCoupling
      /\ \A w \in Workers : Leasing(w) => vol[w] \in Volumes
  BY <1>d DEF Coupling, VolumeKnown, Leasing
<1>u. ASSUME UNCHANGED <<dispatcherVars, actorVars, wd>> PROVE LeaseStep
  BY <1>u, LeasesKept DEF dispatcherVars, actorVars, Leasing, LeaseStep
<1>g. ASSUME NEW a \in Actors, NEW p \in Places \ {"release"}, Goto(a, p),
             pc[a] # "release" \/ a \in Requests,
             \A w \in Workers : vol'[w] = vol[w], UNCHANGED <<dispatcherVars, wd>>
      PROVE  LeaseStep
  <2>1. \A w \in Workers : Leasing(w)' = Leasing(w)
    BY <1>g, <1>t, <1>d DEF Goto, Leasing, ActorTypeOK
  <2> QED
    BY <1>g, <2>1, LeasesKept DEF dispatcherVars, LeaseStep
<1> USE DEF Places, Attempting
<1>1. CASE Refresher
  BY <1>1, <1>u DEF Refresher, Refresh, Examine, IsBackupNeeded, Enqueue
<1>2. CASE Drop
  BY <1>2, <1>u DEF Drop
<1>3. CASE Admit
  <2>1. dvol = NoVolume /\ dvol' \in Volumes /\ dvol' = Head(queue)
    <3>1. queue \in Seq(Volumes) /\ queue # <<>> /\ dvol' = Head(queue) /\ dvol = NoVolume
      BY <1>3, <1>t DEF Admit, QueueTypeOK
    <3> QED
      BY <3>1, TailQueue
  <2>2. \A w \in Workers : Leasing(w)' = Leasing(w) /\ vol'[w] = vol[w]
    BY <1>3 DEF Admit, actorVars, Leasing
  <2>3. Taken(HostOf[dvol'])
    <3>1. \A h \in Hosts : Leases(h) = {w \in Workers : Leasing(w) /\ HostOf[vol[w]] = h}
      BY <2>1 DEF Leases
    <3>2. \A h \in Hosts : Leases(h)' =
             IF h = HostOf[dvol'] THEN Leases(h) \union {Dispatcher} ELSE Leases(h)
      BY <2>1, <2>2, <3>1, VolumesAssumption DEF Leases
    <3>3. used[HostOf[dvol']] < ParallelCount
          /\ used' = [used EXCEPT ![HostOf[dvol']] = @ + 1]
      BY <1>3, <2>1 DEF Admit, Room
    <3> QED
      BY <3>1, <3>2, <3>3, <1>d DEF Taken
  <2> QED
    BY <2>1, <2>3, <1>h DEF LeaseStep
<1>4. CASE RefuseNode
  <2>1. dvol \in Volumes /\ dvol' = NoVolume
    BY <1>4, <1>t DEF RefuseNode, QueueTypeOK
  <2>2. \A w \in Workers : Leasing(w)' = Leasing(w) /\ vol'[w] = vol[w]
    BY <1>4 DEF RefuseNode, actorVars, Leasing
  <2>3. Returned(Dispatcher, HostOf[dvol])
    <3>1. \A h \in Hosts : Leases(h)' =
             IF h = HostOf[dvol] THEN Leases(h) \ {Dispatcher} ELSE Leases(h)
      BY <1>d, <2>1, <2>2, VolumesAssumption DEF Leases
    <3>2. Dispatcher \in Leases(HostOf[dvol])
      BY <2>1, VolumesAssumption DEF Leases
    <3> QED
      BY <1>4, <3>1, <3>2 DEF RefuseNode, Returned
  <2> QED
    BY <2>1, <2>3, <1>h DEF LeaseStep, Holders
<1>5. ASSUME NEW w \in Workers, Spawn(w) PROVE LeaseStep
  <2>1. dvol \in Volumes /\ dvol' = NoVolume /\ vol'[w] = dvol
    BY <1>5, <1>t, <1>d DEF Spawn, StartWorker, QueueTypeOK, ActorTypeOK
  <2>2. ~Leasing(w) /\ Leasing(w)'
    BY <1>5, <1>t, <1>c DEF Spawn, StartWorker, Free, Leaked, Leasing, ActorTypeOK,
       WatchdogCoupling
  <2>3. \A x \in Workers \ {w} : Leasing(x)' = Leasing(x) /\ vol'[x] = vol[x]
    BY <1>5, <1>t, <1>d DEF Spawn, StartWorker, Leasing, ActorTypeOK
  <2>4. Passed(w, HostOf[dvol])
    <3>1. \A h \in Hosts : Leases(h)' =
             IF h = HostOf[dvol] THEN (Leases(h) \ {Dispatcher}) \union {w} ELSE Leases(h)
      BY <1>d, <2>1, <2>2, <2>3, VolumesAssumption DEF Leases
    <3>2. Dispatcher \in Leases(HostOf[dvol])
      BY <2>1, VolumesAssumption DEF Leases
    <3>3. \A h \in Hosts : w \notin Leases(h)
      BY <2>2, <1>d DEF Leases
    <3> QED
      BY <1>5, <3>1, <3>2, <3>3 DEF Spawn, StartWorker, Passed
  <2> QED
    BY <2>1, <2>4, <1>h DEF LeaseStep
<1>6. ASSUME NEW a \in Actors, LocalStep(a) PROVE LeaseStep
  BY <1>6, <1>d, <1>g DEF LocalStep, Dated, ClearFlag, ClearStartDate
<1>7. ASSUME NEW w \in Workers,
             Begin(w) \/ Assign(w) \/ Check(w) \/ Retry(w) \/ GiveUp(w)
      PROVE  LeaseStep
  BY <1>7, <1>d, <1>g DEF Begin, Assign, Check, Retry, TryAgain, GiveUp
<1>8. ASSUME NEW w \in Workers, Exit(w) PROVE LeaseStep
  <2>1. \A x \in Workers : Leasing(x)' = Leasing(x)
    BY <1>8, <1>t, <1>d DEF Exit, AfterLoop, TimedOut, Goto, Leasing, ActorTypeOK
  <2>2. \A x \in Workers : Leasing(x) => vol'[x] = vol[x]
    BY <1>8, <1>t, <1>d DEF Exit, AfterLoop, TimedOut, Leasing, ActorTypeOK
  <2> QED
    BY <1>8, <2>1, <2>2, LeasesKept DEF Exit, AfterLoop, TimedOut, dispatcherVars, LeaseStep
<1>9. ASSUME NEW w \in Workers, TearDown(w) PROVE LeaseStep
  <2>1. \A x \in Workers : Leasing(x)' = Leasing(x)
    BY <1>9, <1>t, <1>d DEF TearDown, Goto, Leasing, ActorTypeOK
  <2> QED
    BY <1>9, <2>1, LeasesKept DEF TearDown, dispatcherVars, LeaseStep
<1>10. ASSUME NEW w \in Workers, GiveBack(w), Leasing(w), ~Leasing(w)',
              \A x \in Workers \ {w} : Leasing(x)' = Leasing(x) /\ vol'[x] = vol[x]
       PROVE  LeaseStep
  <2>1. vol[w] \in Volumes /\ dvol' = dvol
    BY <1>10, <1>c DEF GiveBack
  <2>2. Returned(w, HostOf[vol[w]])
    <3>1. \A h \in Hosts : Leases(h)' =
             IF h = HostOf[vol[w]] THEN Leases(h) \ {w} ELSE Leases(h)
      BY <1>d, <1>10, <2>1 DEF Leases
    <3>2. w \in Leases(HostOf[vol[w]])
      BY <1>10, <2>1 DEF Leases
    <3> QED
      BY <1>10, <3>1, <3>2 DEF GiveBack, Returned
  <2> QED
    BY <2>1, <2>2, <1>h DEF LeaseStep, Holders
<1>11. ASSUME NEW w \in Workers, Release(w) PROVE LeaseStep
  <2>1. Leasing(w) /\ ~Leasing(w)'
    BY <1>11, <1>t, <1>c, <1>d DEF Release, Goto, Leasing, WatchdogCoupling, ActorTypeOK
  <2>2. \A x \in Workers \ {w} : Leasing(x)' = Leasing(x) /\ vol'[x] = vol[x]
    BY <1>11, <1>t, <1>d DEF Release, Goto, Leasing, ActorTypeOK
  <2> QED
    BY <1>10, <1>11, <2>1, <2>2 DEF Release
<1>12. ASSUME NEW w \in Workers, WatchdogRelease(w) PROVE LeaseStep
  <2>1. Leasing(w) /\ ~Leasing(w)'
    BY <1>12, <1>t, <1>c, <1>d DEF WatchdogRelease, TakeSlotBack, WatchdogStep, Leasing,
       WatchdogCoupling, ActorTypeOK
  <2>2. \A x \in Workers \ {w} : Leasing(x)' = Leasing(x) /\ vol'[x] = vol[x]
    BY <1>12, <1>t, <1>d DEF WatchdogRelease, TakeSlotBack, WatchdogStep, Leasing, ActorTypeOK
  <2> QED
    BY <1>10, <1>12, <2>1, <2>2 DEF WatchdogRelease, TakeSlotBack
<1>13. ASSUME NEW w \in Workers, Expire(w) \/ FlagTimeout(w) PROVE LeaseStep
  <2>1. \A x \in Workers : Leasing(x)' = Leasing(x)
    BY <1>13, <1>t, <1>d DEF Expire, FlagTimeout, WatchdogStep, actorVars, Leasing, ActorTypeOK
  <2> QED
    BY <1>13, <2>1, LeasesKept DEF Expire, FlagTimeout, actorVars, dispatcherVars, LeaseStep
<1>14. ASSUME NEW a \in Actors, Lock(a) PROVE LeaseStep
  BY <1>14, <1>d, <1>g DEF Lock, Acquire
<1>15. ASSUME NEW a \in Actors, OrchestratorStep(a) PROVE LeaseStep
  <2>1. ASSUME NEW error, Leave(a, error), pc[a] # "release" PROVE LeaseStep
    BY <2>1, <1>d, <1>g DEF Leave
  <2>2. ASSUME Deploy(a) \/ AgentReports(a) \/ AgentUnreadable(a) PROVE LeaseStep
    BY <2>2, <1>d, <1>g DEF Deploy, AgentReports, AgentUnreadable
  <2> QED
    BY <2>1, <2>2, <1>15 DEF OrchestratorStep, ProviderFails, AgentFails, Finish
<1>16. ASSUME NEW r \in Requests, NEW v \in Volumes,
              RequestBackup(r, v) \/ RequestRestore(r, v)
       PROVE  LeaseStep
  <2>1. \A w \in Workers : vol'[w] = vol[w]
    BY <1>16, <1>t, <1>d DEF RequestBackup, RequestRestore, ActorTypeOK
  <2> QED
    BY <1>16, <2>1, <1>d, <1>g DEF RequestBackup, RequestRestore
<1>17. CASE Tick
  BY <1>17, <1>u DEF Tick
<1>18. CASE UNCHANGED vars
  BY <1>18, <1>u DEF vars
<1> QED
  BY <1>d, <1>1, <1>2, <1>3, <1>4, <1>5, <1>6, <1>7, <1>8, <1>9, <1>11, <1>12, <1>13,
     <1>14, <1>15, <1>16, <1>17, <1>18 DEF Next, DispatcherStep, WorkerStep, Watchdog

\* There are finitely many leases.
LEMMA LeasesFinite ==
    ASSUME NEW h
    PROVE  IsFiniteSet(Leases(h)) /\ Cardinality(Leases(h)) \in Nat
<1>1. IsFiniteSet(Workers \union {Dispatcher})
  BY ActorsAssumption, FS_AddElement
<1>2. Leases(h) \subseteq Workers \union {Dispatcher}
  BY DEF Leases
<1> QED
  BY <1>1, <1>2, FS_Subset, FS_CardinalityType

\* At the start every slot is free.
LEMMA InitSlots == Init => \A h \in Hosts : Leases(h) = {} /\ used[h] = 0
<1> SUFFICES ASSUME Init, NEW h \in Hosts PROVE Leases(h) = {} /\ used[h] = 0
  OBVIOUS
<1>1. dvol = NoVolume /\ used[h] = 0
  BY DEF Init
<1>2. \A w \in Workers : ~Leasing(w)
  BY DEF Init, Leasing, Actors
<1> QED
  BY <1>1, <1>2 DEF Leases

\* Each kind of step keeps counter and leases in agreement.
LEMMA NextSlots ==
    ASSUME QueueTypeOK, SlotAccounting, LeaseStep PROVE SlotAccounting'
<1>t. used \in [Hosts -> Nat] /\ ParallelCount \in Nat
  BY BoundsAssumption DEF QueueTypeOK
<1>f. \A h \in Hosts : IsFiniteSet(Leases(h)) /\ Cardinality(Leases(h)) \in Nat
  BY LeasesFinite
<1> SUFFICES ASSUME NEW h \in Hosts
             PROVE  used'[h] = Cardinality(Leases(h)') /\ used'[h] <= ParallelCount
  BY DEF SlotAccounting
<1>a. used[h] = Cardinality(Leases(h)) /\ used[h] <= ParallelCount
  BY DEF SlotAccounting
<1>1. CASE Kept
  BY <1>1, <1>a DEF Kept
<1>2. ASSUME NEW g \in Hosts, Taken(g), g # h PROVE used'[h] = used[h] /\ Leases(h)' = Leases(h)
  BY <1>2, <1>t DEF Taken
<1>3. ASSUME Taken(h) PROVE used'[h] = Cardinality(Leases(h)') /\ used'[h] <= ParallelCount
  <2>1. Leases(h)' = Leases(h) \union {Dispatcher} /\ Dispatcher \notin Leases(h)
    BY <1>3 DEF Taken
  <2>2. Cardinality(Leases(h)') = Cardinality(Leases(h)) + 1
    BY <2>1, <1>f, FS_AddElement
  <2>3. used'[h] = used[h] + 1 /\ used[h] < ParallelCount
    BY <1>3, <1>t DEF Taken
  <2> QED
    BY <2>2, <2>3, <1>a, <1>t
<1>4. ASSUME NEW g \in Hosts, NEW w \in Workers, Passed(w, g)
      PROVE  used'[h] = Cardinality(Leases(h)') /\ used'[h] <= ParallelCount
  <2>1. CASE g # h
    BY <2>1, <1>4, <1>a DEF Passed
  <2>2. CASE g = h
    <3>1. /\ Leases(h)' = (Leases(h) \ {Dispatcher}) \union {w}
          /\ Dispatcher \in Leases(h) /\ w \notin Leases(h)
      BY <2>2, <1>4 DEF Passed
    <3>2. /\ IsFiniteSet(Leases(h) \ {Dispatcher})
          /\ Cardinality(Leases(h) \ {Dispatcher}) = Cardinality(Leases(h)) - 1
      BY <3>1, <1>f, FS_RemoveElement
    <3>3. Cardinality(Leases(h)') = Cardinality(Leases(h) \ {Dispatcher}) + 1
      BY <3>1, <3>2, FS_AddElement
    <3>4. Cardinality(Leases(h)') = Cardinality(Leases(h))
      BY <3>2, <3>3, <1>f
    <3>5. used' = used
      BY <1>4 DEF Passed
    <3> QED
      BY <3>4, <3>5, <1>a
  <2> QED
    BY <2>1, <2>2
<1>5. ASSUME NEW g \in Hosts, NEW x \in Holders, Returned(x, g)
      PROVE  used'[h] = Cardinality(Leases(h)') /\ used'[h] <= ParallelCount
  <2>1. CASE g # h
    BY <2>1, <1>5, <1>a, <1>t DEF Returned
  <2>2. CASE g = h
    <3>1. Leases(h)' = Leases(h) \ {x} /\ x \in Leases(h)
      BY <2>2, <1>5 DEF Returned
    <3>2. Cardinality(Leases(h)') = Cardinality(Leases(h)) - 1
      BY <3>1, <1>f, FS_RemoveElement
    <3>3. used'[h] = used[h] - 1
      BY <2>2, <1>5, <1>t DEF Returned
    <3> QED
      BY <3>2, <3>3, <1>a, <1>t
  <2> QED
    BY <2>1, <2>2
<1> QED
  BY <1>1, <1>2, <1>3, <1>4, <1>5, <1>a DEF LeaseStep

\* Through every race of the end of a backup with its one-hour timeout, each
\* host's counter is the number of those who have yet to release a slot.
THEOREM SlotsAccounted == Spec => []SlotAccounting
<1>1. Init => SlotAccounting
  <2>1. ASSUME Init PROVE SlotAccounting
    BY <2>1, InitSlots, FS_EmptySet, BoundsAssumption DEF SlotAccounting
  <2> QED
    BY <2>1
<1>2. TypeOK /\ Coupling /\ SlotAccounting /\ [Next]_vars => SlotAccounting'
  BY StepLeases, NextSlots DEF TypeOK
<1> QED
  BY <1>1, <1>2, Coupled, PTL DEF Spec

\* Agents of workers that were not written off are covered by leases.
LEMMA LeasesCoverAgents ==
    TypeOK /\ Coupling /\ SlotAccounting => ScheduledAgentsBounded
<1> SUFFICES ASSUME TypeOK, Coupling, SlotAccounting, NEW h \in Hosts
             PROVE  Cardinality({w \in Workers : /\ pc[w] = "agent"
                                                 /\ wd[w] # "released"
                                                 /\ HostOf[vol[w]] = h}) <= ParallelCount
  BY DEF ScheduledAgentsBounded
<1> DEFINE A == {w \in Workers : pc[w] = "agent" /\ wd[w] # "released" /\ HostOf[vol[w]] = h}
<1>1. A \subseteq Leases(h)
  BY DEF TypeOK, ActorTypeOK, WatchdogStates, Coupling, WatchdogCoupling, Leases, Leasing
<1>2. /\ Cardinality(A) \in Nat /\ Cardinality(A) <= Cardinality(Leases(h))
  BY <1>1, LeasesFinite, FS_Subset, FS_CardinalityType
<1>3. Cardinality(Leases(h)) <= ParallelCount
  BY DEF SlotAccounting
<1> QED
  BY <1>2, <1>3, LeasesFinite, BoundsAssumption

\* The scheduler never runs more than ParallelCount agents on a host, apart
\* from those that have been running for more than one hour.
THEOREM ScheduledAgents == Spec => []ScheduledAgentsBounded
  BY Coupled, SlotsAccounted, LeasesCoverAgents, PTL

\* The initial slots are an initial pool.
LEMMA InitPool == Init => Pool!Init
  BY InitSlots DEF Pool!Init

\* Each step is a step of the pool of owned slots, or leaves the pool alone.
LEMMA NextPool ==
    QueueTypeOK /\ SlotAccounting /\ LeaseStep => [Pool!Next]_(Pool!vars)
<1> SUFFICES ASSUME QueueTypeOK, SlotAccounting, LeaseStep PROVE [Pool!Next]_(Pool!vars)
  OBVIOUS
<1> DEFINE held == [h \in Hosts |-> Leases(h)]
<1>a. \A h \in Hosts : used[h] = Cardinality(Leases(h))
  BY DEF SlotAccounting
<1>1. ASSUME Kept PROVE UNCHANGED Pool!vars
  BY <1>1 DEF Kept, Pool!vars
<1>2. ASSUME NEW g \in Hosts, Taken(g) PROVE Pool!Grant(Dispatcher, g)
  <2>1. held' = [held EXCEPT ![g] = @ \union {Dispatcher}]
    BY <1>2 DEF Taken
  <2>2. Pool!Cardinality(held[g]) = Cardinality(held[g])
    BY DEF Pool!Cardinality, Cardinality
  <2> QED
    BY <1>2, <1>a, <2>1, <2>2 DEF Taken, Pool!Grant, Pool!Idle
<1>3. ASSUME NEW g \in Hosts, NEW w \in Workers, Passed(w, g)
      PROVE  Pool!Handover(Dispatcher, w, g)
  <2>1. held' = [held EXCEPT ![g] = (@ \ {Dispatcher}) \union {w}]
    BY <1>3 DEF Passed
  <2> QED
    BY <1>3, <2>1 DEF Passed, Pool!Handover, Pool!Idle
<1>4. ASSUME NEW g \in Hosts, NEW x \in Holders, Returned(x, g) PROVE Pool!Return(x, g)
  <2>1. held' = [held EXCEPT ![g] = @ \ {x}]
    BY <1>4 DEF Returned
  <2> QED
    BY <1>4, <2>1 DEF Returned, Pool!Return
<1>5. Pool!vars' = Pool!vars \/ \E g \in Hosts, x \in Holders :
          \/ Pool!Grant(x, g)
          \/ \E y \in Holders : Pool!Handover(x, y, g)
          \/ Pool!Return(x, g)
  BY <1>1, <1>2, <1>3, <1>4 DEF LeaseStep, Holders
<1> QED
  BY <1>5 DEF Holders, Pool!Next, Pool!vars

\* The scheduler implements the pool of owned slots: whoever gives a slot back
\* owns it, and no slot is given back twice or by someone else.
THEOREM ImplementsSlotPool == Spec => PoolSpec
<1>1. QueueTypeOK /\ TypeOK /\ Coupling /\ SlotAccounting /\ [Next]_vars
        => [Pool!Next]_(Pool!vars)
  BY StepLeases, NextPool
<1>2. TypeOK => QueueTypeOK
  BY DEF TypeOK
<1> QED
  BY <1>1, <1>2, InitPool, Coupled, SlotsAccounted, PTL DEF Spec, PoolSpec, Pool!Spec

-----------------------------------------------------------------------------
(* The marks of a volume *)

Flaggable == Attempting \ {"unflagged"}
Datable == Attempting \ {"wait"}
Holding == Flaggable \intersect Datable

\* A step keeps the marks owned when whoever attempts a backup goes on with it
\* and no mark is set.
LEMMA MarksKept ==
    ASSUME MarksHaveOwner,
           \A v \in Volumes, a \in Actors :
               /\ At(a, v, Flaggable) => At(a, v, Flaggable)'
               /\ At(a, v, Datable) => At(a, v, Datable)',
           \A v \in Volumes : backingUp'[v] => backingUp[v],
           \A v \in Volumes : startDate'[v] # NoDate => startDate[v] # NoDate
    PROVE  MarksHaveOwner'
  BY DEF MarksHaveOwner, Flaggable, Datable, Attempting

\* A step that leaves no owner behind and moves only one actor.
LEMMA MarksMoved ==
    ASSUME NEW a \in Actors,
           \A b \in Actors \ {a} : pc'[b] = pc[b] /\ vol'[b] = vol[b] /\ job'[b] = job[b],
           \A v \in Volumes : At(a, v, Flaggable) => At(a, v, Flaggable)',
           \A v \in Volumes : At(a, v, Datable) => At(a, v, Datable)'
    PROVE  \A v \in Volumes, b \in Actors :
               /\ At(b, v, Flaggable) => At(b, v, Flaggable)'
               /\ At(b, v, Datable) => At(b, v, Datable)'
  BY DEF At

\* No step leaves a mark behind.
LEMMA NextMarks == TypeOK /\ Coupling /\ MarksHaveOwner /\ [Next]_vars => MarksHaveOwner'
<1> SUFFICES ASSUME TypeOK, Coupling, MarksHaveOwner, [Next]_vars PROVE MarksHaveOwner'
  OBVIOUS
<1>t. ActorTypeOK /\ VolumeTypeOK
  BY DEF TypeOK
<1>d. Workers \subseteq Actors /\ Requests \subseteq Actors /\ Workers \intersect Requests = {}
  BY ActorsAssumption DEF Actors
<1>v. \A a \in Actors : pc[a] \notin {"idle", "teardown"} => vol[a] \in Volumes
  BY DEF Coupling, VolumeKnown
<1>u. ASSUME UNCHANGED <<pc, vol, job, backingUp, startDate>> PROVE MarksHaveOwner'
  BY <1>u DEF MarksHaveOwner, At
<1>g. ASSUME NEW a \in Actors, pc[a] \notin Attempting,
             \A b \in Actors \ {a} : pc'[b] = pc[b] /\ vol'[b] = vol[b] /\ job'[b] = job[b],
             UNCHANGED <<backingUp, startDate>>
      PROVE  MarksHaveOwner'
  <2>1. \A v \in Volumes : ~At(a, v, Flaggable) /\ ~At(a, v, Datable)
    BY <1>g DEF At, Flaggable, Datable, Attempting
  <2> QED
    BY <1>g, <2>1, MarksMoved, MarksKept
<1>m. ASSUME NEW a \in Actors, NEW p \in Holding, Goto(a, p), pc[a] \in Holding,
             UNCHANGED <<vol, job, backingUp, startDate>>
      PROVE  MarksHaveOwner'
  <2>1. \A v \in Volumes : /\ At(a, v, Flaggable) => At(a, v, Flaggable)'
                           /\ At(a, v, Datable) => At(a, v, Datable)'
    BY <1>m, <1>t DEF At, Holding, Flaggable, Datable, Attempting, Goto, ActorTypeOK
  <2>2. \A b \in Actors \ {a} : pc'[b] = pc[b]
    BY <1>m, <1>t DEF Goto, ActorTypeOK
  <2> QED
    BY <1>m, <2>1, <2>2, MarksMoved, MarksKept
<1>s. ASSUME NEW a \in Actors, NEW x \in Volumes, pc[a] \notin Attempting,
             pc'[a] = "wait", vol'[a] = x, job'[a] = "backup",
             \A b \in Actors \ {a} : pc'[b] = pc[b] /\ vol'[b] = vol[b] /\ job'[b] = job[b],
             backingUp' = [backingUp EXCEPT ![x] = TRUE], UNCHANGED startDate
      PROVE  MarksHaveOwner'
  <2>1. At(a, x, Flaggable)'
    BY <1>s DEF At, Flaggable, Attempting
  <2>2. \A v \in Volumes : ~At(a, v, Flaggable) /\ ~At(a, v, Datable)
    BY <1>s DEF At, Flaggable, Datable, Attempting
  <2>3. \A v \in Volumes, b \in Actors :
            /\ At(b, v, Flaggable) => At(b, v, Flaggable)'
            /\ At(b, v, Datable) => At(b, v, Datable)'
    BY <1>s, <2>2, MarksMoved
  <2>4. \A v \in Volumes \ {x} : backingUp'[v] = backingUp[v]
    BY <1>s, <1>t DEF VolumeTypeOK
  <2> QED
    BY <1>s, <2>1, <2>3, <2>4 DEF MarksHaveOwner, Flaggable, Datable, Attempting
<1>1. CASE Refresher
  BY <1>1, <1>u DEF Refresher, Refresh, Examine, IsBackupNeeded, Enqueue, actorVars, volumeVars
<1>2. CASE Admit \/ Drop \/ RefuseNode
  BY <1>2, <1>u DEF Admit, Drop, RefuseNode, actorVars, volumeVars
<1>3. ASSUME NEW w \in Workers, Spawn(w) PROVE MarksHaveOwner'
  BY <1>3, <1>d, <1>g, <1>t DEF Spawn, StartWorker, Free, Leaked, volumeVars,
     ActorTypeOK, Attempting
<1>4. ASSUME NEW w \in Workers, Begin(w) \/ Retry(w) PROVE MarksHaveOwner'
  <2>1. /\ pc[w] \notin Attempting /\ vol[w] \in Volumes
        /\ vol' = vol /\ job' = job /\ job[w] = "backup" /\ Goto(w, "wait")
        /\ backingUp' = [backingUp EXCEPT ![vol[w]] = TRUE] /\ startDate' = startDate
    BY <1>4, <1>d, <1>t, <1>v DEF Begin, Retry, TryAgain, ActorTypeOK, Attempting
  <2>2. pc'[w] = "wait" /\ \A b \in Actors \ {w} : pc'[b] = pc[b]
    BY <1>d, <1>t, <2>1 DEF Goto, ActorTypeOK
  <2> QED
    BY <1>d, <1>s, <2>1, <2>2
<1>5. ASSUME NEW w \in Workers,
             \/ Assign(w) \/ Check(w) \/ GiveUp(w) \/ Exit(w)
             \/ TearDown(w) \/ Release(w)
      PROVE  MarksHaveOwner'
  <2>1. pc[w] \notin Attempting /\ UNCHANGED <<job, backingUp, startDate>>
    BY <1>5 DEF Assign, Check, GiveUp, Exit, AfterLoop, TearDown, Release, GiveBack,
       volumeVars, Attempting
  <2>2. \A b \in Actors \ {w} : pc'[b] = pc[b] /\ vol'[b] = vol[b]
    BY <1>5, <1>d, <1>t DEF Assign, Check, GiveUp, Exit, AfterLoop, TearDown, Release, Goto, ActorTypeOK
  <2> QED
    BY <1>d, <1>g, <2>1, <2>2
<1>6. ASSUME NEW w \in Workers, Expire(w) \/ FlagTimeout(w) PROVE MarksHaveOwner'
  BY <1>6, <1>u DEF Expire, FlagTimeout, actorVars, volumeVars
<1>7. ASSUME NEW w \in Workers, WatchdogRelease(w) PROVE MarksHaveOwner'
  <2>1. UNCHANGED <<pc, job, backingUp, startDate>>
    BY <1>7 DEF WatchdogRelease, TakeSlotBack, GiveBack, volumeVars
  <2>2. \A b \in Actors : pc[b] \notin {"idle", "teardown"} => vol'[b] = vol[b]
    BY <1>7, <1>d, <1>t DEF WatchdogRelease, TakeSlotBack, ActorTypeOK
  <2> QED
    BY <2>1, <2>2 DEF MarksHaveOwner, At, Attempting
<1>8. ASSUME NEW a \in Actors, Lock(a) PROVE MarksHaveOwner'
  <2>1. /\ pc[a] = "wait" /\ pc'[a] = "locked" /\ UNCHANGED <<vol, job, backingUp>>
        /\ \A b \in Actors \ {a} : pc'[b] = pc[b]
    BY <1>8, <1>t DEF Lock, Acquire, Goto, ActorTypeOK
  <2>2. \A v \in Volumes, b \in Actors :
            /\ At(b, v, Flaggable) => At(b, v, Flaggable)'
            /\ At(b, v, Datable) => At(b, v, Datable)'
    BY <2>1 DEF At, Flaggable, Datable, Attempting
  <2>3. \A v \in Volumes : startDate'[v] # startDate[v] => v = vol[a] /\ job[a] = "backup"
    BY <1>8, <1>t DEF Lock, Acquire, VolumeTypeOK
  <2>4. job[a] = "backup" => At(a, vol[a], Datable)'
    BY <2>1 DEF At, Datable, Attempting
  <2> QED
    BY <2>1, <2>2, <2>3, <2>4 DEF MarksHaveOwner, Flaggable, Datable, Attempting
<1>9. ASSUME NEW a \in Actors, NEW error, Leave(a, error), pc[a] \in Holding
      PROVE  MarksHaveOwner'
  <2>1. CASE job[a] = "backup"
    BY <1>9, <1>m, <2>1 DEF Leave, Holding, Flaggable, Datable, Attempting
  <2>2. CASE job[a] # "backup"
    <3>1. \A v \in Volumes : ~At(a, v, Flaggable) /\ ~At(a, v, Datable)
      BY <2>2 DEF At
    <3>2. /\ \A b \in Actors \ {a} : pc'[b] = pc[b]
          /\ UNCHANGED <<vol, job, backingUp, startDate>>
      BY <1>9, <1>t DEF Leave, Goto, ActorTypeOK
    <3> QED
      BY <3>1, <3>2, MarksMoved, MarksKept
  <2> QED
    BY <2>1, <2>2
<1>10. ASSUME NEW a \in Actors, OrchestratorStep(a) PROVE MarksHaveOwner'
  <2>1. ASSUME Deploy(a) \/ AgentReports(a) \/ AgentUnreadable(a) PROVE MarksHaveOwner'
    BY <2>1, <1>m DEF Deploy, AgentReports, AgentUnreadable, volumeVars, Holding,
       Flaggable, Datable, Attempting
  <2> QED
    BY <2>1, <1>9, <1>10 DEF OrchestratorStep, ProviderFails, AgentFails, Finish,
       Holding, Flaggable, Datable, Attempting
<1>11. ASSUME NEW a \in Actors, LocalStep(a) PROVE MarksHaveOwner'
  <2>1. CASE Dated(a)
    BY <2>1, <1>m DEF Dated, Holding, Flaggable, Datable, Attempting
  <2>2. CASE ClearFlag(a)
    <3>1. /\ pc[a] = "unlocked" /\ pc'[a] = "unflagged"
          /\ \A b \in Actors \ {a} : pc'[b] = pc[b]
          /\ UNCHANGED <<vol, job, startDate>>
      BY <2>2, <1>t DEF ClearFlag, Goto, ActorTypeOK
    <3>2. \A v \in Volumes : backingUp'[v] => backingUp[v] /\ v # vol[a]
      BY <2>2, <1>t DEF ClearFlag, FlagAfter, VolumeTypeOK
    <3>3. \A v \in Volumes, b \in Actors :
              /\ v # vol[a] /\ At(b, v, Flaggable) => At(b, v, Flaggable)'
              /\ At(b, v, Datable) => At(b, v, Datable)'
      BY <3>1 DEF At, Datable, Attempting
    <3> QED
      BY <3>1, <3>2, <3>3 DEF MarksHaveOwner, Flaggable, Datable
  <2>3. CASE ClearStartDate(a)
    <3>1. /\ pc[a] = "unflagged"
          /\ \A b \in Actors \ {a} : pc'[b] = pc[b]
          /\ UNCHANGED <<vol, job, backingUp>>
      BY <2>3, <1>t DEF ClearStartDate, Goto, ActorTypeOK
    <3>2. \A v \in Volumes : startDate'[v] # NoDate =>
              startDate'[v] = startDate[v] /\ v # vol[a]
      BY <2>3, <1>t DEF ClearStartDate, VolumeTypeOK
    <3>3. \A v \in Volumes, b \in Actors :
              /\ At(b, v, Flaggable) => At(b, v, Flaggable)'
              /\ v # vol[a] /\ At(b, v, Datable) => At(b, v, Datable)'
      BY <3>1 DEF At, Flaggable
    <3> QED
      BY <3>1, <3>2, <3>3 DEF MarksHaveOwner, Flaggable, Datable
  <2> QED
    BY <1>11, <2>1, <2>2, <2>3 DEF LocalStep
<1>12. ASSUME NEW r \in Requests, NEW v \in Volumes, RequestBackup(r, v) PROVE MarksHaveOwner'
  <2>1. /\ pc[r] \notin Attempting /\ pc'[r] = "wait" /\ vol'[r] = v /\ job'[r] = "backup"
        /\ \A b \in Actors \ {r} : pc'[b] = pc[b] /\ vol'[b] = vol[b] /\ job'[b] = job[b]
    BY <1>12, <1>d, <1>t DEF RequestBackup, Goto, ActorTypeOK, Attempting
  <2> QED
    BY <1>12, <1>d, <1>s, <2>1 DEF RequestBackup
<1>13. ASSUME NEW r \in Requests, NEW v \in Volumes, RequestRestore(r, v) PROVE MarksHaveOwner'
  <2>1. /\ pc[r] \notin Attempting
        /\ \A b \in Actors \ {r} : pc'[b] = pc[b] /\ vol'[b] = vol[b] /\ job'[b] = job[b]
    BY <1>13, <1>d, <1>t DEF RequestRestore, Goto, ActorTypeOK, Attempting
  <2> QED
    BY <1>13, <1>d, <1>g, <2>1 DEF RequestRestore, volumeVars
<1>14. CASE Tick
  <2>1. \A v \in Volumes : startDate'[v] # NoDate => startDate[v] # NoDate
    BY <1>14 DEF Tick, Older
  <2> QED
    BY <1>14, <2>1 DEF Tick, actorVars, MarksHaveOwner, At
<1>15. CASE UNCHANGED vars
  BY <1>15, <1>u DEF vars, actorVars, volumeVars
<1> QED
  BY <1>d, <1>1, <1>2, <1>3, <1>4, <1>5, <1>6, <1>7, <1>8, <1>10, <1>11, <1>12, <1>13,
     <1>14, <1>15 DEF Next, DispatcherStep, WorkerStep, Watchdog

\* BackingUp and LastBackupStartDate are never left behind: some backup that
\* is still under way will clear them.
THEOREM MarksOwned == Spec => []MarksHaveOwner
<1>1. Init => MarksHaveOwner
  BY DEF Init, MarksHaveOwner
<1> QED
  BY <1>1, NextMarks, Coupled, PTL DEF Spec
=============================================================================
