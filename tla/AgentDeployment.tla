--------------------------- MODULE AgentDeployment ---------------------------
(***************************************************************************)
(* The life of the containers in which agents run: DeployAgent of the      *)
(* three orchestrators, AttachOrphanAgent and the removals they defer      *)
(* (src/pkg/orchestrators), over failures of every request to the          *)
(* orchestrator, answers that are lost, containers that never start, and   *)
(* deaths and restarts of the manager.                                     *)
(*                                                                         *)
(* All calls are made for one volume. A deployment holds the mutex of the  *)
(* volume's object (backupVolume, restoreVolume), of which the volume gets *)
(* another one each time it is dropped and found again; an attachment      *)
(* holds none (attachOrphanAgent). A container is named by the call that   *)
(* creates it.                                                             *)
(* Attachments exist on Cattle only: RetrieveOrphanAgents looks for a      *)
(* prefix in Docker's hexadecimal identifiers, and returns on Kubernetes   *)
(* names where the manager looks for UIDs, so neither ever finds an agent. *)
(***************************************************************************)
EXTENDS Integers, FiniteSets

CONSTANTS
    Calls,         \* calls of DeployAgent and AttachOrphanAgent
    Handled,       \* the ones made by API requests, whose panics net/http recovers
    Former,        \* deployments that a former manager did not see the end of
    Orchestrators, \* orchestrators considered
    MaxObjects,    \* bound: objects of the volume in use at a time, by orchestrator
    NoAgent

ASSUME DeploymentAssumption ==
    /\ Handled \subseteq Calls /\ Former \subseteq Calls
    /\ Orchestrators \subseteq {"docker", "kubernetes", "cattle"}
    /\ NoAgent \notin Calls
    /\ MaxObjects \in [Orchestrators -> Nat]

VARIABLES
    orchestrator,
    up,         \* the manager's process is alive
    pc,         \* where a call is
    object,     \* the one whose mutex a deployment took; 0 is none
    target,     \* the container it waits for and removes
    stopped,    \* the local variable of Cattle's polling loop
    late,       \* its sleep of five seconds was over before the restart that was due
    result,     \* what it is going to return
    phase,      \* of each container
    starts,     \* StartCount
    outcome,    \* how the agent's last run ended
    deleting,   \* its deletion was accepted
    orphan,     \* orphanAgents[v.ID]
    astray      \* containers that no call is going to remove

callVars == <<pc, object, target, stopped, late, result>>
containerVars == <<phase, starts, outcome, deleting>>
vars == <<orchestrator, up, callVars, containerVars, orphan, astray>>

Waiting == {"attach", "start", "poll", "sleep", "inspect", "read", "remove", "removing"}
Preparing == {"prepare", "mounts", "manager", "create"}
Phases ==
    {"none", "created", "starting", "running", "stopped", "rejected", "stuck", "removed"}

TypeOK ==
    /\ orchestrator \in Orchestrators
    /\ up \in BOOLEAN
    /\ object \in [Calls -> Nat]
    /\ pc \in [Calls -> Waiting \union Preparing \union {"idle", "over"}]
    /\ target \in [Calls -> Calls \union {NoAgent}]
    /\ stopped \in [Calls -> BOOLEAN] /\ late \in [Calls -> BOOLEAN]
    /\ result \in [Calls -> {"none", "error", "report", "noise"}]
    /\ phase \in [Calls -> Phases]
    /\ starts \in [Calls -> 0..2]
    /\ outcome \in [Calls -> {"none", "report", "failure"}]
    /\ deleting \in [Calls -> BOOLEAN]
    /\ orphan \in Calls \union {NoAgent}
    /\ astray \subseteq Calls

Active(c) == pc[c] \in Waiting \union Preparing
Exists(k) == phase[k] \notin {"none", "removed"}

\* RetrieveOrphanAgents at start-up. One of the agents found is kept for the
\* volume; the list may fail.
Found ==
    {NoAgent} \union
        (IF orchestrator = "cattle" THEN {k \in Calls : Exists(k)} ELSE {})

NoLocals(o, t, s, l, r) ==
    /\ o = [c \in Calls |-> 0]
    /\ t = [c \in Calls |-> NoAgent]
    /\ s = [c \in Calls |-> FALSE] /\ l = [c \in Calls |-> FALSE]
    /\ r = [c \in Calls |-> "none"]

Init ==
    /\ orchestrator \in Orchestrators
    /\ up = TRUE
    /\ pc = [c \in Calls |-> IF c \in Former THEN "over" ELSE "idle"]
    /\ NoLocals(object, target, stopped, late, result)
    /\ phase = [k \in Calls |-> IF k \in Former THEN "running" ELSE "none"]
    /\ starts = [k \in Calls |-> IF k \in Former THEN 1 ELSE 0]
    /\ outcome = [k \in Calls |-> "none"]
    /\ deleting = [k \in Calls |-> FALSE]
    /\ astray = Former
    /\ orphan \in Found

\* A container is gone, with all that was known of it.
Disappears(k) ==
    /\ phase' = [phase EXCEPT ![k] = "removed"]
    /\ starts' = [starts EXCEPT ![k] = 0]
    /\ outcome' = [outcome EXCEPT ![k] = "none"]
    /\ deleting' = [deleting EXCEPT ![k] = FALSE]
    /\ astray' = astray \ {k}

\* A call moves on, without touching any container.
Moves(c, from, to) ==
    /\ pc[c] = from
    /\ pc' = [pc EXCEPT ![c] = to]
    /\ UNCHANGED <<orchestrator, up, object, target, orphan>>

\* It leaves with an error by way of the deferred removal.
Errs(c, from) ==
    /\ Moves(c, from, "remove")
    /\ result' = [result EXCEPT ![c] = "error"]
    /\ UNCHANGED <<stopped, late>>

\* It returns to its caller, and its local variables are gone.
Returns(c, from) ==
    /\ pc[c] = from
    /\ pc' = [pc EXCEPT ![c] = "over"]
    /\ object' = [object EXCEPT ![c] = 0]
    /\ target' = [target EXCEPT ![c] = NoAgent]
    /\ stopped' = [stopped EXCEPT ![c] = FALSE]
    /\ late' = [late EXCEPT ![c] = FALSE]
    /\ result' = [result EXCEPT ![c] = "none"]
    /\ UNCHANGED <<orchestrator, up, orphan>>

-----------------------------------------------------------------------------
(* DeployAgent *)

Prepares(c, o) ==
    /\ up /\ pc[c] = "idle"
    /\ pc' = [pc EXCEPT ![c] = "prepare"]
    /\ object' = [object EXCEPT ![c] = o]
    /\ target' = [target EXCEPT ![c] = c]
    /\ UNCHANGED <<orchestrator, up, stopped, late, result, containerVars, orphan, astray>>

\* Mutant of Deploy: the mutex is not taken.
DeployUnlocked(c) == Prepares(c, 1)

\* The caller has the mutex of an object; those that nobody holds are alike.
Deploy(c) ==
    LET free == (1..MaxObjects[orchestrator]) \ {object[d] : d \in {e \in Calls : Active(e)}} IN
    /\ free # {}
    /\ Prepares(c, CHOOSE o \in free : TRUE)

\* What is asked before the container is created.
Asks(o, c, from, to) ==
    /\ orchestrator = o
    /\ Moves(c, from, to)
    /\ UNCHANGED <<stopped, late, result, containerVars, astray>>

PullImage(c) == Asks("docker", c, "prepare", "mounts")

\* The manager's own mounts, which the agent gets too.
DockerAdditionalVolumes(c) == Asks("docker", c, "mounts", "create")

CattleAdditionalVolumes(c) == Asks("cattle", c, "prepare", "create")

GetClaim(c) == Asks("kubernetes", c, "prepare", "manager")

\* The manager's own pod, whose groups the agent gets.
GetManagerPod(c) == Asks("kubernetes", c, "manager", "create")

\* The process ends, and with it every call, its deferred removal included.
Dies ==
    /\ up' = FALSE
    /\ pc' = [c \in Calls |-> IF Active(c) THEN "over" ELSE pc[c]]
    /\ NoLocals(object', target', stopped', late', result')
    /\ astray' = {k \in Calls : Exists(k) /\ ~deleting[k]}
    /\ orphan' = NoAgent
    /\ UNCHANGED <<orchestrator, containerVars>>

\* The error of getManagerPod is not returned, and a nil pointer is used: net/http
\* recovers the panic of a request, any other goroutine takes the manager down.
MissManagerPod(c) ==
    \/ /\ c \in Handled
       /\ Returns(c, "manager")
       /\ UNCHANGED <<containerVars, astray>>
    \/ /\ c \notin Handled
       /\ pc[c] = "manager"
       /\ Dies

\* Docker creates a container that has to be started; the others start it.
Created(c) ==
    phase' = [phase EXCEPT ![c] =
                IF orchestrator = "kubernetes" THEN "starting" ELSE "created"]

Creates(o, c, next) ==
    /\ orchestrator = o
    /\ Moves(c, "create", next)
    /\ Created(c)
    /\ UNCHANGED <<stopped, late, result, starts, outcome, deleting, astray>>

DockerCreate(c) == Creates("docker", c, "start")
PodCreate(c) == Creates("kubernetes", c, "poll")
CattleCreate(c) == Creates("cattle", c, "poll")

\* The container exists, but the call was told otherwise: no removal is deferred.
CreateUnanswered(c) ==
    /\ Returns(c, "create")
    /\ Created(c)
    /\ astray' = astray \union {c}
    /\ UNCHANGED <<starts, outcome, deleting>>

Launches(k) ==
    /\ phase' = [phase EXCEPT ![k] = "running"]
    /\ starts' = [starts EXCEPT ![k] = @ + 1]
    /\ UNCHANGED <<outcome, deleting>>

ContainerStart(c) ==
    /\ phase[c] = "created"
    /\ Moves(c, "start", "poll")
    /\ Launches(c)
    /\ UNCHANGED <<stopped, late, result, astray>>

StartUnanswered(c) ==
    /\ phase[c] = "created"
    /\ Errs(c, "start")
    /\ Launches(c)
    /\ UNCHANGED astray

\* Any request may fail. Before the container exists the call just returns; the
\* same holds of the first look of an attachment.
Refused(c) ==
    /\ \/ \E at \in {"prepare", "mounts", "create", "attach"} : Returns(c, at)
       \/ \E at \in {"start", "poll", "inspect", "read"} : Errs(c, at)
    /\ UNCHANGED <<containerVars, astray>>

-----------------------------------------------------------------------------
(* The polling loops *)

Observes(c, phases) == pc[c] = "poll" /\ phase[target[c]] \in phases

DockerPoll(c) ==
    /\ orchestrator = "docker"
    /\ Observes(c, {"stopped"})
    /\ Moves(c, "poll", "read")
    /\ UNCHANGED <<stopped, late, result, containerVars, astray>>

\* Mutant of KubernetesPoll: what has started is taken for ended.
KubernetesPollEager(c) ==
    /\ orchestrator = "kubernetes"
    /\ Observes(c, {"running", "stopped", "rejected"})
    /\ Moves(c, "poll", "read")
    /\ UNCHANGED <<stopped, late, result, containerVars, astray>>

\* A pod that the node rejects has no container.
KubernetesPoll(c) ==
    /\ orchestrator = "kubernetes"
    /\ \/ /\ Observes(c, {"stopped"})
          /\ Moves(c, "poll", "read")
          /\ UNCHANGED <<stopped, late, result>>
       \/ /\ Observes(c, {"rejected"})
          /\ Errs(c, "poll")
    /\ UNCHANGED <<containerVars, astray>>

\* Mutant of CattlePoll: the state "error" is not looked for.
CattlePollStopped(c) ==
    /\ orchestrator = "cattle"
    /\ Observes(c, {"stopped"})
    /\ Moves(c, "poll", "inspect")
    /\ UNCHANGED <<stopped, late, result, containerVars, astray>>

\* Mutant of CattlePoll: the first look at a stopped container is the last.
CattlePollOnce(c) ==
    /\ orchestrator = "cattle"
    /\ Observes(c, {"stopped", "rejected"})
    /\ Moves(c, "poll", "inspect")
    /\ UNCHANGED <<stopped, late, result, containerVars, astray>>

\* The first time the container is seen stopped the loop sleeps for five seconds: the
\* orchestrator restarts once a container that failed.
CattlePoll(c) ==
    LET k == target[c]
        settled == starts[k] # 1 \/ stopped[c] IN
    /\ orchestrator = "cattle"
    /\ \/ /\ Observes(c, {"stopped"}) /\ ~settled
          /\ Moves(c, "poll", "sleep")
          /\ stopped' = [stopped EXCEPT ![c] = TRUE]
       \/ /\ Observes(c, {"rejected"}) \/ (Observes(c, {"stopped"}) /\ settled)
          /\ Moves(c, "poll", "inspect")
          /\ UNCHANGED stopped
    /\ UNCHANGED <<late, result, containerVars, astray>>

\* Cattle is to start the failed container k once more.
RestartDue(k) ==
    /\ orchestrator = "cattle"
    /\ phase[k] = "stopped" /\ outcome[k] = "failure" /\ starts[k] = 1 /\ ~deleting[k]

\* The five seconds are over.
Wakes(c) ==
    /\ Moves(c, "sleep", "poll")
    /\ late' = [late EXCEPT ![c] = RestartDue(target[c])]
    /\ UNCHANGED <<stopped, result, containerVars, astray>>

\* Mutant of Timeout: the removal is deferred after the loop only.
TimeoutKeeping(c) ==
    /\ Observes(c, {"starting"})
    /\ Returns(c, "poll")
    /\ UNCHANGED <<containerVars, astray>>

\* Five minutes on Kubernetes, one on Cattle, looked at only while it starts: on Cattle
\* also for the second time. On Kubernetes what is neither running nor ended starts.
Timeout(c) ==
    /\ \/ Observes(c, {"starting"})
       \/ orchestrator = "kubernetes" /\ Observes(c, {"stuck"})
    /\ Errs(c, "poll")
    /\ UNCHANGED <<containerVars, astray>>

\* A container that is gone can be neither started, looked at nor read. Cattle,
\* though, goes on answering that it is removed, a state its loop does not know.
Missing(c) ==
    /\ pc[c] \in Waiting /\ phase[target[c]] = "removed"
    /\ \/ \E at \in {"start", "read"} : Errs(c, at)
       \/ orchestrator # "cattle" /\ Errs(c, "poll")
    /\ UNCHANGED <<containerVars, astray>>

Inspect(c) ==
    /\ Moves(c, "inspect", "read")
    /\ UNCHANGED <<stopped, late, result, containerVars, astray>>

\* The last line that the container has printed.
ReadsLogs(o, c) ==
    /\ orchestrator = o
    /\ Moves(c, "read", "remove")
    /\ phase[target[c]] # "removed"
    /\ result' = [result EXCEPT ![c] =
                    IF outcome[target[c]] = "report" THEN "report" ELSE "noise"]
    /\ UNCHANGED <<stopped, late, containerVars, astray>>

ContainerLogs(c) == ReadsLogs("docker", c)
PodLogs(c) == ReadsLogs("kubernetes", c)
CattleLogs(c) == ReadsLogs("cattle", c)

\* The deferred removals. Only Cattle's waits until the container is gone.
DockerRemove(c) ==
    /\ orchestrator = "docker"
    /\ Returns(c, "remove")
    /\ Disappears(target[c])

Deletes(k) ==
    /\ deleting' = [deleting EXCEPT ![k] = Exists(k)]
    /\ UNCHANGED <<phase, starts, outcome, astray>>

DeletePod(c) ==
    /\ orchestrator = "kubernetes"
    /\ Returns(c, "remove")
    /\ Deletes(target[c])

CattleRemove(c) ==
    /\ orchestrator = "cattle"
    /\ Moves(c, "remove", "removing")
    /\ Deletes(target[c])
    /\ UNCHANGED <<stopped, late, result>>

\* An error of the removal is logged at most.
RemoveRefused(c) ==
    /\ Returns(c, "remove")
    /\ astray' = astray \union ({target[c]} \intersect {k \in Calls : Exists(k)})
    /\ UNCHANGED containerVars

AwaitRemoval(c) ==
    /\ Returns(c, "removing")
    /\ phase[target[c]] = "removed"
    /\ UNCHANGED <<containerVars, astray>>

AbandonRemoval(c) ==
    /\ Returns(c, "removing")
    /\ UNCHANGED <<containerVars, astray>>

-----------------------------------------------------------------------------
(* AttachOrphanAgent and the manager's life *)

\* A round of the refresher finds orphanAgents[v.ID]. The entry is never deleted
\* (delete is given the container where the key is the volume).
Attach(c) ==
    /\ up /\ pc[c] = "idle" /\ c \notin Handled
    /\ orphan # NoAgent
    /\ pc' = [pc EXCEPT ![c] = "attach"]
    /\ target' = [target EXCEPT ![c] = orphan]
    /\ UNCHANGED <<orchestrator, up, object, stopped, late, result, containerVars, orphan, astray>>

AttachFound(c) ==
    /\ Moves(c, "attach", "poll")
    /\ astray' = astray \ {target[c]}
    /\ UNCHANGED <<stopped, late, result, containerVars>>

Crash == up /\ Dies

Restart ==
    /\ ~up
    /\ up' = TRUE
    /\ orphan' \in Found
    /\ UNCHANGED <<orchestrator, callVars, containerVars, astray>>

-----------------------------------------------------------------------------
(* The orchestrator and the agent *)

OrchestratorOnly ==
    UNCHANGED <<orchestrator, up, callVars, orphan, astray>>

Schedule(k) ==
    /\ orchestrator = "cattle" /\ phase[k] = "created"
    /\ phase' = [phase EXCEPT ![k] = "starting"]
    /\ UNCHANGED <<starts, outcome, deleting>>
    /\ OrchestratorOnly

Launch(k) ==
    /\ phase[k] = "starting"
    /\ Launches(k)
    /\ OrchestratorOnly

Reject(k) ==
    /\ phase[k] = "starting"
    /\ phase' = [phase EXCEPT ![k] = "rejected"]
    /\ UNCHANGED <<starts, outcome, deleting>>
    /\ OrchestratorOnly

\* The agent's process ends, with its report or with an error.
AgentEnds(k) ==
    /\ phase[k] = "running"
    /\ phase' = [phase EXCEPT ![k] = "stopped"]
    /\ \E o \in {"report", "failure"} : outcome' = [outcome EXCEPT ![k] = o]
    /\ UNCHANGED <<starts, deleting>>
    /\ OrchestratorOnly

Restarts(k) ==
    /\ phase' = [phase EXCEPT ![k] = "starting"]
    /\ UNCHANGED <<starts, outcome, deleting>>
    /\ OrchestratorOnly

\* Mutant of Relaunch: the retry count is not observed.
RelaunchAlways(k) ==
    /\ orchestrator = "cattle"
    /\ phase[k] = "stopped" /\ outcome[k] = "failure" /\ ~deleting[k]
    /\ Restarts(k)

\* Cattle's restart policy: on failure, once.
Relaunch(k) == RestartDue(k) /\ Restarts(k)

\* The container gets into a state that it does not leave and that the loop does not
\* look for: dead on Docker, Unknown on Kubernetes. Cattle has others of that kind.
Sticks(k) ==
    /\ orchestrator # "cattle"
    /\ phase[k] \in {"running", "stopped"}
    /\ phase' = [phase EXCEPT ![k] = "stuck"]
    /\ UNCHANGED <<starts, outcome, deleting>>
    /\ OrchestratorOnly

\* An accepted deletion is carried out; somebody else may remove a container too.
Vanishes(k) ==
    /\ Exists(k)
    /\ Disappears(k)
    /\ UNCHANGED <<orchestrator, up, callVars, orphan>>

CarryOutDeletion(k) == deleting[k] /\ Vanishes(k)

RemovedByOther(k) == ~deleting[k] /\ Vanishes(k)

-----------------------------------------------------------------------------
\* What a call does while the orchestrator answers it.
Progress(c) ==
    \/ PullImage(c) \/ DockerAdditionalVolumes(c) \/ DockerCreate(c)
    \/ GetClaim(c) \/ GetManagerPod(c) \/ PodCreate(c)
    \/ CattleAdditionalVolumes(c) \/ CattleCreate(c) \/ AttachFound(c)
    \/ ContainerStart(c)
    \/ DockerPoll(c) \/ KubernetesPoll(c) \/ CattlePoll(c)
    \/ Wakes(c) \/ Timeout(c) \/ Missing(c)
    \/ Inspect(c) \/ ContainerLogs(c) \/ PodLogs(c) \/ CattleLogs(c)
    \/ DockerRemove(c) \/ DeletePod(c) \/ CattleRemove(c) \/ AwaitRemoval(c)

\* Answers that are errors, or lost.
Trouble(c) ==
    \/ MissManagerPod(c) \/ CreateUnanswered(c) \/ StartUnanswered(c)
    \/ Refused(c) \/ RemoveRefused(c) \/ AbandonRemoval(c)

ContainerStep(k) ==
    \/ Schedule(k) \/ Launch(k) \/ Reject(k)
    \/ AgentEnds(k) \/ Relaunch(k) \/ Sticks(k)
    \/ CarryOutDeletion(k) \/ RemovedByOther(k)

Next ==
    \/ \E c \in Calls :
        Deploy(c) \/ Attach(c) \/ Progress(c) \/ Trouble(c) \/ ContainerStep(c)
    \/ Crash \/ Restart

Spec == Init /\ [][Next]_vars

\* The goroutines run, timers fire, agents end and the orchestrator carries out
\* the deletions it has accepted. A container need never start.
Fairness ==
    \A c \in Calls :
        WF_vars(Progress(c)) /\ WF_vars(AgentEnds(c)) /\ WF_vars(CarryOutDeletion(c))

FairSpec == Spec /\ Fairness

-----------------------------------------------------------------------------
(* Properties *)

\* Whatever fails, times out or is answered too late, an agent's container still
\* has a call that will remove it, or is being removed; else its creation was not
\* answered, its removal was refused, or the manager died.
NoStrayAgent ==
    \A k \in Calls : Exists(k) =>
        \/ k \in astray \/ deleting[k]
        \/ \E c \in Calls : target[c] = k /\ pc[c] \in Waiting \ {"attach"}

\* Two agents are at work on the volume at a time only if one of them was left behind,
\* is being removed or was found after a restart, or if the volume was dropped and found
\* again while the first was deployed: the mutex goes with the object.
AgentsApart ==
    \A j, k \in {k \in Calls : phase[k] \in {"running", "stuck"}} :
        j # k => \/ \E x \in {j, k} : x \in astray \/ deleting[x] \/ x = orphan
                 \/ object[j] # object[k]

\* No call takes the first failure of an agent for its end, so as to read a report that
\* is not there yet and to remove the agent in its second run, unless Cattle had not
\* restarted it when the five seconds of the loop were over. (A call does remove an agent
\* at work when a request of the loop fails: the removal is deferred, whatever made the
\* call return.)
RestartIsAwaited ==
    \A c \in Calls :
        pc[c] \in {"inspect", "read"} \/ (pc[c] = "remove" /\ result[c] # "error")
            => late[c] \/ phase[target[c]] \notin {"starting", "running"}

\* The loops have no way out of these states.
Endless(c) ==
    /\ pc[c] = "poll"
    /\ \/ orchestrator = "cattle" /\ phase[target[c]] \in {"created", "removed"}
       \/ orchestrator = "docker" /\ phase[target[c]] = "stuck"

\* Each call returns, and so frees the volume's mutex, once agents end: also if its
\* container never starts, is rejected or is removed by somebody else. It may wait for
\* ever for a container that is in a state that its loop does not know: on Cattle one
\* that is never scheduled or is gone, on Docker one that is dead.
CallsReturn ==
    \A c \in Calls : <>[](~Active(c)) \/ <>[]Endless(c)
=============================================================================
