--------------------------- MODULE VolumeRegistry ---------------------------
(***************************************************************************)
(* The list of managed volumes (m.Volumes) while volumes come, go and come *)
(* back, the manager restarts and agents report: retrieveVolumes           *)
(* (src/internal/manager/volumes.go) over GetVolumes of the orchestrators, *)
(* the rounds of the refresher (manager.go), the report receiver           *)
(* (server.go) and attachOrphanAgent (backup.go).                          *)
(*                                                                         *)
(* A volume, known by its identifier, is managed as an object, the Go      *)
(* struct that holds its mutex, its mark and its date: a volume that was   *)
(* dropped and is found again gets another object. An attempt keeps the    *)
(* object it was started with. Slots, retries and the queue between the    *)
(* refresher and the workers are in BackupScheduler: here an object is     *)
(* queued for one automatic attempt at most, which bears its name, and the *)
(* dispatcher may always drop it.                                          *)
(***************************************************************************)
EXTENDS VolumeFilters

CONSTANTS
    Removable,      \* volumes that come and go
    OptedOut,       \* claims annotated bivac.backup=false
    Ignored,        \* volumes labelled bivac.ignore=true
    Objects,
    Requests,       \* backups asked for at the API
    Agents,
    Orchestrators,
    Receivers,      \* settings of --log.server: TRUE when there is one
    Options,        \* whitelists and blacklists that may be configured
    MaxAttachments, \* bound: more attachments of one object are not counted
    NoObject, NoAgent

Actors == Objects \union Requests

ASSUME RegistryAssumption ==
    /\ Removable \subseteq Volumes /\ OptedOut \union Ignored \subseteq Volumes
    /\ Objects \intersect Requests = {}
    /\ Orchestrators \subseteq {"docker", "kubernetes", "cattle"}
    /\ Receivers \subseteq BOOLEAN
    /\ Options \subseteq Lists
    /\ MaxAttachments \in Nat \ {0}
    /\ NoObject \notin Objects /\ NoAgent \notin Agents

VARIABLES
    orchestrator, receiver, options,    \* the configuration
    up,             \* the manager runs
    lists,          \* volumeFilters
    exists,         \* volumes of the orchestrator
    repo,           \* how old the last snapshot of each volume is: "old" if there is none
    rpc, answer, todo, cur,     \* the refresher
    managed,        \* m.Volumes
    vol, backingUp, date,       \* of each object
    pc, target, with,   \* of each attempt: where it is, its object, its agent
    attached,       \* how many attachOrphanAgent are under way for each object
    orphan,         \* orphanAgents
    agent, mounts,  \* of each agent: what it does, its volume
    untold          \* volumes about which a report or a date was lost

configVars == <<orchestrator, receiver, options>>
refresherVars == <<lists, rpc, answer, todo, cur>>
objectVars == <<managed, vol, backingUp, date>>
attemptVars == <<pc, target, with>>
agentVars == <<agent, mounts>>
vars == <<configVars, up, exists, repo, refresherVars, objectVars, attemptVars,
          attached, orphan, agentVars, untold>>

Ages == {"old", "recent"}

TypeOK ==
    /\ orchestrator \in Orchestrators /\ receiver \in Receivers /\ options \in Options
    /\ up \in BOOLEAN
    /\ lists \in Lists
    /\ exists \in [Volumes -> BOOLEAN]
    /\ repo \in [Volumes -> Ages]
    /\ rpc \in {"retrieve", "append", "walk", "due"}
    /\ answer \subseteq Volumes /\ todo \subseteq Objects
    /\ cur \in Objects \union {NoObject}
    /\ managed \subseteq Objects
    /\ vol \in [Objects -> Volumes \union {0}]
    /\ \A o \in managed : vol[o] # 0
    /\ backingUp \in [Objects -> BOOLEAN]
    /\ date \in [Objects -> Ages]
    /\ pc \in [Actors -> {"idle", "queued", "wait", "locked", "agent"}]
    /\ target \in [Actors -> Objects \union {NoObject}]
    /\ with \in [Actors -> Agents \union {NoAgent}]
    /\ attached \in [Objects -> 0..MaxAttachments]
    /\ orphan \in [Volumes -> Agents \union {NoAgent}]
    /\ agent \in [Agents -> {"none", "running", "stored", "done", "told"}]
    /\ mounts \in [Agents -> Volumes \union {0}]
    /\ untold \subseteq Volumes

ObjectsOf(v) == {o \in Objects : vol[o] = v}
ManagedOf(v) == managed \intersect ObjectsOf(v)

\* The process of g has ended; with a log server it posts its report before.
Ended(g) == agent[g] = (IF receiver THEN "told" ELSE "done")

\* What a process that starts knows.
Blank ==
    /\ lists' = options
    /\ rpc' = "retrieve" /\ answer' = {} /\ todo' = {} /\ cur' = NoObject
    /\ managed' = {} /\ vol' = [o \in Objects |-> 0]
    /\ backingUp' = [o \in Objects |-> FALSE] /\ date' = [o \in Objects |-> "old"]
    /\ pc' = [a \in Actors |-> "idle"]
    /\ target' = [a \in Actors |-> NoObject] /\ with' = [a \in Actors |-> NoAgent]
    /\ attached' = [o \in Objects |-> 0]

Init ==
    /\ orchestrator \in Orchestrators /\ receiver \in Receivers /\ options \in Options
    /\ up = TRUE
    /\ lists = options
    /\ exists = [v \in Volumes |-> TRUE]
    /\ repo = [v \in Volumes |-> "old"]
    /\ rpc = "retrieve" /\ answer = {} /\ todo = {} /\ cur = NoObject
    /\ managed = {} /\ vol = [o \in Objects |-> 0]
    /\ backingUp = [o \in Objects |-> FALSE] /\ date = [o \in Objects |-> "old"]
    /\ pc = [a \in Actors |-> "idle"]
    /\ target = [a \in Actors |-> NoObject] /\ with = [a \in Actors |-> NoAgent]
    /\ attached = [o \in Objects |-> 0]
    /\ orphan = [v \in Volumes |-> NoAgent]
    /\ agent = [g \in Agents |-> "none"] /\ mounts = [g \in Agents |-> 0]
    /\ untold = {}

-----------------------------------------------------------------------------
(* The refresher *)

Existing == {v \in Volumes : exists[v]}

\* What GetVolumes may answer when it does not fail. Docker lists all volumes or fails.
DockerVolumes == {Existing \ Ignored}

\* Claims may opt out. WhitelistAnnotation never arrives: the filters passed are empty.
\* The label is looked at only if a pod mounts the claim.
KubernetesVolumes ==
    LET claims == Existing \ OptedOut IN
    {(claims \ Ignored) \union unmounted : unmounted \in SUBSET (claims \intersect Ignored)}

\* A volume whose storage pools cannot be asked for or have no host is left out.
CattleVolumes == SUBSET Existing

Answers ==
    CASE orchestrator = "docker" -> DockerVolumes
      [] orchestrator = "kubernetes" -> KubernetesVolumes
      [] orchestrator = "cattle" -> CattleVolumes

RetrieveVolumes ==
    /\ up /\ rpc = "retrieve"
    /\ \E found \in Answers : \E before \in Orders(found \ Unnamed) :
        LET selection == Select(lists, found, before) IN
        /\ answer' = selection.kept
        /\ lists' = selection.lists
    /\ rpc' = "append"
    /\ UNCHANGED <<configVars, up, exists, repo, todo, cur, objectVars, attemptVars,
                   attached, orphan, agentVars, untold>>

\* The error is logged and the volumes known are walked.
RetrieveFails ==
    /\ up /\ rpc = "retrieve"
    /\ rpc' = "walk" /\ todo' = managed
    /\ UNCHANGED <<configVars, up, exists, repo, lists, answer, cur, objectVars,
                   attemptVars, attached, orphan, agentVars, untold>>

\* Nobody has a reference to o.
Free(o) ==
    /\ o \notin managed \union todo \union {cur}
    /\ attached[o] = 0 /\ pc[o] = "idle"
    /\ \A a \in Actors : target[a] # o

\* Mutant of Discover: the identifier is not set.
DiscoverNameless(v) ==
    LET o == CHOOSE o \in Objects : Free(o) IN
    /\ rpc = "append"
    /\ v \in answer /\ ManagedOf(v) = {} /\ \E n \in Objects : Free(n)
    /\ managed' = managed \union {o}
    /\ vol' = [vol EXCEPT ![o] = 0]
    /\ backingUp' = [backingUp EXCEPT ![o] = FALSE]
    /\ \/ /\ date' = [date EXCEPT ![o] = repo[v]]
          /\ untold' = untold \ {v}
       \/ /\ date' = [date EXCEPT ![o] = "old"]
          /\ untold' = untold \union {v}
    /\ UNCHANGED <<configVars, up, exists, repo, refresherVars, attemptVars, attached,
                   orphan, agentVars>>

\* A volume that is not managed yet gets an object, with the date of its last snapshot
\* if the repository can be read.
Discover(v) ==
    LET o == CHOOSE o \in Objects : Free(o) IN
    /\ rpc = "append"
    /\ v \in answer /\ ManagedOf(v) = {} /\ \E n \in Objects : Free(n)
    /\ managed' = managed \union {o}
    /\ vol' = [vol EXCEPT ![o] = v]
    /\ backingUp' = [backingUp EXCEPT ![o] = FALSE]
    /\ \/ /\ date' = [date EXCEPT ![o] = repo[v]]
          /\ untold' = untold \ {v}
       \/ /\ date' = [date EXCEPT ![o] = "old"]
          /\ untold' = untold \union {v}
    /\ UNCHANGED <<configVars, up, exists, repo, refresherVars, attemptVars, attached,
                   orphan, agentVars>>

\* Then those that were not found are dropped, and the others walked.
RemoveDeleted ==
    /\ rpc = "append"
    /\ \A v \in answer : ManagedOf(v) # {}
    /\ managed' = {o \in managed : vol[o] \in answer}
    /\ rpc' = "walk" /\ todo' = managed' /\ answer' = {}
    /\ UNCHANGED <<configVars, up, exists, repo, lists, cur, vol, backingUp, date,
                   attemptVars, attached, orphan, agentVars, untold>>

\* A volume with an orphan agent is marked, and the agent attached to. The entry stays
\* (delete is given the container's identifier, the key is the volume's), so that this
\* happens each round.
ExamineOrphan(o) ==
    /\ rpc = "walk" /\ o \in todo
    /\ rpc' = "due" /\ cur' = o /\ todo' = todo \ {o}
    /\ IF orphan[vol[o]] = NoAgent
       THEN UNCHANGED <<backingUp, attached>>
       ELSE /\ backingUp' = [backingUp EXCEPT ![o] = TRUE]
            /\ attached' = [attached EXCEPT ![o] = IF @ < MaxAttachments THEN @ + 1 ELSE @]
    /\ UNCHANGED <<configVars, up, exists, repo, lists, answer, managed, vol, date,
                   attemptVars, orphan, agentVars, untold>>

\* isBackupNeeded, and the channel backupSlots.
ExamineDue ==
    /\ rpc = "due"
    /\ LET due == ~backingUp[cur] /\ date[cur] # "recent" IN
       IF due /\ pc[cur] = "idle"
       THEN /\ pc' = [pc EXCEPT ![cur] = "queued"]
            /\ target' = [target EXCEPT ![cur] = cur]
       ELSE UNCHANGED <<pc, target>>
    /\ rpc' = "walk" /\ cur' = NoObject
    /\ UNCHANGED <<configVars, up, exists, repo, lists, answer, todo, objectVars, with,
                   attached, orphan, agentVars, untold>>

EndRound ==
    /\ rpc = "walk" /\ todo = {}
    /\ rpc' = "retrieve"
    /\ UNCHANGED <<configVars, up, exists, repo, lists, answer, todo, cur, objectVars,
                   attemptVars, attached, orphan, agentVars, untold>>

-----------------------------------------------------------------------------
(* Attempts (backupVolume) *)

Marks(o) ==
    /\ backingUp' = [backingUp EXCEPT ![o] = TRUE]
    /\ UNCHANGED <<managed, vol, date>>

\* A worker takes the object from the queue, managed still or not.
Begin(a) ==
    /\ pc[a] = "queued"
    /\ pc' = [pc EXCEPT ![a] = "wait"]
    /\ Marks(target[a])
    /\ UNCHANGED <<configVars, up, exists, repo, refresherVars, target, with, attached,
                   orphan, agentVars, untold>>

\* The dispatcher finds no slot for it, or its node is not available.
Dropped(a) ==
    /\ pc[a] = "queued"
    /\ pc' = [pc EXCEPT ![a] = "idle"]
    /\ target' = [target EXCEPT ![a] = NoObject]
    /\ UNCHANGED <<configVars, up, exists, repo, refresherVars, objectVars, with, attached,
                   orphan, agentVars, untold>>

\* The API looks the object up by the volume's identifier.
Request(r, o) ==
    /\ up /\ r \in Requests /\ pc[r] = "idle" /\ o \in managed
    /\ pc' = [pc EXCEPT ![r] = "wait"]
    /\ target' = [target EXCEPT ![r] = o]
    /\ Marks(o)
    /\ UNCHANGED <<configVars, up, exists, repo, refresherVars, with, attached, orphan,
                   agentVars, untold>>

\* Mutant of Lock: the mutex is not taken.
LockUnguarded(a) ==
    /\ pc[a] = "wait"
    /\ pc' = [pc EXCEPT ![a] = "locked"]
    /\ UNCHANGED <<configVars, up, exists, repo, refresherVars, objectVars, target, with,
                   attached, orphan, agentVars, untold>>

\* The mutex is the object's.
Lock(a) ==
    /\ pc[a] = "wait"
    /\ \A b \in Actors : target[b] = target[a] => pc[b] \notin {"locked", "agent"}
    /\ pc' = [pc EXCEPT ![a] = "locked"]
    /\ UNCHANGED <<configVars, up, exists, repo, refresherVars, objectVars, target, with,
                   attached, orphan, agentVars, untold>>

\* The object knows its volume by name only. Docker creates a volume that is gone
\* anew when it is mounted; on Kubernetes the claim has to be there.
DeployAgent(a) ==
    LET v == vol[target[a]]
        unused == {g \in Agents : agent[g] = "none" /\ \A w \in Volumes : orphan[w] # g}
        g == CHOOSE g \in unused : TRUE IN
    /\ pc[a] = "locked"
    /\ orchestrator = "kubernetes" => exists[v]
    /\ unused # {}
    /\ agent' = [agent EXCEPT ![g] = "running"] /\ mounts' = [mounts EXCEPT ![g] = v]
    /\ exists' = [exists EXCEPT ![v] = @ \/ orchestrator = "docker"]
    /\ pc' = [pc EXCEPT ![a] = "agent"] /\ with' = [with EXCEPT ![a] = g]
    /\ UNCHANGED <<configVars, up, repo, refresherVars, objectVars, target, attached,
                   orphan, untold>>

\* The attempt returns: the mark is cleared, whoever else set it.
Leaves(a) ==
    /\ pc' = [pc EXCEPT ![a] = "idle"]
    /\ target' = [target EXCEPT ![a] = NoObject] /\ with' = [with EXCEPT ![a] = NoAgent]
    /\ backingUp' = [backingUp EXCEPT ![target[a]] = FALSE]

\* Mutant of DeployFails: the mark is cleared on success only.
DeployFailsMarked(a) ==
    /\ pc[a] = "locked"
    /\ pc' = [pc EXCEPT ![a] = "idle"] /\ target' = [target EXCEPT ![a] = NoObject]
    /\ UNCHANGED <<configVars, up, exists, repo, refresherVars, objectVars, with,
                   attached, orphan, agentVars, untold>>

DeployFails(a) ==
    /\ pc[a] = "locked"
    /\ Leaves(a)
    /\ UNCHANGED <<configVars, up, exists, repo, refresherVars, managed, vol, date,
                   attached, orphan, agentVars, untold>>

\* The container of an agent is gone.
Forgets(g) ==
    /\ agent' = [agent EXCEPT ![g] = "none"] /\ mounts' = [mounts EXCEPT ![g] = 0]

\* It is removed, whatever the agent does; a report still to be made is lost.
Removed(g) ==
    /\ untold' = IF agent[g] \in {"stored", "done"} THEN untold \union {mounts[g]} ELSE untold
    /\ Forgets(g)

\* DeployAgent returns an error while the agent is at work, or when its output is
\* read; its deferred call removes the container.
AgentFails(a) ==
    /\ pc[a] = "agent"
    /\ Leaves(a) /\ Removed(with[a])
    /\ UNCHANGED <<configVars, up, exists, repo, refresherVars, managed, vol, date,
                   attached, orphan>>

\* updateBackupLogs writes today's date, whatever the report says. The report of an
\* agent tells o, which may have been dropped.
Told(o) ==
    /\ date' = [date EXCEPT ![o] = "recent"]
    /\ untold' = IF o \in managed THEN untold \ {vol[o]} ELSE untold \union {vol[o]}

Lost(v) ==
    /\ untold' = untold \union {v}
    /\ UNCHANGED date

\* The output that a call has waited for, for object o. With a log server it is not
\* looked at; else it may be unreadable.
Output(o, g) ==
    \/ receiver /\ UNCHANGED <<date, untold>>
    \/ ~receiver /\ (Told(o) \/ Lost(vol[o]))

\* DeployAgent returns, and the container is removed.
Collect(a) ==
    LET g == with[a] IN
    /\ pc[a] = "agent" /\ Ended(g)
    /\ Output(target[a], g)
    /\ Leaves(a) /\ Forgets(g)
    /\ UNCHANGED <<configVars, up, exists, repo, refresherVars, managed, vol, attached,
                   orphan>>

\* One attachOrphanAgent of o returns, without the mutex: the mark is cleared, whoever
\* else set it or is still attached.
Detaches(o) ==
    /\ attached[o] > 0
    /\ attached' = [attached EXCEPT ![o] = @ - 1]
    /\ backingUp' = [backingUp EXCEPT ![o] = FALSE]

\* It has waited for the agent.
AttachEnds(o) ==
    LET g == orphan[vol[o]] IN
    /\ Detaches(o)
    /\ Ended(g) /\ Output(o, g) /\ Forgets(g)
    /\ UNCHANGED <<configVars, up, exists, repo, refresherVars, managed, vol,
                   attemptVars, orphan>>

\* It has no provider, or the agent is not there; or the agent cannot be inspected
\* any more and is removed.
AttachFails(o) ==
    /\ Detaches(o)
    /\ \/ UNCHANGED <<untold, agentVars>>
       \/ agent[orphan[vol[o]]] # "none" /\ Removed(orphan[vol[o]])
    /\ UNCHANGED <<configVars, up, exists, repo, refresherVars, managed, vol, date,
                   attemptVars, orphan>>

-----------------------------------------------------------------------------
(* Agents *)

\* The snapshot is in the repository; the run goes on.
Stores(g) ==
    /\ agent[g] = "running"
    /\ agent' = [agent EXCEPT ![g] = "stored"]
    /\ repo' = [repo EXCEPT ![mounts[g]] = "recent"]
    /\ UNCHANGED <<configVars, up, exists, refresherVars, objectVars, attemptVars,
                   attached, orphan, mounts, untold>>

\* The process ends, with or without a snapshot.
Finishes(g) ==
    /\ agent[g] \in {"running", "stored"}
    /\ agent' = [agent EXCEPT ![g] = "done"]
    /\ UNCHANGED <<configVars, up, exists, repo, refresherVars, objectVars, attemptVars,
                   attached, orphan, mounts, untold>>

\* Mutant of GetBackupLogs: any object of the volume is updated.
GetBackupLogsOfAny(g) ==
    /\ up /\ receiver /\ agent[g] = "done"
    /\ \E o \in ObjectsOf(mounts[g]) : date' = [date EXCEPT ![o] = "recent"]
    /\ untold' = untold \ {mounts[g]}
    /\ agent' = [agent EXCEPT ![g] = "told"]
    /\ UNCHANGED <<configVars, up, exists, repo, refresherVars, managed, vol, backingUp,
                   attemptVars, attached, orphan, mounts>>

\* The report receiver: the object is looked up by the volume's identifier.
GetBackupLogs(g) ==
    /\ up /\ receiver /\ agent[g] = "done"
    /\ \/ \E o \in ManagedOf(mounts[g]) : Told(o)
       \/ ManagedOf(mounts[g]) = {} /\ Lost(mounts[g])
    /\ agent' = [agent EXCEPT ![g] = "told"]
    /\ UNCHANGED <<configVars, up, exists, repo, refresherVars, managed, vol, backingUp,
                   attemptVars, attached, orphan, mounts>>

\* The POST fails, or the manager is down: it is not repeated. Or the agent is killed
\* before it gets there.
PostLost(g) ==
    /\ receiver /\ agent[g] \in {"running", "stored", "done"}
    /\ Lost(mounts[g])
    /\ agent' = [agent EXCEPT ![g] = "told"]
    /\ UNCHANGED <<configVars, up, exists, repo, refresherVars, managed, vol, backingUp,
                   attemptVars, attached, orphan, mounts>>

-----------------------------------------------------------------------------
(* The manager's life and the rest of the world *)

Crash ==
    /\ up
    /\ up' = FALSE
    /\ Blank
    /\ orphan' = [v \in Volumes |-> NoAgent]
    /\ UNCHANGED <<configVars, exists, repo, agentVars, untold>>

\* RetrieveOrphanAgents: one agent per volume, on Cattle alone; the list may fail.
OrphansFound ==
    {[v \in Volumes |-> NoAgent]} \union
        IF orchestrator # "cattle" THEN {}
        ELSE {f \in [Volumes -> Agents \union {NoAgent}] :
                \A v \in Volumes :
                    LET there == {g \in Agents : agent[g] # "none" /\ mounts[g] = v} IN
                    IF there = {} THEN f[v] = NoAgent ELSE f[v] \in there}

Restart ==
    /\ ~up
    /\ up' = TRUE
    /\ orphan' \in OrphansFound
    /\ UNCHANGED <<configVars, exists, repo, refresherVars, objectVars, attemptVars,
                   attached, agentVars, untold>>

\* A container nobody waits for is removed by its owner or the operator.
Vanish(g) ==
    /\ Ended(g)
    /\ \A a \in Actors : with[a] # g
    /\ Removed(g)
    /\ UNCHANGED <<configVars, up, exists, repo, refresherVars, objectVars, attemptVars,
                   attached, orphan>>

ComesOrGoes(v) ==
    /\ v \in Removable
    /\ exists' = [exists EXCEPT ![v] = ~@]
    /\ UNCHANGED <<configVars, up, repo, refresherVars, objectVars, attemptVars, attached,
                   orphan, agentVars, untold>>

\* An interval passes since the last snapshot of v.
Aged(age) == IF age = "recent" THEN "old" ELSE age

GetsOld(v) ==
    /\ repo' = [repo EXCEPT ![v] = Aged(@)]
    /\ date' = [o \in Objects |-> IF vol[o] = v THEN Aged(date[o]) ELSE date[o]]
    /\ <<repo, date>>' # <<repo, date>>
    /\ UNCHANGED <<configVars, up, exists, refresherVars, managed, vol, backingUp,
                   attemptVars, attached, orphan, agentVars, untold>>

-----------------------------------------------------------------------------
Refresher ==
    \/ RetrieveVolumes \/ RetrieveFails \/ RemoveDeleted
    \/ \E v \in Volumes : Discover(v)
    \/ \E o \in Objects : ExamineOrphan(o)
    \/ ExamineDue \/ EndRound

Attempt(a) ==
    \/ Begin(a) \/ Dropped(a) \/ Lock(a)
    \/ DeployAgent(a) \/ DeployFails(a) \/ AgentFails(a) \/ Collect(a)

Attachment(o) == AttachEnds(o) \/ AttachFails(o)

AgentStep(g) == Stores(g) \/ Finishes(g) \/ GetBackupLogs(g) \/ PostLost(g)

Next ==
    \/ Refresher
    \/ \E a \in Actors : Attempt(a)
    \/ \E r \in Requests, o \in Objects : Request(r, o)
    \/ \E o \in Objects : Attachment(o)
    \/ \E g \in Agents : AgentStep(g) \/ Vanish(g)
    \/ \E v \in Volumes : ComesOrGoes(v) \/ GetsOld(v)
    \/ Crash \/ Restart

Spec == Init /\ [][Next]_vars

\* Goroutines run, agents end and time passes.
Fairness ==
    /\ WF_vars(Refresher)
    /\ \A a \in Actors : WF_vars(Attempt(a))
    /\ \A o \in Objects : WF_vars(Attachment(o))
    /\ \A g \in Agents : WF_vars(AgentStep(g))
    /\ \A v \in Volumes : WF_vars(GetsOld(v))

FairSpec == Spec /\ Fairness

-----------------------------------------------------------------------------
(* Properties *)

\* Through all rounds, volumes that come and go, answers that leave volumes out, and
\* the lists that blacklistedVolume sorts on the way, each managed volume has one
\* object and is one that the options select. No option has an empty name in it here.
Selected ==
    /\ managed \intersect ObjectsOf(0) = {}
    /\ \A v \in Volumes : Cardinality(ManagedOf(v)) <= 1
    /\ \A o \in managed : vol[o] \in Promised(options)

\* Two attempts have agents on one volume only with two objects, of which one at most
\* is managed: the mutex goes with the object, and a volume that is dropped while it
\* is backed up loses it.
AgentsOfVolume ==
    \A a, b \in {a \in Actors : pc[a] = "agent"} :
        a # b /\ vol[target[a]] = vol[target[b]] =>
            target[a] # target[b] /\ ~({target[a], target[b]} \subseteq managed)

\* The manager takes a volume for due although it has just been backed up only while
\* the agent that stored the snapshot still runs or its report is on its way, or after
\* a report or the date of the last snapshot was lost or went to an object that had
\* been dropped.
StoredIsKnown ==
    \A o \in managed :
        repo[vol[o]] = "recent" /\ date[o] # "recent" =>
            \/ vol[o] \in untold
            \/ \E g \in Agents : agent[g] \in {"stored", "done"} /\ mounts[g] = vol[o]

Attempted(v) ==
    \E a \in Actors : pc[a] \in {"locked", "agent"} /\ vol[target[a]] = v

Current(v) == \E o \in ManagedOf(v) : date[o] = "recent"

DroppedFor(v) == \E a \in Actors : Dropped(a) /\ vol[target[a]] = v

\* v is attempted or found recent again and again, or at least offered to the
\* dispatcher and dropped by it, for want of a slot or of a node, again and again.
Served(v) == []<>(Attempted(v) \/ Current(v)) \/ []<><<DroppedFor(v)>>_vars

\* A volume that stays in the list is served, also when retrievals, deployments and the
\* attempts of other volumes fail for ever, unless an orphan agent was found: the
\* refresher comes back to each volume, and no mark hides one from it for ever.
DueIsAttempted ==
    \A v \in Volumes :
        <>[](up /\ ManagedOf(v) # {} /\ orphan[v] = NoAgent) => Served(v)

\* cmd/manager/manager.go: "Interval between two backups of a volume." A volume that
\* stays in the list is served.
BackedUpAtIntervals ==
    \A v \in Volumes : <>[](up /\ ManagedOf(v) # {}) => Served(v)
=============================================================================
