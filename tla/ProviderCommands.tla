-------------------------- MODULE ProviderCommands --------------------------
(***************************************************************************)
(* Providers (src/internal/manager/provider.go): how a provider is         *)
(* detected and its pre- and post-commands are run, by ContainerExec of    *)
(* the orchestrators, in containers that mount the volume, around the      *)
(* agent that backs it up (backupVolume and attachOrphanAgent, backup.go). *)
(*                                                                         *)
(* One volume. The commands are those of providers-config.default.toml:    *)
(* detection looks for a database's files in the volume, the pre-command   *)
(* redirects a dump into $volume/backups, the post-command, which not all  *)
(* have, removes that directory. Containers come and go, and commands and  *)
(* requests fail, at any time; a command has ended when its request has.   *)
(*                                                                         *)
(* The volume may have several objects, each with a mutex of its own, as   *)
(* GetVolumes drops and finds it again (VolumeRegistry), and an agent may  *)
(* run on when its manager has died.                                       *)
(***************************************************************************)
EXTENDS Integers

CONSTANTS
    Attempts,       \* backups of the volume
    Attachments,    \* attachments to the agent of a former manager
    Last,           \* containers are 1..Last, in the order they are listed in
    Paths,          \* where they mount volumes
    Providers,
    WithPost,       \* providers with a post-command
    Settings,       \* the orchestrators, containers and files in the volume looked at
    Objects,        \* that stand for the volume
    NoProvider, NoPath, NoObject

Actors == Attempts \union Attachments
Containers == 1..Last

ASSUME ProvidersAssumption ==
    /\ Attempts \intersect Attachments = {}
    /\ Last \in Nat
    /\ WithPost \subseteq Providers
    /\ Settings \subseteq
            [orchestrator : {"docker", "kubernetes", "cattle"},
             path : [Containers -> Paths],
             kind : [Containers -> {"database", "other", "impostor"}],
             content : Providers \union {NoProvider}]
    /\ NoProvider \notin Providers /\ NoPath \notin Paths
    /\ NoObject \notin Objects

VARIABLES
    orchestrator,
    path,       \* of each container
    kind,       \* "database": the provider's tools are in it; "other"; "impostor":
                \* a pod that has another volume under the same name
    content,    \* the provider whose files are in the volume
    running,    \* containers that run
    former,     \* an agent of a former manager is at work
    phase,      \* of each backup or attachment
    object,     \* the object it was given
    listed, left, sub,  \* containers left to try, the path put in place of $volume
    prov, preOk,
    result,     \* of the last backup to return: "cleared" if its provider has a post-command
    dump,       \* the dump in the volume
    fresh,      \* it was written after the last backup had started
    alone       \* no other backup was under way then

settingVars == <<orchestrator, path, kind, content>>
searchVars == <<listed, left, sub>>
localVars == <<phase, object, searchVars, prov, preOk>>
dumpVars == <<dump, fresh, alone>>
vars == <<settingVars, running, former, localVars, result, dumpVars>>

TypeOK ==
    /\ orchestrator \in {"docker", "kubernetes", "cattle"}
    /\ path \in [Containers -> Paths]
    /\ kind \in [Containers -> {"database", "other", "impostor"}]
    /\ content \in Providers \union {NoProvider}
    /\ running \subseteq Containers
    /\ former \in BOOLEAN
    /\ phase \in [Actors -> {"idle", "detect", "pre", "agent", "post"}]
    /\ \A a \in Attachments : phase[a] # "pre"
    /\ listed \in [Actors -> BOOLEAN]
    /\ left \in [Actors -> SUBSET Containers]
    /\ sub \in [Actors -> Paths \union {NoPath}]
    /\ prov \in [Actors -> Providers \union {NoProvider}]
    /\ \A a \in Actors : phase[a] \in {"pre", "post"} => prov[a] # NoProvider
    /\ preOk \in [Actors -> BOOLEAN]
    /\ result \in {"none", "success", "cleared", "error"}
    /\ object \in [Actors -> Objects \union {NoObject}]
    /\ \A a \in Actors : phase[a] = "idle" <=> object[a] = NoObject
    /\ dump \in {"none", "partial", "whole"}
    /\ fresh \in BOOLEAN
    /\ alone \in BOOLEAN

Idle ==
    /\ phase = [a \in Actors |-> "idle"]
    /\ listed = [a \in Actors |-> FALSE]
    /\ left = [a \in Actors |-> {}]
    /\ sub = [a \in Actors |-> NoPath]
    /\ prov = [a \in Actors |-> NoProvider]
    /\ preOk = [a \in Actors |-> FALSE]
    /\ result = "none"
    /\ object = [a \in Actors |-> NoObject]

Init ==
    /\ \E s \in Settings :
        /\ orchestrator = s.orchestrator
        /\ path = s.path /\ kind = s.kind /\ content = s.content
    /\ running = Containers
    /\ former = FALSE
    /\ dump = "none" /\ fresh = FALSE
    /\ alone = FALSE
    /\ Idle

\* The next phase starts with a list of its own.
Enters(a, p) ==
    /\ phase' = [phase EXCEPT ![a] = p]
    /\ listed' = [listed EXCEPT ![a] = FALSE]
    /\ left' = [left EXCEPT ![a] = {}]
    /\ sub' = [sub EXCEPT ![a] = NoPath]

Returns(a, r) ==
    /\ Enters(a, "idle")
    /\ object' = [object EXCEPT ![a] = NoObject]
    /\ prov' = [prov EXCEPT ![a] = NoProvider]
    /\ preOk' = [preOk EXCEPT ![a] = FALSE]
    /\ result' = IF a \in Attempts THEN r ELSE result

Starts(a, o) ==
    /\ phase[a] = "idle"
    /\ Enters(a, "detect")
    /\ object' = [object EXCEPT ![a] = o]
    /\ UNCHANGED <<settingVars, running, former, prov, preOk, dump>>

\* A dump that is there is an earlier backup's.
Begins ==
    /\ fresh' = FALSE
    /\ alone' = \A b \in Attempts : phase[b] = "idle"
    /\ result' = "none"

\* Mutant of BackupVolume: the mutex is not taken.
BackupUnlocked(a) ==
    /\ a \in Attempts
    /\ \E o \in Objects : Starts(a, o)
    /\ Begins

\* backupVolume has the mutex of the object it was given.
BackupVolume(a) ==
    /\ a \in Attempts
    /\ \E o \in Objects : (\A b \in Attempts : object[b] # o) /\ Starts(a, o)
    /\ Begins

\* attachOrphanAgent takes none. Cattle alone lets a manager find such an agent.
AttachOrphanAgent(a) ==
    /\ a \in Attachments /\ former /\ orchestrator = "cattle"
    /\ \E o \in Objects : Starts(a, o)
    /\ UNCHANGED <<result, fresh, alone>>

-----------------------------------------------------------------------------
(* Containers that mount the volume *)

Mounting == {c \in Containers : kind[c] # "impostor"}

\* GetContainersMountingVolume. Docker lists what runs.
DockerMounting == {Mounting \intersect running}

\* Pods are listed whether they run or not. The map from a pod's volumes to claims is
\* kept from one pod to the next, so that a pod that has another volume under the name
\* of the claim of an earlier pod is listed too.
KubernetesMounting ==
    {Mounting \union {c \in Containers : \E d \in Mounting : d < c}}

\* A container that cannot be looked up is left out.
CattleMounting == SUBSET (Mounting \intersect running)

Listings ==
    CASE orchestrator = "docker" -> DockerMounting
      [] orchestrator = "kubernetes" -> KubernetesMounting
      [] orchestrator = "cattle" -> CattleMounting

Lists(a) ==
    /\ phase[a] \in {"detect", "pre", "post"} /\ ~listed[a]
    /\ listed' = [listed EXCEPT ![a] = TRUE]
    /\ \E containers \in Listings : left' = [left EXCEPT ![a] = containers]
    /\ UNCHANGED <<settingVars, running, former, phase, object, sub, prov, preOk, result,
                   dumpVars>>

\* The backup goes on: next come its commands, or its agent.
Proceeds(a, p) ==
    /\ Enters(a, p)
    /\ UNCHANGED <<object, result>>

\* GetProvider and RunCmd return the error. Only that of the pre-command is not fatal.
ListFails(a) ==
    /\ phase[a] \in {"detect", "pre", "post"} /\ ~listed[a]
    /\ IF phase[a] = "pre" THEN Proceeds(a, "agent") /\ UNCHANGED <<prov, preOk>>
                           ELSE Returns(a, "error")
    /\ UNCHANGED <<settingVars, running, former, dumpVars>>

\* The container that is tried next. On Kubernetes the list comes out of a map.
IsNext(a, c) ==
    /\ listed[a] /\ c \in left[a]
    /\ orchestrator # "kubernetes" => \A d \in left[a] : c <= d

\* $volume is replaced by the path in the container tried first: after that it is gone
\* from the command.
PathUsed(a, c) == IF sub[a] = NoPath THEN path[c] ELSE sub[a]

Inside(a, c) == kind[c] # "impostor" /\ PathUsed(a, c) = path[c]

\* Mutant of Answered: the exit status does not count.
AnsweredRegardless(c, ok) == c \in running

\* ContainerExec may return without an error: on Kubernetes if the command succeeds.
Answered(c, ok) == c \in running /\ (orchestrator = "kubernetes" => ok)

\* The command was of no use: the next container.
Fruitless(a, c) ==
    /\ left' = [left EXCEPT ![a] = @ \ {c}]
    /\ sub' = [sub EXCEPT ![a] = PathUsed(a, c)]
    /\ UNCHANGED <<phase, object, listed>>

-----------------------------------------------------------------------------
(* GetProvider *)

\* The commands that detect the providers are run as one, which prints the name of the
\* first that succeeds. Elsewhere than in the volume any of them may.
Detectable(a, c) ==
    IF Inside(a, c) THEN {content} \ {NoProvider} ELSE Providers

Detects(a, c) ==
    /\ phase[a] = "detect" /\ IsNext(a, c)
    /\ Answered(c, TRUE)
    /\ \E p \in Detectable(a, c) : prov' = [prov EXCEPT ![a] = p]
    /\ Proceeds(a, IF a \in Attempts THEN "pre" ELSE "agent")
    /\ UNCHANGED <<settingVars, running, former, preOk, dumpVars>>

DetectsNothing(a, c) ==
    /\ phase[a] = "detect" /\ IsNext(a, c)
    /\ Fruitless(a, c)
    /\ UNCHANGED <<settingVars, running, former, prov, preOk, result, dumpVars>>

\* Mutant of NoneDetected: the empty provider's commands are run.
NoneDetectedRunning(a) ==
    /\ phase[a] = "detect" /\ listed[a] /\ left[a] = {}
    /\ Proceeds(a, IF a \in Attempts THEN "pre" ELSE "agent")
    /\ UNCHANGED <<settingVars, running, former, prov, preOk, dumpVars>>

\* There are no commands.
NoneDetected(a) ==
    /\ phase[a] = "detect" /\ listed[a] /\ left[a] = {}
    /\ Proceeds(a, "agent")
    /\ UNCHANGED <<settingVars, running, former, prov, preOk, dumpVars>>

-----------------------------------------------------------------------------
(* RunCmd *)

\* What the pre-command does in c. The shell creates the file before it runs the tool,
\* and either may fail.
Dumped(a, c, ok) ==
    \/ Inside(a, c) /\ dump' = (IF ok THEN "whole" ELSE "partial") /\ fresh' = TRUE
    \/ (Inside(a, c) => ~ok) /\ UNCHANGED <<dump, fresh>>

\* The tool is in databases, and an impostor may be one.
PreCommand(a, c) ==
    /\ phase[a] = "pre" /\ IsNext(a, c)
    /\ \E ok \in {FALSE, kind[c] # "other"} :
        \/ /\ Answered(c, ok)
           /\ Dumped(a, c, ok)
           /\ preOk' = [preOk EXCEPT ![a] = TRUE]
           /\ Proceeds(a, "agent")
        \/ /\ UNCHANGED <<dump, fresh>> \/ (c \in running /\ Dumped(a, c, ok))
           /\ Fruitless(a, c)
           /\ UNCHANGED <<preOk, result>>
    /\ UNCHANGED <<settingVars, running, former, prov, alone>>

\* The pre-command has failed in all of them: the backup goes on.
PreCommandFails(a) ==
    /\ phase[a] = "pre" /\ listed[a] /\ left[a] = {}
    /\ Proceeds(a, "agent")
    /\ UNCHANGED <<settingVars, running, former, prov, preOk, dumpVars>>

\* What the post-command does in c: rm may fail, also when a part is gone.
Removed(a, c, ok) ==
    \/ Inside(a, c) /\ ok /\ dump' = "none"
    \/ Inside(a, c) /\ ~ok /\ dump # "none" /\ dump' = "partial"
    \/ (Inside(a, c) => ~ok) /\ UNCHANGED dump

PostCommand(a, c) ==
    /\ phase[a] = "post" /\ IsNext(a, c)
    /\ \E ok \in BOOLEAN :
        \/ Answered(c, ok) /\ Removed(a, c, ok) /\ Returns(a, "cleared")
        \/ /\ UNCHANGED dump \/ (c \in running /\ Removed(a, c, ok))
           /\ Fruitless(a, c)
           /\ UNCHANGED <<prov, preOk, result>>
    /\ UNCHANGED <<settingVars, running, former, fresh, alone>>

\* The error of the post-command is what backupVolume returns.
PostCommandFails(a) ==
    /\ phase[a] = "post" /\ listed[a] /\ left[a] = {}
    /\ Returns(a, "error")
    /\ UNCHANGED <<settingVars, running, former, dumpVars>>

-----------------------------------------------------------------------------
(* The agent, and the rest of the world *)

\* No post-command is run when the agent cannot be deployed or attached to.
AgentFails(a) ==
    /\ phase[a] = "agent"
    /\ Returns(a, "error")
    /\ UNCHANGED <<settingVars, running, former, dumpVars>>

\* The agent that was attached to may have been one of several.
AgentGone(a) ==
    /\ former' \in IF a \in Attempts THEN {former} ELSE {former, FALSE}
    /\ UNCHANGED <<settingVars, running, dumpVars>>

\* Mutant of AgentEnds: the post-command is for pre-commands that succeeded.
AgentEndsIfPrepared(a) ==
    /\ phase[a] = "agent"
    /\ IF prov[a] \in WithPost /\ (a \in Attempts => preOk[a])
       THEN Proceeds(a, "post") /\ UNCHANGED <<prov, preOk>>
       ELSE Returns(a, IF prov[a] \in WithPost THEN "cleared" ELSE "success")
    /\ AgentGone(a)

AgentEnds(a) ==
    /\ phase[a] = "agent"
    /\ IF prov[a] \in WithPost THEN Proceeds(a, "post") /\ UNCHANGED <<prov, preOk>>
                              ELSE Returns(a, "success")
    /\ AgentGone(a)

\* An agent of a former manager ends by itself.
FormerEnds ==
    /\ former /\ former' = FALSE
    /\ \A a \in Attachments : phase[a] # "agent"
    /\ UNCHANGED <<settingVars, running, localVars, result, dumpVars>>

\* The manager restarts. Its agents run on.
Crash ==
    /\ former' = (former \/ \E a \in Attempts : phase[a] = "agent")
    /\ phase' = [a \in Actors |-> "idle"]
    /\ object' = [a \in Actors |-> NoObject]
    /\ listed' = [a \in Actors |-> FALSE]
    /\ left' = [a \in Actors |-> {}]
    /\ sub' = [a \in Actors |-> NoPath]
    /\ prov' = [a \in Actors |-> NoProvider]
    /\ preOk' = [a \in Actors |-> FALSE]
    /\ result' = "none"
    /\ fresh' = FALSE /\ alone' = FALSE
    /\ UNCHANGED <<settingVars, running, dump>>

Stops(c) ==
    /\ running' = running \ {c}
    /\ UNCHANGED <<settingVars, former, localVars, result, dumpVars>>

Runs(c) ==
    /\ running' = running \union {c}
    /\ UNCHANGED <<settingVars, former, localVars, result, dumpVars>>

Step(a) ==
    \/ BackupVolume(a) \/ AttachOrphanAgent(a)
    \/ Lists(a) \/ ListFails(a)
    \/ NoneDetected(a) \/ PreCommandFails(a) \/ PostCommandFails(a)
    \/ AgentFails(a) \/ AgentEnds(a)

Tries(a, c) ==
    Detects(a, c) \/ DetectsNothing(a, c) \/ PreCommand(a, c) \/ PostCommand(a, c)

Next ==
    \/ \E a \in Actors : Step(a) \/ \E c \in Containers : Tries(a, c)
    \/ \E c \in Containers : Stops(c) \/ Runs(c)
    \/ FormerEnds \/ Crash

Spec == Init /\ [][Next]_vars

-----------------------------------------------------------------------------
(* Properties *)

\* All containers listed mount the volume, at one path: the one path put in place of
\* $volume is right for each.
Uniform ==
    /\ \A c, d \in Containers : path[c] = path[d]
    /\ \A c \in Containers : kind[c] # "impostor"

\* On Kubernetes, where exit codes count, no warning of the pre-command means that the
\* agent finds the dump this backup has made, whole, also if the command was tried in
\* containers that had not the database or did not answer before, and until it ends;
\* unless another backup has been under way, with another object of the volume.
DumpIsWhole ==
    alone /\ orchestrator = "kubernetes" /\ Uniform =>
        \A a \in Attempts : phase[a] = "agent" /\ preOk[a] => dump = "whole" /\ fresh

\* On Kubernetes the volume has no dump after a backup that returned no error, whatever
\* had failed before, until the next backup; except for providers that have no
\* post-command or were not detected. On Docker and Cattle the exit status of the
\* post-command does not count, and a dump that it could not remove stays.
DumpsRemoved ==
    alone /\ orchestrator = "kubernetes" /\ Uniform =>
        (result = "cleared" => dump = "none")

\* The objects of the backups whose agents read the dump; those of a former manager had
\* an object that is no more.
Readers ==
    {object[a] : a \in {b \in Attempts : phase[b] = "agent"}}
        \union (IF former THEN {NoObject} ELSE {})

\* The dump is not touched while an agent reads it, but by a command that the mutex of
\* the agent's object does not keep away: that of an attachment, which takes none, and
\* that of a backup with another object, as is every backup after a restart for the
\* agents of the manager that died.
DumpKept ==
    [][\A o \in Readers :
        o \in Readers' /\ dump' # dump =>
            \/ \E b \in Attachments : phase[b] = "post"
            \/ \E b \in Attempts : phase[b] \in {"pre", "post"} /\ object[b] # o]_vars
=============================================================================
