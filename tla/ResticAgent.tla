----------------------------- MODULE ResticAgent -----------------------------
(***************************************************************************)
(* One run of the agent: the sequence of restic commands of Backup and of  *)
(* Restore (src/internal/engine/engine.go), the report it sends (agent.go) *)
(* and what the manager makes of it (updateBackupLogs, backup.go), beside  *)
(* the raw restic commands that the API runs on the same repository        *)
(* (RunResticCommand, which takes no mutex).                               *)
(*                                                                         *)
(* restic is external: a command locks the repository, shared or           *)
(* exclusively, while it runs, fails when the lock conflicts, and leaves   *)
(* its lock behind when it is killed.                                      *)
(***************************************************************************)
EXTENDS Integers

CONSTANTS
    Agents,     \* agents that may work on the repository
    Operators,  \* API requests that run a raw command
    Jobs,       \* what agents are deployed for: "backup", "restore"
    Forces,     \* the values of --force
    RawModes,   \* locks raw commands take; "unlock" is `restic unlock`
    Results,    \* how a command may end, among AllResults
    Dying,      \* TRUE when an agent's container may be killed
    MaxTries,   \* attempts of forget and of snapshots (3 in the code)
    Absent      \* a step that is not in the report

\* "error": a positive exit code. "killed": ended by a signal. "unstarted":
\* the process could not be created.
AllResults == {"ok", "error", "killed", "unstarted"}

ASSUME AgentAssumption ==
    /\ Agents \intersect Operators = {}
    /\ Jobs \subseteq {"backup", "restore"}
    /\ Forces \subseteq BOOLEAN /\ Dying \in BOOLEAN
    /\ RawModes \subseteq {"shared", "exclusive", "unlock"}
    /\ Results \subseteq AllResults
    /\ MaxTries \in Nat \ {0}
    /\ Absent \notin Int

VARIABLES
    pc,         \* the command an agent is at, "report" or "idle"
    job, force, \* what it was deployed for
    tries,      \* its attempts of the command it repeats
    out,        \* Output: the exit code of each step
    repo,       \* the repository exists
    running,    \* running[p] is the kind of command p runs, or "no"
    lock,       \* the lock p has in the repository
    stale,      \* locks whose owner is gone
    stored,     \* agents whose run has stored a snapshot
    cut,        \* agents whose run's last probe, init or backup had no exit code
    asked,      \* somebody has asked for locks to be removed
    status      \* v.LastBackupStatus

agentVars == <<pc, job, force, tries, out>>
resticVars == <<repo, running, lock, stale, stored, cut, asked>>
vars == <<agentVars, resticVars, status>>

Processes == Agents \union Operators
Locks == {"shared", "exclusive"}
Steps == {"testInit", "init", "unlock", "backup", "forget", "snapshots", "restore"}
Commands == Steps \union {"ls"}
Statuses == {"", "Unknown", "Success", "Failed"}

TypeOK ==
    /\ pc \in [Agents -> Commands \union {"idle", "report"}]
    /\ job \in [Agents -> {"backup", "restore"}]
    /\ force \in [Agents -> BOOLEAN]
    /\ tries \in [Agents -> 0..(MaxTries - 1)]
    /\ out \in [Agents -> [Steps -> {-1, 0, 1, Absent}]]
    /\ repo \in BOOLEAN
    /\ running \in [Processes -> Locks \union {"no", "lockless"}]
    /\ lock \in [Processes -> Locks \union {"no"}]
    /\ stale \subseteq Locks
    /\ stored \subseteq Agents /\ cut \subseteq Agents /\ asked \in BOOLEAN
    /\ status \in Statuses

NoReport == [s \in Steps |-> Absent]

Init ==
    /\ pc = [a \in Agents |-> "idle"]
    /\ job = [a \in Agents |-> "backup"]
    /\ force = [a \in Agents |-> FALSE]
    /\ tries = [a \in Agents |-> 0]
    /\ out = [a \in Agents |-> NoReport]
    /\ repo \in BOOLEAN
    /\ running = [p \in Processes |-> "no"]
    /\ lock = [p \in Processes |-> "no"]
    /\ stale = {} /\ stored = {} /\ cut = {} /\ asked = FALSE
    /\ status = IF repo THEN "Unknown" ELSE ""

-----------------------------------------------------------------------------
(* restic *)

\* init and unlock take no lock.
Kind(command) ==
    CASE command \in {"testInit", "backup", "ls", "restore", "snapshots"} -> "shared"
      [] command = "forget" -> "exclusive"
      [] command \in {"init", "unlock"} -> "lockless"

\* A command of this kind gets its lock in an existing repository; only init
\* works without one, and only then.
Startable(p, kind) ==
    LET others == stale \union {lock[q] : q \in Processes \ {p}} IN
    /\ "exclusive" \notin others \/ kind = "lockless"
    /\ kind = "exclusive" => others \subseteq {"no"}

Ready(a) ==
    /\ repo <=> pc[a] # "init"
    /\ Startable(a, Kind(pc[a]))

Runs(p, kind) ==
    /\ running[p] = "no"
    /\ running' = [running EXCEPT ![p] = kind]
    /\ lock' = [lock EXCEPT ![p] = IF kind \in Locks THEN kind ELSE "no"]

\* A killed process leaves its lock in the repository.
Leaves(p, killed) ==
    /\ running' = [running EXCEPT ![p] = "no"]
    /\ lock' = [lock EXCEPT ![p] = "no"]
    /\ stale' = stale \union (IF killed THEN {lock[p]} \ {"no"} ELSE {})

\* restic unlock --remove-all
RemovesLocks(p) ==
    /\ running' = [running EXCEPT ![p] = "no"]
    /\ lock' = [q \in Processes |-> "no"]
    /\ stale' = {}

\* What the agent may learn of its command: one that cannot start reports an
\* error, one that can may still fail for other reasons.
Outcomes(a) ==
    IF running[a] # "no" THEN Results \ {"unstarted"}
    ELSE (Results \ {"ok", "killed"})
            \union (IF Ready(a) THEN {} ELSE {"error"})

-----------------------------------------------------------------------------
(* The agent *)

\* ExitStatus of a process killed by a signal is -1; an error that is not an
\* ExitError gives 0.
HandleExitCode(result) ==
    CASE result \in {"ok", "unstarted"} -> 0
      [] result = "error" -> 1
      [] result = "killed" -> -1

\* The command that comes first in Backup and in Restore.
First(j, f) ==
    CASE j = "backup" -> "testInit"
      [] j = "restore" /\ f -> "unlock"
      [] j = "restore" /\ ~f -> "ls"

\* DeployAgent starts the container, whose arguments say what to do.
Deploy(a, j, f) ==
    /\ pc[a] = "idle"
    /\ pc' = [pc EXCEPT ![a] = First(j, f)]
    /\ job' = [job EXCEPT ![a] = j]
    /\ force' = [force EXCEPT ![a] = f]
    /\ asked' = (asked \/ f)
    /\ UNCHANGED <<tries, out, repo, running, lock, stale, stored, cut, status>>

\* exec.Command: the process starts and gets its lock.
Execute(a) ==
    /\ pc[a] \in Commands
    /\ Ready(a)
    /\ Runs(a, Kind(pc[a]))
    /\ UNCHANGED <<agentVars, repo, stale, stored, cut, asked, status>>

\* The step is over with this result, and the agent goes on to another.
Goto(a, place) ==
    /\ pc' = [pc EXCEPT ![a] = place]
    /\ UNCHANGED <<job, force>>

\* cut is history, of the commands whose failure ends a run without a snapshot.
Ends(a, command, result) ==
    /\ pc[a] = command
    /\ result \in Outcomes(a)
    /\ Leaves(a, result = "killed")
    /\ cut' = IF command \notin {"testInit", "init", "backup"} THEN cut
              ELSE IF result \in {"killed", "unstarted"} THEN cut \union {a}
              ELSE cut \ {a}

Records(a, step, code) == out' = [out EXCEPT ![a][step] = code]

\* Mutant of AfterInit: the locks are always removed.
UnlockAlways(a) == "unlock"

AfterInit(a) == IF force[a] THEN "unlock" ELSE "backup"

\* restic snapshots: with exit code 0 the repository is there and the error,
\* if any, is returned; otherwise the repository is created.
TestInit(a, result) ==
    /\ Ends(a, "testInit", result)
    /\ Goto(a, CASE result = "ok" -> AfterInit(a)
                 [] result = "unstarted" -> "report"
                 [] OTHER -> "init")
    /\ IF HandleExitCode(result) = 0
          THEN UNCHANGED out
          ELSE Records(a, "testInit", HandleExitCode(result))
    /\ UNCHANGED <<tries, repo, stored, asked, status>>

InitRepository(a, result) ==
    /\ Ends(a, "init", result)
    /\ Records(a, "init", HandleExitCode(result))
    /\ Goto(a, IF result = "ok" THEN AfterInit(a) ELSE "report")
    /\ repo' = (repo \/ result = "ok")
    /\ UNCHANGED <<tries, stored, asked, status>>

\* unlockRepository drops its error.
UnlockRepository(a, result) ==
    /\ pc[a] = "unlock" /\ result \in Outcomes(a)
    /\ IF result = "ok" THEN RemovesLocks(a) ELSE Leaves(a, result = "killed")
    /\ Records(a, "unlock", HandleExitCode(result))
    /\ Goto(a, IF job[a] = "backup" THEN "backup" ELSE "ls")
    /\ UNCHANGED <<tries, repo, stored, cut, asked, status>>

\* Mutant of AfterBackup: the error is dropped, as restoreVolume does.
AfterBackupDroppingError(result) == "forget"

AfterBackup(result) == IF result = "ok" THEN "forget" ELSE "report"

\* A backup that reports an error may have stored a partial snapshot.
BackupVolume(a, result) ==
    /\ Ends(a, "backup", result)
    /\ Records(a, "backup", HandleExitCode(result))
    /\ Goto(a, AfterBackup(result))
    /\ \/ stored' = stored \union {a}
       \/ result # "ok" /\ stored' = stored
    /\ UNCHANGED <<tries, repo, asked, status>>

\* Mutant of LastTry: one attempt too many.
LastTryLate(a) == tries[a] = MaxTries

LastTry(a) == tries[a] = MaxTries - 1

\* Mutant of Repeat: the loop has no end.
RepeatForever(a, result, success, failure) ==
    /\ Goto(a, IF result = "ok" THEN success ELSE pc[a])
    /\ UNCHANGED tries

\* The loops around forget and retrieveBackupsStats, and what follows each.
Repeat(a, result, success, failure) ==
    LET again == result # "ok" /\ ~LastTry(a) IN
    /\ tries' = [tries EXCEPT ![a] = IF again THEN @ + 1 ELSE 0]
    /\ Goto(a, IF result = "ok" THEN success ELSE IF again THEN pc[a] ELSE failure)

Forget(a, result) ==
    /\ Ends(a, "forget", result)
    /\ Records(a, "forget", HandleExitCode(result))
    /\ Repeat(a, result, "snapshots", "report")
    /\ UNCHANGED <<repo, stored, asked, status>>

RetrieveBackupsStats(a, result) ==
    /\ Ends(a, "snapshots", result)
    /\ Records(a, "snapshots", HandleExitCode(result))
    /\ Repeat(a, result, "report", "report")
    /\ UNCHANGED <<repo, stored, asked, status>>

GetOrigionalBackupPath(a, result) ==
    /\ Ends(a, "ls", result)
    /\ Goto(a, "restore")
    /\ UNCHANGED <<tries, out, repo, stored, asked, status>>

\* The error of restic is overwritten by the one of ReadDir, those of the file
\* operations have no exit code, and nil is returned.
RestoreVolume(a, result) ==
    /\ Ends(a, "restore", result)
    /\ Records(a, "restore", 0)
    /\ Goto(a, "snapshots")
    /\ UNCHANGED <<tries, repo, stored, asked, status>>

-----------------------------------------------------------------------------
(* The manager *)

\* Mutant of Failure: the step that makes the backup is overlooked as well.
FailureButBackup(report, s) ==
    s \notin {"testInit", "backup"} /\ report[s] # Absent /\ report[s] > 0

Failure(report, s) == s # "testInit" /\ report[s] # Absent /\ report[s] > 0

UpdateBackupLogs(report) ==
    status' = IF \E s \in Steps : Failure(report, s) THEN "Failed" ELSE "Success"

\* The container is removed, and what the run did no longer matters.
Gone(a) ==
    /\ pc' = [pc EXCEPT ![a] = "idle"]
    /\ job' = [job EXCEPT ![a] = "backup"]
    /\ force' = [force EXCEPT ![a] = FALSE]
    /\ tries' = [tries EXCEPT ![a] = 0]
    /\ out' = [out EXCEPT ![a] = NoReport]
    /\ stored' = stored \ {a}
    /\ cut' = cut \ {a}
    /\ UNCHANGED <<repo, asked>>

\* The report arrives, on the standard output or with a POST.
Report(a) ==
    /\ pc[a] = "report"
    /\ Gone(a)
    /\ UpdateBackupLogs(out[a])
    /\ UNCHANGED <<running, lock, stale>>

\* The output cannot be read, or the only POST fails.
LoseReport(a) ==
    /\ pc[a] = "report"
    /\ Gone(a)
    /\ UNCHANGED <<running, lock, stale, status>>

\* The container dies with its command. What the manager reads of its output,
\* if anything, is not a report.
Die(a) ==
    /\ Dying
    /\ pc[a] \in Commands
    /\ Gone(a)
    /\ Leaves(a, TRUE)
    /\ status' \in {status, "Failed"}

\* RunResticCommand; `restic unlock` is one step.
RunRaw(r) ==
    /\ repo /\ running[r] = "no"
    /\ \/ \E kind \in RawModes \intersect Locks :
              Startable(r, kind) /\ Runs(r, kind) /\ UNCHANGED <<stale, asked>>
       \/ "unlock" \in RawModes /\ RemovesLocks(r) /\ asked' = TRUE
    /\ UNCHANGED <<agentVars, repo, stored, cut, status>>

RawEnds(r) ==
    /\ running[r] # "no"
    /\ \E result \in Results \ {"unstarted"} : Leaves(r, result = "killed")
    /\ UNCHANGED <<agentVars, repo, stored, cut, asked, status>>

-----------------------------------------------------------------------------

CommandEnds(a, result) ==
    \/ TestInit(a, result) \/ InitRepository(a, result) \/ UnlockRepository(a, result)
    \/ BackupVolume(a, result) \/ Forget(a, result) \/ RetrieveBackupsStats(a, result)
    \/ GetOrigionalBackupPath(a, result) \/ RestoreVolume(a, result)

AgentStep(a) ==
    \/ Execute(a)
    \/ \E result \in AllResults : CommandEnds(a, result)
    \/ Report(a)
    \/ LoseReport(a)

Next ==
    \/ \E a \in Agents :
            \/ \E j \in Jobs, f \in Forces : Deploy(a, j, f)
            \/ AgentStep(a)
            \/ Die(a)
    \/ \E r \in Operators : RunRaw(r) \/ RawEnds(r)

Spec == Init /\ [][Next]_vars

\* Commands end, the network answers one way or the other. Nothing is assumed
\* of deployments, of deaths and of raw commands.
FairSpec == Spec /\ \A a \in Agents : WF_vars(AgentStep(a))

-----------------------------------------------------------------------------
(* Properties *)

\* While restic prunes for one process no other works on the repository, although
\* agents and raw commands share no mutex, until somebody asks for --force or
\* `restic unlock`: no other run removes the lock of a live process.
PruneAlone ==
    ~asked =>
        \A p, q \in Processes :
            running[p] = "exclusive" /\ q # p => running[q] \in {"no", "lockless"}

\* Old snapshots are only forgotten by a run that has stored a new one: runs
\* that fail never shorten the history, however many there are.
ForgetAfterBackup == \A a \in Agents : pc[a] = "forget" => a \in stored

\* The run of an agent ends, also when every command fails, for example on a
\* stale lock that nobody removes.
AgentEnds == \A a \in Agents : pc[a] # "idle" ~> pc[a] = "idle"

\* A report of a backup that stored no snapshot sets the status Success only if
\* the command that ended the run, the probe, the creation of the repository or
\* the backup, was killed by a signal or could not be started: HandleExitCode
\* makes -1 and 0 of these, and updateBackupLogs only looks for codes above 0.
SuccessIsABackup ==
    [][\A a \in Agents :
        Report(a) /\ job[a] = "backup" /\ status' = "Success" =>
            a \in stored \/ a \in cut]_vars
=============================================================================
