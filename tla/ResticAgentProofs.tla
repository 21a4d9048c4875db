-------------------------- MODULE ResticAgentProofs --------------------------
(***************************************************************************)
(* Theorems about ResticAgent, for any number of agents and requests.      *)
(***************************************************************************)
EXTENDS ResticAgent, TLAPS

-----------------------------------------------------------------------------
(* Types *)

LEMMA SomeTries == MaxTries \in Int /\ MaxTries > 0
BY AgentAssumption

LEMMA Codes ==
    ASSUME NEW result \in AllResults
    PROVE  HandleExitCode(result) \in {-1, 0, 1}
BY DEF AllResults, HandleExitCode

LEMMA Kinds ==
    ASSUME NEW command \in Commands
    PROVE  Kind(command) \in Locks \union {"lockless"}
BY DEF Commands, Steps, Kind, Locks

LEMMA Recorded ==
    ASSUME TypeOK, NEW a \in Agents, NEW s \in Steps, NEW code \in {-1, 0, 1},
           Records(a, s, code)
    PROVE  /\ out' \in [Agents -> [Steps -> {-1, 0, 1, Absent}]]
           /\ out'[a][s] = code
           /\ \A t \in Steps \ {s} : out'[a][t] = out[a][t]
           /\ \A b \in Agents \ {a} : out'[b] = out[b]
BY DEF TypeOK, Records

\* The part of the type invariant that is about the repository.
ResticTypeOK ==
    /\ running \in [Processes -> Locks \union {"no", "lockless"}]
    /\ lock \in [Processes -> Locks \union {"no"}]
    /\ stale \subseteq Locks

\* Initially every variable has its type.
LEMMA InitTypeOK == Init => TypeOK
<1> SUFFICES ASSUME Init PROVE TypeOK
  OBVIOUS
<1>1. status \in Statuses
  BY DEF Init, Statuses
<1>2. tries \in [Agents -> 0..(MaxTries - 1)]
  <2>1. 0 \in 0..(MaxTries - 1)
    BY SomeTries
  <2>2. tries = [a \in Agents |-> 0]
    BY DEF Init
  <2>3. QED
    BY <2>1, <2>2
<1>3. QED
  BY <1>1, <1>2 DEF Init, TypeOK, NoReport

LEMMA LeavesType ==
    ASSUME TypeOK, NEW p \in Processes, NEW killed \in BOOLEAN, Leaves(p, killed)
    PROVE  ResticTypeOK'
BY DEF TypeOK, Leaves, ResticTypeOK

LEMMA CommandType ==
    ASSUME TypeOK, NEW a \in Agents, NEW result \in AllResults, CommandEnds(a, result)
    PROVE  TypeOK'
<1> a \in Processes
  BY DEF Processes
<1> DEFINE code == HandleExitCode(result)
<1>c. code \in {-1, 0, 1}
  BY Codes
<1>k. (result = "killed") \in BOOLEAN
  OBVIOUS
<1> HIDE DEF code
<1>u. cut' \subseteq Agents
  BY DEF CommandEnds, TestInit, InitRepository, UnlockRepository, BackupVolume, Forget,
         RetrieveBackupsStats, GetOrigionalBackupPath, RestoreVolume, Ends, TypeOK
<1>1. CASE TestInit(a, result)
  <2>1. ResticTypeOK'
    BY <1>1, <1>k, LeavesType DEF TestInit, Ends
  <2>2. out' \in [Agents -> [Steps -> {-1, 0, 1, Absent}]]
    BY <1>1, <1>c, Recorded DEF TestInit, Steps, TypeOK, code
  <2>3. QED
    BY <1>u, <1>1, <2>1, <2>2
       DEF TestInit, Goto, AfterInit, Commands, Steps, TypeOK, ResticTypeOK
<1>2. CASE InitRepository(a, result)
  <2>1. ResticTypeOK'
    BY <1>2, <1>k, LeavesType DEF InitRepository, Ends
  <2>2. out' \in [Agents -> [Steps -> {-1, 0, 1, Absent}]]
    BY <1>2, <1>c, Recorded DEF InitRepository, Steps, code
  <2>3. QED
    BY <1>u, <1>2, <2>1, <2>2
       DEF InitRepository, Goto, AfterInit, Commands, Steps, TypeOK, ResticTypeOK
<1>3. CASE UnlockRepository(a, result)
  <2>1. ResticTypeOK'
    BY <1>3, <1>k, LeavesType
       DEF UnlockRepository, RemovesLocks, TypeOK, ResticTypeOK
  <2>2. out' \in [Agents -> [Steps -> {-1, 0, 1, Absent}]]
    BY <1>3, <1>c, Recorded DEF UnlockRepository, Steps, code
  <2>3. QED
    BY <1>u, <1>3, <2>1, <2>2
       DEF UnlockRepository, Goto, Commands, Steps, TypeOK, ResticTypeOK
<1>4. CASE BackupVolume(a, result)
  <2>1. ResticTypeOK'
    BY <1>4, <1>k, LeavesType DEF BackupVolume, Ends
  <2>2. out' \in [Agents -> [Steps -> {-1, 0, 1, Absent}]]
    BY <1>4, <1>c, Recorded DEF BackupVolume, Steps, code
  <2>3. QED
    BY <1>u, <1>4, <2>1, <2>2
       DEF BackupVolume, Goto, AfterBackup, Commands, Steps, TypeOK, ResticTypeOK
<1>5. CASE Forget(a, result)
  <2>1. ResticTypeOK'
    BY <1>5, <1>k, LeavesType DEF Forget, Ends
  <2>2. out' \in [Agents -> [Steps -> {-1, 0, 1, Absent}]]
    BY <1>5, <1>c, Recorded DEF Forget, Steps, code
  <2>3. pc[a] = "forget"
    BY <1>5 DEF Forget, Ends
  <2>4. tries' \in [Agents -> 0..(MaxTries - 1)]
    BY <1>5, SomeTries DEF Forget, Repeat, LastTry, TypeOK
  <2>5. QED
    BY <1>u, <1>5, <2>1, <2>2, <2>3, <2>4
       DEF Forget, Repeat, Goto, Commands, Steps, TypeOK, ResticTypeOK
<1>6. CASE RetrieveBackupsStats(a, result)
  <2>1. ResticTypeOK'
    BY <1>6, <1>k, LeavesType DEF RetrieveBackupsStats, Ends
  <2>2. out' \in [Agents -> [Steps -> {-1, 0, 1, Absent}]]
    BY <1>6, <1>c, Recorded DEF RetrieveBackupsStats, Steps, code
  <2>3. pc[a] = "snapshots"
    BY <1>6 DEF RetrieveBackupsStats, Ends
  <2>4. tries' \in [Agents -> 0..(MaxTries - 1)]
    BY <1>6, SomeTries DEF RetrieveBackupsStats, Repeat, LastTry, TypeOK
  <2>5. QED
    BY <1>u, <1>6, <2>1, <2>2, <2>3, <2>4
       DEF RetrieveBackupsStats, Repeat, Goto, Commands, Steps, TypeOK, ResticTypeOK
<1>7. CASE GetOrigionalBackupPath(a, result)
  <2>1. ResticTypeOK'
    BY <1>7, <1>k, LeavesType DEF GetOrigionalBackupPath, Ends
  <2>2. QED
    BY <1>u, <1>7, <2>1
       DEF GetOrigionalBackupPath, Goto, Commands, Steps, TypeOK, ResticTypeOK
<1>8. CASE RestoreVolume(a, result)
  <2>1. ResticTypeOK'
    BY <1>8, <1>k, LeavesType DEF RestoreVolume, Ends
  <2>2. out' \in [Agents -> [Steps -> {-1, 0, 1, Absent}]]
    <3>1. "restore" \in Steps /\ 0 \in {-1, 0, 1} /\ Records(a, "restore", 0)
      BY <1>8 DEF RestoreVolume, Steps
    <3>2. QED
      BY <3>1, Recorded
  <2>3. QED
    BY <1>u, <1>8, <2>1, <2>2
       DEF RestoreVolume, Goto, Commands, Steps, TypeOK, ResticTypeOK
<1>9. QED
  BY <1>1, <1>2, <1>3, <1>4, <1>5, <1>6, <1>7, <1>8 DEF CommandEnds

\* The container is removed: the agent's variables are as at the beginning.
LEMMA GoneType ==
    ASSUME TypeOK, NEW a \in Agents, Gone(a), ResticTypeOK',
           status' \in Statuses
    PROVE  TypeOK'
<1>1. tries' \in [Agents -> 0..(MaxTries - 1)]
  <2>1. 0 \in 0..(MaxTries - 1)
    BY SomeTries
  <2>2. QED
    BY <2>1 DEF Gone, TypeOK
<1>2. out' \in [Agents -> [Steps -> {-1, 0, 1, Absent}]]
  BY DEF Gone, TypeOK, NoReport
<1>3. QED
  BY <1>1, <1>2 DEF Gone, TypeOK, ResticTypeOK

LEMMA RunsType ==
    ASSUME TypeOK, NEW p \in Processes, NEW kind \in Locks \union {"lockless"},
           Runs(p, kind), UNCHANGED stale
    PROVE  ResticTypeOK'
BY DEF TypeOK, Runs, ResticTypeOK

LEMMA NextTypeOK == TypeOK /\ [Next]_vars => TypeOK'
<1> SUFFICES ASSUME TypeOK, [Next]_vars PROVE TypeOK'
  OBVIOUS
<1>1. ASSUME NEW a \in Agents, NEW j \in Jobs, NEW f \in Forces, Deploy(a, j, f)
      PROVE  TypeOK'
  <2>1. j \in {"backup", "restore"} /\ f \in BOOLEAN
    BY AgentAssumption
  <2>2. QED
    BY <1>1, <2>1 DEF Deploy, First, Commands, Steps, TypeOK, resticVars
<1>2. ASSUME NEW a \in Agents, Execute(a) PROVE TypeOK'
  <2>1. Kind(pc[a]) \in Locks \union {"lockless"} /\ a \in Processes
    BY <1>2, Kinds DEF Execute, Processes
  <2>2. ResticTypeOK'
    BY <1>2, <2>1, RunsType DEF Execute
  <2>3. QED
    BY <1>2, <2>2 DEF Execute, TypeOK, ResticTypeOK, agentVars
<1>3. ASSUME NEW a \in Agents, NEW result \in AllResults, CommandEnds(a, result)
      PROVE  TypeOK'
  BY <1>3, CommandType
<1>4. ASSUME NEW a \in Agents, Report(a) \/ LoseReport(a) PROVE TypeOK'
  <2>1. ResticTypeOK'
    BY <1>4 DEF Report, LoseReport, TypeOK, ResticTypeOK
  <2>2. status' \in Statuses
    BY <1>4 DEF Report, LoseReport, UpdateBackupLogs, TypeOK, Statuses
  <2>3. QED
    BY <1>4, <2>1, <2>2, GoneType DEF Report, LoseReport
<1>5. ASSUME NEW a \in Agents, Die(a) PROVE TypeOK'
  <2>1. ResticTypeOK'
    BY <1>5, LeavesType DEF Die, Processes
  <2>2. status' \in Statuses
    BY <1>5 DEF Die, TypeOK, Statuses
  <2>3. QED
    BY <1>5, <2>1, <2>2, GoneType DEF Die
<1>6. ASSUME NEW r \in Operators, RunRaw(r) \/ RawEnds(r) PROVE TypeOK'
  <2>1. r \in Processes
    BY DEF Processes
  <2>2. ResticTypeOK'
    <3>1. CASE \E kind \in RawModes \intersect Locks : Runs(r, kind) /\ UNCHANGED stale
      BY <3>1, <2>1, RunsType
    <3>2. CASE RemovesLocks(r)
      BY <3>2 DEF RemovesLocks, TypeOK, ResticTypeOK
    <3>3. CASE \E result \in Results : Leaves(r, result = "killed")
      <4>1. PICK result \in Results : Leaves(r, result = "killed")
        BY <3>3
      <4>2. (result = "killed") \in BOOLEAN
        OBVIOUS
      <4>3. QED
        BY <4>1, <4>2, <2>1, LeavesType
    <3>4. QED
      BY <1>6, <3>1, <3>2, <3>3 DEF RunRaw, RawEnds
  <2>3. QED
    BY <1>6, <2>2 DEF RunRaw, RawEnds, TypeOK, ResticTypeOK, agentVars
<1>7. ASSUME UNCHANGED vars PROVE TypeOK'
  BY <1>7 DEF vars, agentVars, resticVars, TypeOK
<1>8. QED
  BY <1>1, <1>2, <1>3, <1>4, <1>5, <1>6, <1>7 DEF Next, AgentStep

\* Every variable keeps its type; in particular no loop exceeds its attempts.
THEOREM AgentTypeCorrect == Spec => []TypeOK
BY InitTypeOK, NextTypeOK, PTL DEF Spec

-----------------------------------------------------------------------------
(* What a run has done when it forgets snapshots and when it reports *)

\* Why the run of a backup is where it is: after the backup it has stored a
\* snapshot, and a report without one tells of the step that failed, unless that
\* step had no exit code.
Reasons ==
    \A a \in Agents : job[a] = "backup" =>
        /\ pc[a] \notin {"ls", "restore"}
        /\ pc[a] \in {"forget", "snapshots"} => a \in stored
        /\ pc[a] = "report" =>
              a \in stored \/ a \in cut \/ out[a]["init"] = 1 \/ out[a]["backup"] = 1

\* Steps of one agent leave the others alone.
LEMMA OthersKeepReasons ==
    ASSUME TypeOK, Reasons, NEW a \in Agents,
           \A b \in Agents \ {a} : /\ pc'[b] = pc[b] /\ job'[b] = job[b]
                                   /\ out'[b] = out[b]
                                   /\ b \in stored => b \in stored'
                                   /\ b \in cut => b \in cut',
           job'[a] = "backup" =>
                /\ pc'[a] \notin {"ls", "restore"}
                /\ pc'[a] \in {"forget", "snapshots"} => a \in stored'
                /\ pc'[a] = "report" =>
                      \/ a \in stored' \/ a \in cut'
                      \/ out'[a]["init"] = 1 \/ out'[a]["backup"] = 1
    PROVE  Reasons'
BY DEF Reasons

LEMMA CommandKeepsReasons ==
    ASSUME TypeOK, Reasons,
           NEW a \in Agents, NEW result \in AllResults, CommandEnds(a, result)
    PROVE  Reasons'
<1>r. result \in {"ok", "error"} \/ result \in {"killed", "unstarted"}
  BY DEF AllResults
<1>o. \A b \in Agents \ {a} : /\ pc'[b] = pc[b] /\ job'[b] = job[b]
                              /\ out'[b] = out[b]
                              /\ b \in stored => b \in stored'
                              /\ b \in cut => b \in cut'
  BY DEF TypeOK, CommandEnds, TestInit, InitRepository, UnlockRepository, BackupVolume,
         Forget, RetrieveBackupsStats, Repeat, GetOrigionalBackupPath, RestoreVolume,
         Ends, Goto, Records
<1>j. job' = job
  BY DEF CommandEnds, TestInit, InitRepository, UnlockRepository, BackupVolume,
         Forget, RetrieveBackupsStats, Repeat, GetOrigionalBackupPath, RestoreVolume, Goto
<1> SUFFICES ASSUME job[a] = "backup"
             PROVE  /\ pc'[a] \notin {"ls", "restore"}
                    /\ pc'[a] \in {"forget", "snapshots"} => a \in stored'
                    /\ pc'[a] = "report" =>
                          \/ a \in stored' \/ a \in cut'
                      \/ out'[a]["init"] = 1 \/ out'[a]["backup"] = 1
  BY <1>o, <1>j, OthersKeepReasons
<1>1. CASE TestInit(a, result)
  BY <1>1, <1>r DEF TestInit, Ends, Goto, AfterInit, Commands, Steps, TypeOK
<1>2. CASE InitRepository(a, result)
  BY <1>2, <1>r
     DEF InitRepository, Ends, Goto, AfterInit, Records, HandleExitCode, Commands, Steps, TypeOK
<1>3. CASE UnlockRepository(a, result)
  BY <1>3 DEF UnlockRepository, Goto, TypeOK
<1>4. CASE BackupVolume(a, result)
  BY <1>4, <1>r
     DEF BackupVolume, Ends, Goto, AfterBackup, Records, HandleExitCode, Commands, Steps, TypeOK
<1>5. CASE Forget(a, result)
  BY <1>5 DEF Forget, Ends, Repeat, Goto, Reasons, TypeOK
<1>6. CASE RetrieveBackupsStats(a, result)
  BY <1>6 DEF RetrieveBackupsStats, Ends, Repeat, Goto, Reasons, TypeOK
<1>7. CASE GetOrigionalBackupPath(a, result) \/ RestoreVolume(a, result)
  BY <1>7 DEF GetOrigionalBackupPath, RestoreVolume, Ends, Reasons
<1>8. QED
  BY <1>1, <1>2, <1>3, <1>4, <1>5, <1>6, <1>7 DEF CommandEnds

LEMMA NextKeepsReasons ==
    ASSUME TypeOK, Reasons, [Next]_vars
    PROVE  Reasons'
<1>1. ASSUME NEW a \in Agents, NEW j \in Jobs, NEW f \in Forces, Deploy(a, j, f)
      PROVE  Reasons'
  <2>1. j \in {"backup", "restore"}
    BY AgentAssumption
  <2>2. QED
    BY <1>1, <2>1 DEF Deploy, First, Reasons, TypeOK, resticVars
<1>2. ASSUME NEW a \in Agents, NEW result \in AllResults, CommandEnds(a, result)
      PROVE  Reasons'
  BY <1>2, CommandKeepsReasons
<1>3. ASSUME NEW a \in Agents, Report(a) \/ LoseReport(a) \/ Die(a) PROVE Reasons'
  <2>1. Gone(a)
    BY <1>3 DEF Report, LoseReport, Die
  <2>2. QED
    BY <2>1 DEF Gone, Reasons, TypeOK
<1>4. ASSUME NEW a \in Agents, Execute(a) PROVE Reasons'
  BY <1>4 DEF Execute, agentVars, Reasons
<1>5. ASSUME NEW r \in Operators, RunRaw(r) \/ RawEnds(r) PROVE Reasons'
  BY <1>5 DEF RunRaw, RawEnds, agentVars, Reasons
<1>6. ASSUME UNCHANGED vars PROVE Reasons'
  BY <1>6 DEF vars, agentVars, resticVars, Reasons
<1>7. QED
  BY <1>1, <1>2, <1>3, <1>4, <1>5, <1>6 DEF Next, AgentStep

\* Whatever way commands end, a report of a backup that stored no snapshot sets
\* the status Success only if the command that ended its run had no exit code.
THEOREM SuccessNeedsSnapshot == Spec => SuccessIsABackup
<1>1. Init => Reasons
  BY DEF Init, Reasons
<1>2. TypeOK /\ Reasons /\ [Next]_vars => Reasons'
  BY NextKeepsReasons
<1>3. Reasons =>
        [\A a \in Agents :
            Report(a) /\ job[a] = "backup" /\ status' = "Success" =>
                a \in stored \/ a \in cut]_vars
  <2> SUFFICES ASSUME Reasons, NEW a \in Agents, Report(a), job[a] = "backup",
                      a \notin stored, a \notin cut
               PROVE  status' # "Success"
    OBVIOUS
  <2>1. out[a]["init"] = 1 \/ out[a]["backup"] = 1
    BY DEF Reasons, Report
  <2>2. \E s \in Steps : Failure(out[a], s)
    <3>1. 1 # Absent
      BY AgentAssumption
    <3>2. QED
      BY <2>1, <3>1 DEF Failure, Steps
  <2>3. QED
    BY <2>2 DEF Report, UpdateBackupLogs
<1>4. QED
  BY <1>1, <1>2, <1>3, AgentTypeCorrect, PTL DEF Spec, SuccessIsABackup

\* Whatever the commands do, snapshots are only forgotten by a run that has
\* stored a new one.
THEOREM HistoryKept == Spec => []ForgetAfterBackup
<1>1. Init => ForgetAfterBackup
  BY DEF Init, ForgetAfterBackup
<1>2. TypeOK /\ ForgetAfterBackup /\ [Next]_vars => ForgetAfterBackup'
  <2> SUFFICES ASSUME TypeOK, ForgetAfterBackup, [Next]_vars PROVE ForgetAfterBackup'
    OBVIOUS
  <2>1. ASSUME NEW a \in Agents, NEW j \in Jobs, NEW f \in Forces, Deploy(a, j, f)
        PROVE  ForgetAfterBackup'
    <3>1. j \in {"backup", "restore"} /\ f \in BOOLEAN
      BY AgentAssumption
    <3>2. First(j, f) # "forget"
      BY <3>1 DEF First
    <3>3. QED
      BY <2>1, <3>2 DEF Deploy, ForgetAfterBackup, TypeOK, resticVars
  <2>2. ASSUME NEW a \in Agents, NEW result \in AllResults,
               TestInit(a, result) \/ InitRepository(a, result)
        PROVE  ForgetAfterBackup'
    BY <2>2 DEF TestInit, InitRepository, Goto, AfterInit, ForgetAfterBackup, TypeOK
  <2>3. ASSUME NEW a \in Agents, NEW result \in AllResults, UnlockRepository(a, result)
        PROVE  ForgetAfterBackup'
    BY <2>3 DEF UnlockRepository, Goto, ForgetAfterBackup, TypeOK
  <2>4. ASSUME NEW a \in Agents, NEW result \in AllResults, BackupVolume(a, result)
        PROVE  ForgetAfterBackup'
    BY <2>4 DEF BackupVolume, Goto, AfterBackup, ForgetAfterBackup, TypeOK
  <2>5. ASSUME NEW a \in Agents, NEW result \in AllResults,
               Forget(a, result) \/ RetrieveBackupsStats(a, result)
        PROVE  ForgetAfterBackup'
    BY <2>5 DEF Forget, RetrieveBackupsStats, Ends, Repeat, Goto, ForgetAfterBackup, TypeOK
  <2>6. ASSUME NEW a \in Agents, NEW result \in AllResults,
               GetOrigionalBackupPath(a, result) \/ RestoreVolume(a, result)
        PROVE  ForgetAfterBackup'
    BY <2>6 DEF GetOrigionalBackupPath, RestoreVolume, Goto, ForgetAfterBackup, TypeOK
  <2>7. ASSUME NEW a \in Agents, Report(a) \/ LoseReport(a) \/ Die(a)
        PROVE  ForgetAfterBackup'
    <3>1. Gone(a)
      BY <2>7 DEF Report, LoseReport, Die
    <3>2. QED
      BY <3>1 DEF Gone, ForgetAfterBackup, TypeOK
  <2>8. ASSUME NEW a \in Agents, Execute(a) PROVE ForgetAfterBackup'
    BY <2>8 DEF Execute, agentVars, ForgetAfterBackup
  <2>9. ASSUME NEW r \in Operators, RunRaw(r) \/ RawEnds(r) PROVE ForgetAfterBackup'
    BY <2>9 DEF RunRaw, RawEnds, agentVars, ForgetAfterBackup
  <2>10. ASSUME UNCHANGED vars PROVE ForgetAfterBackup'
    BY <2>10 DEF vars, agentVars, resticVars, ForgetAfterBackup
  <2>11. QED
    BY <2>1, <2>2, <2>3, <2>4, <2>5, <2>6, <2>7, <2>8, <2>9, <2>10
       DEF Next, AgentStep, CommandEnds
<1>3. QED
  BY <1>1, <1>2, AgentTypeCorrect, PTL DEF Spec

-----------------------------------------------------------------------------
(* restic's locks *)

\* A command that needs a lock has it, and an exclusive lock is the only one,
\* because nobody is on the way to remove the locks of others.
LocksKept ==
    /\ \A a \in Agents : ~force[a] /\ pc[a] # "unlock"
    /\ \A p \in Processes : running[p] \in Locks => lock[p] = running[p]
    /\ \A p, q \in Processes : lock[p] = "exclusive" /\ q # p => lock[q] = "no"

LocksHeld == ~asked => LocksKept

\* A process that starts a command conflicts with no other.
LEMMA RunsKeepsLocks ==
    ASSUME TypeOK, LocksKept, NEW p \in Processes,
           NEW kind \in Locks \union {"lockless"}, Startable(p, kind), Runs(p, kind)
    PROVE  /\ \A q \in Processes : running'[q] \in Locks => lock'[q] = running'[q]
           /\ \A q, r \in Processes : lock'[q] = "exclusive" /\ r # q => lock'[r] = "no"
<1>1. \A q \in Processes \ {p} : lock'[q] = lock[q] /\ running'[q] = running[q]
  BY DEF Runs, TypeOK
<1>2. running'[p] = kind /\ lock'[p] = IF kind \in Locks THEN kind ELSE "no"
  BY DEF Runs, TypeOK
<1>3. kind = "exclusive" => \A q \in Processes \ {p} : lock[q] = "no"
  BY DEF Startable
<1>4. kind = "shared" => \A q \in Processes \ {p} : lock[q] # "exclusive"
  BY DEF Startable
<1>5. QED
  BY <1>1, <1>2, <1>3, <1>4 DEF LocksKept, Locks

LEMMA LeavesKeepsLocks ==
    ASSUME TypeOK, LocksKept, NEW p \in Processes, NEW killed \in BOOLEAN,
           Leaves(p, killed)
    PROVE  /\ \A q \in Processes : running'[q] \in Locks => lock'[q] = running'[q]
           /\ \A q, r \in Processes : lock'[q] = "exclusive" /\ r # q => lock'[r] = "no"
BY DEF LocksKept, Leaves, TypeOK, Locks

LEMMA CommandKeepsLocks ==
    ASSUME TypeOK, LocksKept, NEW a \in Agents, NEW result \in AllResults,
           CommandEnds(a, result)
    PROVE  LocksKept'
<1>1. pc[a] # "unlock" /\ ~force[a]
  BY DEF LocksKept
<1>2. Leaves(a, result = "killed")
  BY <1>1 DEF CommandEnds, TestInit, InitRepository, UnlockRepository, BackupVolume,
         Forget, RetrieveBackupsStats, GetOrigionalBackupPath, RestoreVolume, Ends
<1>3. force' = force
  BY DEF CommandEnds, TestInit, InitRepository, UnlockRepository, BackupVolume, Forget,
         RetrieveBackupsStats, Repeat, GetOrigionalBackupPath, RestoreVolume, Goto
<1>4. \A b \in Agents : pc'[b] # "unlock"
  <2>1. CASE TestInit(a, result) \/ InitRepository(a, result)
    BY <1>1, <2>1 DEF TestInit, InitRepository, Goto, AfterInit, LocksKept, TypeOK
  <2>2. CASE UnlockRepository(a, result)
    BY <1>1, <2>2 DEF UnlockRepository
  <2>3. CASE BackupVolume(a, result)
    BY <2>3 DEF BackupVolume, Goto, AfterBackup, LocksKept, TypeOK
  <2>4. CASE Forget(a, result) \/ RetrieveBackupsStats(a, result)
    BY <1>1, <2>4 DEF Forget, RetrieveBackupsStats, Repeat, Goto, LocksKept, TypeOK
  <2>5. CASE GetOrigionalBackupPath(a, result) \/ RestoreVolume(a, result)
    BY <2>5 DEF GetOrigionalBackupPath, RestoreVolume, Goto, LocksKept, TypeOK
  <2>6. QED
    BY <2>1, <2>2, <2>3, <2>4, <2>5 DEF CommandEnds
<1>5. a \in Processes /\ (result = "killed") \in BOOLEAN
  BY DEF Processes
<1>6. QED
  BY <1>2, <1>3, <1>4, <1>5, LeavesKeepsLocks DEF LocksKept

LEMMA NextKeepsLocks ==
    ASSUME TypeOK, LocksHeld, [Next]_vars
    PROVE  LocksHeld'
<1> SUFFICES ASSUME ~asked' PROVE LocksKept'
  BY DEF LocksHeld
<1>a. ~asked
  BY DEF Next, AgentStep, Deploy, Execute, CommandEnds, TestInit, InitRepository,
         UnlockRepository, BackupVolume, Forget, RetrieveBackupsStats,
         GetOrigionalBackupPath, RestoreVolume, Report, LoseReport, Die, Gone, RunRaw,
         RawEnds, vars, resticVars
<1>b. LocksKept
  BY <1>a DEF LocksHeld
<1>1. ASSUME NEW a \in Agents, NEW j \in Jobs, NEW f \in Forces, Deploy(a, j, f)
      PROVE  LocksKept'
  <2>1. j \in {"backup", "restore"} /\ f = FALSE
    BY <1>1, AgentAssumption DEF Deploy
  <2>2. First(j, f) # "unlock"
    BY <2>1 DEF First
  <2>3. QED
    BY <1>1, <1>b, <2>1, <2>2 DEF Deploy, LocksKept, TypeOK
<1>2. ASSUME NEW a \in Agents, Execute(a) PROVE LocksKept'
  <2>1. Kind(pc[a]) \in Locks \union {"lockless"} /\ a \in Processes
    BY <1>2, Kinds DEF Execute, Processes
  <2>2. Startable(a, Kind(pc[a])) /\ Runs(a, Kind(pc[a]))
    BY <1>2 DEF Execute, Ready
  <2>3. QED
    BY <1>2, <1>b, <2>1, <2>2, RunsKeepsLocks DEF Execute, agentVars, LocksKept
<1>3. ASSUME NEW a \in Agents, NEW result \in AllResults, CommandEnds(a, result)
      PROVE  LocksKept'
  BY <1>3, <1>b, CommandKeepsLocks
<1>4. ASSUME NEW a \in Agents, Report(a) \/ LoseReport(a) PROVE LocksKept'
  <2>1. Gone(a) /\ UNCHANGED <<running, lock>>
    BY <1>4 DEF Report, LoseReport
  <2>2. \A b \in Agents : ~force'[b] /\ pc'[b] # "unlock"
    BY <2>1, <1>b DEF Gone, LocksKept, TypeOK
  <2>3. QED
    BY <2>1, <2>2, <1>b DEF LocksKept
<1>5. ASSUME NEW a \in Agents, Die(a) PROVE LocksKept'
  <2>1. a \in Processes
    BY DEF Processes
  <2>2. \A b \in Agents : ~force'[b] /\ pc'[b] # "unlock"
    BY <1>5, <1>b DEF Die, Gone, LocksKept, TypeOK
  <2>3. QED
    BY <1>5, <1>b, <2>1, <2>2, LeavesKeepsLocks DEF Die, LocksKept
<1>6. ASSUME NEW r \in Operators, RunRaw(r) \/ RawEnds(r) PROVE LocksKept'
  <2>1. r \in Processes
    BY DEF Processes
  <2>2. CASE \E kind \in RawModes \intersect Locks : Startable(r, kind) /\ Runs(r, kind)
    BY <1>6, <1>b, <2>1, <2>2, RunsKeepsLocks DEF RunRaw, RawEnds, agentVars, LocksKept
  <2>3. CASE RawEnds(r)
    <3>1. PICK result \in Results : Leaves(r, result = "killed")
      BY <2>3 DEF RawEnds
    <3>2. (result = "killed") \in BOOLEAN
      OBVIOUS
    <3>3. QED
      BY <1>b, <2>1, <2>3, <3>1, <3>2, LeavesKeepsLocks DEF RawEnds, agentVars, LocksKept
  <2>4. QED
    BY <1>6, <2>2, <2>3 DEF RunRaw
<1>7. ASSUME UNCHANGED vars PROVE LocksKept'
  BY <1>7, <1>b DEF vars, agentVars, resticVars, LocksKept
<1>8. QED
  BY <1>1, <1>2, <1>3, <1>4, <1>5, <1>6, <1>7 DEF Next, AgentStep

\* Until somebody asks for --force or runs `restic unlock`, no command works on
\* the repository while another prunes it, although raw commands and agents of
\* different volumes share no mutex.
THEOREM PruneIsAlone == Spec => []PruneAlone
<1>1. Init => LocksHeld
  BY DEF Init, LocksHeld, LocksKept, Locks
<1>2. TypeOK /\ LocksHeld /\ [Next]_vars => LocksHeld'
  BY NextKeepsLocks
<1>3. TypeOK /\ LocksHeld => PruneAlone
  BY DEF LocksHeld, LocksKept, PruneAlone, TypeOK, Locks
<1>4. QED
  BY <1>1, <1>2, <1>3, AgentTypeCorrect, PTL DEF Spec
=============================================================================
