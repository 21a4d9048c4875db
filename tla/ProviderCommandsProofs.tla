------------------------ MODULE ProviderCommandsProofs ------------------------
(***************************************************************************)
(* Theorems about ProviderCommands: its type invariant, that a dump the    *)
(* pre-command did not warn about is whole while the agent reads it, that  *)
(* it is kept meanwhile, and that a backup without error leaves none.      *)
(***************************************************************************)
EXTENDS ProviderCommands, TLAPS

\* What is put in place of $volume is the path of some container.
Substituted ==
    \A a \in Actors : sub[a] # NoPath => \E c \in Containers : sub[a] = path[c]

\* The mutex of an object.
OneBackup ==
    \A a, b \in Attempts : object[a] = object[b] /\ object[a] # NoObject => a = b

\* The last backup to start was the only one, and is if it has not returned.
Alone ==
    alone =>
        /\ \A a, b \in Attempts : phase[a] # "idle" /\ phase[b] # "idle" => a = b
        /\ \A a \in Attempts : phase[a] # "idle" => result = "none"

\* Agents of a former manager are found on Cattle only.
NoAttachment ==
    orchestrator # "cattle" => \A a \in Attachments : phase[a] = "idle"

\* A backup has not prepared its dump before it has got there.
Ahead ==
    \A a \in Actors : phase[a] \in {"idle", "detect", "pre"} => ~preOk[a]

ProvidersInv ==
    /\ TypeOK /\ Substituted /\ OneBackup /\ Alone /\ NoAttachment /\ Ahead
    /\ DumpIsWhole /\ DumpsRemoved

-----------------------------------------------------------------------------
(* Initial states *)

LEMMA InitInv == Init => ProvidersInv
<1> SUFFICES ASSUME Init PROVE ProvidersInv
  OBVIOUS
<1> USE ProvidersAssumption DEF Init, Idle, Actors
<1>1. TypeOK
  BY DEF TypeOK
<1>2. Substituted /\ OneBackup /\ Alone /\ NoAttachment /\ Ahead
  BY DEF Substituted, OneBackup, Alone, NoAttachment, Ahead
<1>3. DumpIsWhole /\ DumpsRemoved
  BY DEF DumpIsWhole, DumpsRemoved
<1>4. QED
  BY <1>1, <1>2, <1>3 DEF ProvidersInv

-----------------------------------------------------------------------------
(* Backups and attachments *)

\* The mutex is what keeps OneBackup.
LEMMA BackupVolumeInv ==
    ASSUME ProvidersInv, NEW a \in Actors, BackupVolume(a)
    PROVE  ProvidersInv'
<1> USE ProvidersAssumption DEF ProvidersInv, Actors, settingVars, localVars, searchVars, dumpVars,
      BackupVolume, Starts, Begins, Enters
<1>1. TypeOK'
  <2>1. alone' \in BOOLEAN
    BY Zenon
  <2>2. PICK o \in Objects : Starts(a, o)
    OBVIOUS
  <2>3. /\ UNCHANGED <<settingVars, running, former, prov, preOk, dump>>
        /\ result' = "none" /\ fresh' = FALSE
    BY Zenon
  <2> HIDE DEF BackupVolume, Begins
  <2>4. QED
    BY <2>1, <2>2, <2>3 DEF TypeOK
<1>2. Substituted' /\ OneBackup' /\ Alone' /\ NoAttachment' /\ Ahead'
  BY DEF TypeOK, Substituted, OneBackup, Alone, NoAttachment, Ahead
<1>3. DumpIsWhole'
  BY DEF TypeOK, Substituted, Alone, NoAttachment, Ahead, DumpIsWhole,
    Uniform
<1>4. DumpsRemoved'
  BY DEF TypeOK, Substituted, Alone, DumpsRemoved, Uniform
<1>5. QED
  BY <1>1, <1>2, <1>3, <1>4

LEMMA AttachOrphanAgentInv ==
    ASSUME ProvidersInv, NEW a \in Actors, AttachOrphanAgent(a)
    PROVE  ProvidersInv'
<1> USE ProvidersAssumption DEF ProvidersInv, Actors, settingVars, localVars, searchVars, dumpVars,
      AttachOrphanAgent, Starts, Enters
<1>1. TypeOK'
  BY DEF TypeOK
<1>2. Substituted' /\ OneBackup' /\ Alone' /\ NoAttachment' /\ Ahead'
  BY DEF TypeOK, Substituted, OneBackup, Alone, NoAttachment, Ahead
<1>3. DumpIsWhole'
  BY DEF TypeOK, Substituted, Alone, NoAttachment, Ahead, DumpIsWhole,
    Uniform
<1>4. DumpsRemoved'
  BY DEF TypeOK, Substituted, Alone, DumpsRemoved, Uniform
<1>5. QED
  BY <1>1, <1>2, <1>3, <1>4

\* A backup or an attachment returns, and no post-command has been run.
LEMMA ReturnsInv ==
    ASSUME ProvidersInv, NEW a \in Actors, phase[a] # "idle",
           NEW r \in {"error", "success"}, Returns(a, r), former' \in BOOLEAN,
           UNCHANGED <<settingVars, running, dumpVars>>
    PROVE  ProvidersInv'
<1> USE ProvidersAssumption DEF ProvidersInv, Actors, settingVars, dumpVars, Returns, Enters
<1>1. TypeOK'
  BY DEF TypeOK
<1>2. Substituted' /\ OneBackup' /\ Alone' /\ NoAttachment' /\ Ahead'
  BY DEF TypeOK, Substituted, OneBackup, Alone, NoAttachment, Ahead
<1>3. DumpIsWhole'
  BY DEF TypeOK, Substituted, Alone, NoAttachment, Ahead, DumpIsWhole,
    Uniform
<1>4. DumpsRemoved'
  BY DEF TypeOK, Substituted, Alone, DumpsRemoved, Uniform
<1>5. QED
  BY <1>1, <1>2, <1>3, <1>4

\* A backup goes on to its agent, with no dump of its own.
LEMMA AgentNextInv ==
    ASSUME ProvidersInv, NEW a \in Actors, phase[a] \in {"detect", "pre"}, Proceeds(a, "agent"),
           UNCHANGED <<settingVars, running, former, prov, preOk, dumpVars>>
    PROVE  ProvidersInv'
<1> USE ProvidersAssumption DEF ProvidersInv, Actors, settingVars, localVars, searchVars, dumpVars,
      Proceeds, Enters
<1>1. TypeOK'
  BY DEF TypeOK
<1>2. Substituted' /\ OneBackup' /\ Alone' /\ NoAttachment' /\ Ahead'
  BY DEF TypeOK, Substituted, OneBackup, Alone, NoAttachment, Ahead
<1>3. DumpIsWhole'
  BY DEF TypeOK, Substituted, Alone, NoAttachment, Ahead, DumpIsWhole,
    Uniform
<1>4. DumpsRemoved'
  BY DEF TypeOK, Substituted, Alone, DumpsRemoved, Uniform
<1>5. QED
  BY <1>1, <1>2, <1>3, <1>4

LEMMA PostNextInv ==
    ASSUME ProvidersInv, NEW a \in Actors, phase[a] = "agent", prov[a] \in WithPost,
           Proceeds(a, "post"), former' \in BOOLEAN,
           UNCHANGED <<settingVars, running, prov, preOk, dumpVars>>
    PROVE  ProvidersInv'
<1> USE ProvidersAssumption DEF ProvidersInv, Actors, settingVars, dumpVars, Proceeds, Enters
<1>1. TypeOK'
  BY DEF TypeOK
<1>2. Substituted' /\ OneBackup' /\ Alone' /\ NoAttachment' /\ Ahead'
  BY DEF TypeOK, Substituted, OneBackup, Alone, NoAttachment, Ahead
<1>3. DumpIsWhole'
  BY DEF TypeOK, Substituted, Alone, NoAttachment, Ahead, DumpIsWhole,
    Uniform
<1>4. DumpsRemoved'
  BY DEF TypeOK, Substituted, Alone, DumpsRemoved, Uniform
<1>5. QED
  BY <1>1, <1>2, <1>3, <1>4

LEMMA AgentEndsInv ==
    ASSUME ProvidersInv, NEW a \in Actors, AgentEnds(a)
    PROVE  ProvidersInv'
<1>1. former' \in BOOLEAN
  BY Zenon DEF ProvidersInv, TypeOK, AgentEnds, AgentGone
<1>2. CASE Returns(a, "success")
  BY <1>1, <1>2, ReturnsInv DEF AgentEnds, AgentGone
<1>3. CASE prov[a] \in WithPost /\ Proceeds(a, "post") /\ UNCHANGED <<prov, preOk>>
  BY <1>1, <1>3, PostNextInv DEF AgentEnds, AgentGone
<1>4. QED
  BY <1>2, <1>3 DEF AgentEnds

-----------------------------------------------------------------------------
(* Commands *)

LEMMA ListsInv ==
    ASSUME ProvidersInv, NEW a \in Actors, Lists(a)
    PROVE  ProvidersInv'
<1> USE ProvidersAssumption DEF ProvidersInv, Actors, settingVars, localVars, searchVars, dumpVars,
      Lists, Listings, DockerMounting, KubernetesMounting, CattleMounting,
      Mounting
<1>1. TypeOK'
  BY DEF TypeOK
<1>2. Substituted' /\ OneBackup' /\ Alone' /\ NoAttachment' /\ Ahead'
  BY DEF TypeOK, Substituted, OneBackup, Alone, NoAttachment, Ahead
<1>3. DumpIsWhole'
  BY DEF TypeOK, Substituted, Alone, NoAttachment, Ahead, DumpIsWhole,
    Uniform
<1>4. DumpsRemoved'
  BY DEF TypeOK, Substituted, Alone, DumpsRemoved, Uniform
<1>5. QED
  BY <1>1, <1>2, <1>3, <1>4

\* The path tried first is put in place of $volume.
LEMMA FruitlessInv ==
    ASSUME ProvidersInv, NEW a \in Actors, NEW c \in Containers, Fruitless(a, c),
           UNCHANGED <<settingVars, running, former, prov, preOk, result, dumpVars>>
    PROVE  ProvidersInv'
<1> USE ProvidersAssumption DEF ProvidersInv, Actors, settingVars, localVars, searchVars, dumpVars,
      Fruitless, PathUsed
<1>1. TypeOK'
  BY DEF TypeOK
<1>2. Substituted' /\ OneBackup' /\ Alone' /\ NoAttachment' /\ Ahead'
  BY DEF TypeOK, Substituted, OneBackup, Alone, NoAttachment, Ahead
<1>3. DumpIsWhole'
  BY DEF TypeOK, Substituted, Alone, NoAttachment, Ahead, DumpIsWhole,
    Uniform
<1>4. DumpsRemoved'
  BY DEF TypeOK, Substituted, Alone, DumpsRemoved, Uniform
<1>5. QED
  BY <1>1, <1>2, <1>3, <1>4

LEMMA DetectsInv ==
    ASSUME ProvidersInv, NEW a \in Actors, NEW c \in Containers, Detects(a, c)
    PROVE  ProvidersInv'
<1> USE ProvidersAssumption DEF ProvidersInv, Actors, settingVars, localVars, searchVars, dumpVars,
      Detects, Proceeds, Enters
<1>1. TypeOK'
  <2>1. PICK p \in Providers : prov' = [prov EXCEPT ![a] = p]
    BY DEF TypeOK, Detectable
  <2>2. phase[a] = "detect" /\ UNCHANGED <<settingVars, running, former, preOk, dumpVars>>
    OBVIOUS
  <2>3. CASE a \in Attempts /\ Proceeds(a, "pre")
    <3> HIDE DEF Detects
    <3>1. QED
      BY <2>1, <2>2, <2>3 DEF TypeOK
  <2>4. CASE Proceeds(a, "agent")
    <3> HIDE DEF Detects
    <3>1. QED
      BY <2>1, <2>2, <2>4 DEF TypeOK
  <2>5. QED
    BY <2>3, <2>4
<1>2. Substituted' /\ OneBackup' /\ Alone' /\ NoAttachment' /\ Ahead'
  BY DEF TypeOK, Substituted, OneBackup, Alone, NoAttachment, Ahead
<1>3. DumpIsWhole'
  BY DEF TypeOK, Substituted, Alone, NoAttachment, Ahead, DumpIsWhole,
    Uniform
<1>4. DumpsRemoved'
  BY DEF TypeOK, Substituted, Alone, DumpsRemoved, Uniform
<1>5. QED
  BY <1>1, <1>2, <1>3, <1>4

\* On Kubernetes an answer without error means that the command succeeded.
LEMMA PreCommandInv ==
    ASSUME ProvidersInv, NEW a \in Actors, NEW c \in Containers, PreCommand(a, c)
    PROVE  ProvidersInv'
<1> USE ProvidersAssumption DEF ProvidersInv, Actors, settingVars, localVars, searchVars, dumpVars,
      PreCommand, Answered, Dumped, Inside, PathUsed, Fruitless, Proceeds, Enters
<1>1. TypeOK'
  <2>1. dump' \in {"none", "partial", "whole"} /\ fresh' \in BOOLEAN
    BY DEF TypeOK
  <2>2. CASE Proceeds(a, "agent") /\ preOk' = [preOk EXCEPT ![a] = TRUE]
    BY <2>1, <2>2 DEF TypeOK
  <2>3. CASE Fruitless(a, c) /\ UNCHANGED <<preOk, result>>
    BY <2>1, <2>3 DEF TypeOK
  <2>4. QED
    BY <2>2, <2>3
<1>2. Substituted' /\ OneBackup' /\ Alone' /\ NoAttachment' /\ Ahead'
  BY DEF TypeOK, Substituted, OneBackup, Alone, NoAttachment, Ahead
<1>3. DumpIsWhole'
  BY DEF TypeOK, Substituted, Alone, NoAttachment, Ahead, DumpIsWhole,
    Uniform
<1>4. DumpsRemoved'
  BY DEF TypeOK, Substituted, Alone, DumpsRemoved, Uniform
<1>5. QED
  BY <1>1, <1>2, <1>3, <1>4

\* What a post-command leaves is no dump, or a backup with an error.
LEMMA PostCommandInv ==
    ASSUME ProvidersInv, NEW a \in Actors, NEW c \in Containers, PostCommand(a, c)
    PROVE  ProvidersInv'
<1> USE ProvidersAssumption DEF ProvidersInv, Actors, settingVars, localVars, searchVars, dumpVars,
      PostCommand, Answered, Removed, Inside, PathUsed, Fruitless, Returns,
      Enters
<1>1. TypeOK'
  <2>1. dump' \in {"none", "partial", "whole"}
    BY DEF TypeOK
  <2>2. CASE Returns(a, "cleared")
    BY <2>1, <2>2 DEF TypeOK
  <2>3. CASE Fruitless(a, c) /\ UNCHANGED <<prov, preOk, result>>
    BY <2>1, <2>3 DEF TypeOK
  <2>4. QED
    BY <2>2, <2>3
<1>2. Substituted' /\ OneBackup' /\ Alone' /\ NoAttachment' /\ Ahead'
  BY DEF TypeOK, Substituted, OneBackup, Alone, NoAttachment, Ahead
<1>3. DumpIsWhole'
  BY DEF TypeOK, Substituted, Alone, NoAttachment, Ahead, DumpIsWhole,
    Uniform
<1>4. DumpsRemoved'
  BY DEF TypeOK, Substituted, Alone, DumpsRemoved, Uniform
<1>5. QED
  BY <1>1, <1>2, <1>3, <1>4

-----------------------------------------------------------------------------
(* The rest of the world *)

LEMMA CrashInv ==
    ASSUME ProvidersInv, Crash
    PROVE  ProvidersInv'
<1> USE ProvidersAssumption DEF ProvidersInv, Actors, settingVars, localVars, searchVars, dumpVars,
      Crash
<1>1. TypeOK'
  BY DEF TypeOK
<1>2. Substituted' /\ OneBackup' /\ Alone' /\ NoAttachment' /\ Ahead'
  BY DEF TypeOK, Substituted, OneBackup, Alone, NoAttachment, Ahead
<1>3. DumpIsWhole'
  BY DEF TypeOK, Substituted, Alone, NoAttachment, Ahead, DumpIsWhole,
    Uniform
<1>4. DumpsRemoved'
  BY DEF TypeOK, Substituted, Alone, DumpsRemoved, Uniform
<1>5. QED
  BY <1>1, <1>2, <1>3, <1>4

LEMMA FormerEndsInv ==
    ASSUME ProvidersInv, FormerEnds
    PROVE  ProvidersInv'
<1> USE DEF ProvidersInv, settingVars, localVars, searchVars, dumpVars, FormerEnds
<1>1. TypeOK'
  BY DEF TypeOK
<1>2. Substituted' /\ OneBackup' /\ Alone' /\ NoAttachment' /\ Ahead'
  BY DEF Substituted, OneBackup, Alone, NoAttachment, Ahead
<1>3. DumpIsWhole' /\ DumpsRemoved'
  BY DEF DumpIsWhole, DumpsRemoved, Uniform
<1>4. QED
  BY <1>1, <1>2, <1>3

LEMMA RunningInv ==
    ASSUME ProvidersInv, running' \subseteq Containers,
           UNCHANGED <<settingVars, former, localVars, result, dumpVars>>
    PROVE  ProvidersInv'
<1> USE ProvidersAssumption DEF ProvidersInv, Actors, settingVars, localVars, searchVars, dumpVars,
      Uniform
<1>1. TypeOK'
  BY DEF TypeOK
<1>2. Substituted' /\ OneBackup' /\ Alone' /\ NoAttachment' /\ Ahead'
  BY DEF TypeOK, Substituted, OneBackup, Alone, NoAttachment, Ahead
<1>3. DumpIsWhole'
  BY DEF TypeOK, Substituted, Alone, NoAttachment, Ahead, DumpIsWhole
<1>4. DumpsRemoved'
  BY DEF TypeOK, Substituted, Alone, DumpsRemoved
<1>5. QED
  BY <1>1, <1>2, <1>3, <1>4

-----------------------------------------------------------------------------
(* Steps *)

LEMMA StepInv ==
    ASSUME ProvidersInv, NEW a \in Actors, Step(a)
    PROVE  ProvidersInv'
<1>1. CASE BackupVolume(a) \/ AttachOrphanAgent(a) \/ Lists(a)
  BY <1>1, BackupVolumeInv, AttachOrphanAgentInv, ListsInv
<1>2. CASE ListFails(a)
  <2>1. former' \in BOOLEAN
    BY <1>2 DEF ListFails, ProvidersInv, TypeOK
  <2>2. QED
    BY <1>2, <2>1, ReturnsInv, AgentNextInv DEF ListFails
<1>3. CASE NoneDetected(a) \/ PreCommandFails(a)
  BY <1>3, AgentNextInv DEF NoneDetected, PreCommandFails
<1>4. CASE PostCommandFails(a) \/ AgentFails(a)
  <2>1. former' \in BOOLEAN
    BY <1>4 DEF PostCommandFails, AgentFails, ProvidersInv, TypeOK
  <2>2. QED
    BY <1>4, <2>1, ReturnsInv DEF PostCommandFails, AgentFails
<1>5. CASE AgentEnds(a)
  BY <1>5, AgentEndsInv
<1>6. QED
  BY <1>1, <1>2, <1>3, <1>4, <1>5 DEF Step

LEMMA TriesInv ==
    ASSUME ProvidersInv, NEW a \in Actors, NEW c \in Containers, Tries(a, c)
    PROVE  ProvidersInv'
<1>1. CASE DetectsNothing(a, c)
  BY <1>1, FruitlessInv DEF DetectsNothing
<1>2. QED
  BY <1>1, DetectsInv, PreCommandInv, PostCommandInv DEF Tries

LEMMA NextInv ==
    ASSUME ProvidersInv, [Next]_vars
    PROVE  ProvidersInv'
<1>1. CASE \E a \in Actors : Step(a) \/ \E c \in Containers : Tries(a, c)
  BY <1>1, StepInv, TriesInv
<1>2. CASE \E c \in Containers : Stops(c) \/ Runs(c)
  <2>1. running \subseteq Containers
    BY DEF ProvidersInv, TypeOK
  <2>2. QED
    BY <1>2, <2>1, RunningInv DEF Stops, Runs
<1>3. CASE FormerEnds \/ Crash
  BY <1>3, FormerEndsInv, CrashInv
<1>4. CASE UNCHANGED vars
  <2>1. running' \subseteq Containers
    BY <1>4 DEF ProvidersInv, TypeOK, vars
  <2>2. QED
    BY <1>4, <2>1, RunningInv DEF vars
<1>5. QED
  BY <1>1, <1>2, <1>3, <1>4 DEF Next

LEMMA Invariance == Spec => []ProvidersInv
<1>1. ProvidersInv /\ [Next]_vars => ProvidersInv'
  BY NextInv
<1>2. QED
  BY <1>1, InitInv, PTL DEF Spec

-----------------------------------------------------------------------------
(* Theorems *)

\* Every variable of the providers' commands keeps its type; only a provider that was
\* detected has its commands run.
THEOREM CommandsTypeCorrect == Spec => []TypeOK
<1>1. ProvidersInv => TypeOK
  BY DEF ProvidersInv
<1>2. QED
  BY <1>1, Invariance, PTL

\* On Kubernetes, however many containers mount the volume at one path and whatever
\* commands and requests fail, an agent reads the whole dump of its backup if the
\* pre-command gave no warning and no other backup has been under way since it started.
THEOREM UnwarnedDumpIsWhole == Spec => []DumpIsWhole
<1>1. ProvidersInv => DumpIsWhole
  BY DEF ProvidersInv
<1>2. QED
  BY <1>1, Invariance, PTL

\* On Kubernetes a backup that returned no error and whose provider has a post-command
\* has left no dump where containers mount the volume at one path, also if commands have
\* failed in some of them. Elsewhere a post-command that fails counts as success.
THEOREM NoDumpLeft == Spec => []DumpsRemoved
<1>1. ProvidersInv => DumpsRemoved
  BY DEF ProvidersInv
<1>2. QED
  BY <1>1, Invariance, PTL

\* Who changes the dump is at one of its commands, with an object that is not that of
\* an agent at work.
LEMMA DumpChanges ==
    ASSUME ProvidersInv, Next, dump' # dump, NEW o \in Readers
    PROVE  \/ \E b \in Attachments : phase[b] = "post"
           \/ \E b \in Attempts : phase[b] \in {"pre", "post"} /\ object[b] # o
<1> USE ProvidersAssumption DEF Actors
<1>1. PICK b \in Actors : \E c \in Containers : PreCommand(b, c) \/ PostCommand(b, c)
  BY DEF Next, Step, Tries, BackupVolume, AttachOrphanAgent, Starts, Lists, ListFails,
       NoneDetected, PreCommandFails, PostCommandFails, AgentFails, AgentEnds, AgentGone,
       Detects, DetectsNothing, Stops, Runs, FormerEnds, Crash, dumpVars
<1>2. phase[b] \in {"pre", "post"}
  BY <1>1 DEF PreCommand, PostCommand
<1>3. CASE b \in Attachments
  BY <1>2, <1>3 DEF ProvidersInv, TypeOK
<1>4. CASE b \in Attempts
  <2>1. object[b] # NoObject
    BY <1>2, <1>4 DEF ProvidersInv, TypeOK
  <2>2. \A a \in Attempts : phase[a] = "agent" => object[a] # object[b]
    BY <1>2, <1>4, <2>1 DEF ProvidersInv, OneBackup
  <2>3. object[b] # o
    BY <2>1, <2>2 DEF Readers
  <2>4. QED
    BY <1>2, <1>4, <2>3
<1>5. QED
  BY <1>3, <1>4

\* The dump is kept while an agent reads it, but for attachments and for backups with
\* another object of the volume: whatever the number of backups and objects, the mutex
\* of an object keeps all others away.
THEOREM DumpIsKept == Spec => DumpKept
<1>1. ProvidersInv /\ [Next]_vars =>
        [\A o \in Readers :
            o \in Readers' /\ dump' # dump =>
                \/ \E b \in Attachments : phase[b] = "post"
                \/ \E b \in Attempts : phase[b] \in {"pre", "post"} /\ object[b] # o]_vars
  BY DumpChanges DEF vars, dumpVars
<1>2. QED
  BY <1>1, Invariance, PTL DEF Spec, DumpKept
=============================================================================
