------------------------ MODULE VolumeRegistryProofs ------------------------
(***************************************************************************)
(* Theorems about VolumeRegistry, for any volumes, options and agents and  *)
(* any number of attempts, restarts and lost reports.                      *)
(***************************************************************************)
EXTENDS VolumeRegistry, VolumeFiltersProofs

-----------------------------------------------------------------------------
(* The inductive invariant *)

\* An object that somebody refers to is of a volume.
Referenced(o) ==
    \/ o \in managed \union todo \union {cur}
    \/ attached[o] > 0
    \/ \E a \in Actors : target[a] = o

Named == \A o \in Objects : Referenced(o) => vol[o] # 0

\* A process that does not run knows nothing.
Down ==
    ~up => /\ rpc = "retrieve" /\ answer = {} /\ todo = {} /\ cur = NoObject
           /\ managed = {} /\ \A o \in Objects : attached[o] = 0
           /\ \A a \in Actors : pc[a] = "idle" /\ target[a] = NoObject

Walking == rpc = "due" => cur \in Objects

Busy == \A a \in Actors : pc[a] # "idle" => target[a] \in Objects

\* A volume is managed as one object.
Unique == \A o, n \in managed : vol[o] = vol[n] => o = n

\* The mutex of an object is held by one attempt.
Mutex ==
    \A a, b \in Actors :
        /\ a # b /\ target[a] = target[b]
        /\ pc[a] \in {"locked", "agent"} /\ pc[b] \in {"locked", "agent"}
        => FALSE

Serving == \A g \in Agents : agent[g] # "none" => mounts[g] \in Volumes

\* The agent of an attempt is its own, and of its volume.
Deployed ==
    \A a \in Actors : pc[a] = "agent" =>
        /\ with[a] \in Agents /\ agent[with[a]] # "none"
        /\ mounts[with[a]] = vol[target[a]]
        /\ \A b \in Actors : pc[b] = "agent" /\ with[b] = with[a] => b = a
        /\ \A v \in Volumes : orphan[v] # with[a]

\* The orphan agent of a volume is still the volume's, or gone.
Orphans ==
    /\ \A v \in Volumes : orphan[v] \in Agents =>
            agent[orphan[v]] = "none" \/ mounts[orphan[v]] = v
    /\ \A o \in Objects : attached[o] > 0 => orphan[vol[o]] \in Agents

\* Consulting the lists has only changed their order.
Consulting == SimilarLists(lists, options)

\* The volumes found and managed are those that the options select.
Chosen ==
    Plain(options.white) /\ Plain(options.black) =>
        /\ answer \subseteq Promised(options)
        /\ \A o \in managed : vol[o] \in Promised(options)

RegistryInv ==
    /\ TypeOK /\ Named /\ Down /\ Walking /\ Busy
    /\ Unique /\ Mutex /\ Serving /\ Deployed /\ Orphans
    /\ StoredIsKnown /\ Consulting /\ Chosen

-----------------------------------------------------------------------------
(* Steps that choose *)

\* The object that a discovered volume gets is one that nobody refers to.
DiscoverAs(v, o) ==
    /\ rpc = "append"
    /\ v \in answer /\ ManagedOf(v) = {} /\ o \in Objects /\ Free(o)
    /\ managed' = managed \union {o}
    /\ vol' = [vol EXCEPT ![o] = v]
    /\ backingUp' = [backingUp EXCEPT ![o] = FALSE]
    /\ \/ date' = [date EXCEPT ![o] = repo[v]] /\ untold' = untold \ {v}
       \/ date' = [date EXCEPT ![o] = "old"] /\ untold' = untold \union {v}
    /\ UNCHANGED <<configVars, up, exists, repo, refresherVars, attemptVars, attached,
                   orphan, agentVars>>

LEMMA DiscoverChooses ==
    ASSUME NEW v, Discover(v)
    PROVE  \E o : DiscoverAs(v, o)
<1> DEFINE o == CHOOSE n \in Objects : Free(n)
<1>1. o \in Objects /\ Free(o)
  BY DEF Discover
<1>2. DiscoverAs(v, o)
  BY <1>1 DEF Discover, DiscoverAs
<1>3. QED
  BY <1>2

\* The agent of an attempt is new.
DeployAs(a, g) ==
    /\ pc[a] = "locked"
    /\ g \in Agents /\ agent[g] = "none" /\ \A v \in Volumes : orphan[v] # g
    /\ agent' = [agent EXCEPT ![g] = "running"]
    /\ mounts' = [mounts EXCEPT ![g] = vol[target[a]]]
    /\ exists' = [exists EXCEPT ![vol[target[a]]] = @ \/ orchestrator = "docker"]
    /\ pc' = [pc EXCEPT ![a] = "agent"] /\ with' = [with EXCEPT ![a] = g]
    /\ UNCHANGED <<configVars, up, repo, refresherVars, objectVars, target, attached,
                   orphan, untold>>

LEMMA DeployChooses ==
    ASSUME NEW a, DeployAgent(a)
    PROVE  \E g : DeployAs(a, g)
<1> DEFINE unused == {g \in Agents : agent[g] = "none" /\ \A w \in Volumes : orphan[w] # g}
           g == CHOOSE n \in unused : TRUE
<1>1. g \in unused
  BY DEF DeployAgent
<1>2. DeployAs(a, g)
  BY <1>1 DEF DeployAgent, DeployAs
<1>3. QED
  BY <1>2

-----------------------------------------------------------------------------
(* The refresher *)

LEMMA Retrieved ==
    ASSUME RegistryInv, RetrieveVolumes
    PROVE  /\ lists' \in Lists /\ SimilarLists(lists', options) /\ answer' \subseteq Volumes
           /\ Plain(options.white) /\ Plain(options.black) => answer' \subseteq Promised(options)
<1>1. PICK found \in Answers : \E before \in Orders(found \ Unnamed) :
            /\ answer' = Select(lists, found, before).kept
            /\ lists' = Select(lists, found, before).lists
  BY DEF RetrieveVolumes
<1>2. PICK before \in Orders(found \ Unnamed) :
            /\ answer' = Select(lists, found, before).kept
            /\ lists' = Select(lists, found, before).lists
  BY <1>1
<1>3. found \in SUBSET Volumes
  BY RegistryAssumption
     DEF Answers, DockerVolumes, KubernetesVolumes, CattleVolumes, Existing, RegistryInv, TypeOK
<1>4. lists \in Lists /\ SimilarLists(lists, options) /\ options \in Lists
  BY RegistryAssumption DEF RegistryInv, TypeOK, Consulting
<1>5. /\ lists' \in Lists /\ SimilarLists(lists', options) /\ answer' \in SUBSET found
  BY <1>2, <1>3, <1>4, SelectionSimilar
<1>6. Plain(options.white) /\ Plain(options.black) => answer' = found \intersect Promised(options)
  BY <1>2, <1>3, <1>4, SelectionKeepsPromise
<1>7. QED
  BY <1>3, <1>5, <1>6

\* The volumes are listed.
LEMMA RetrieveInv ==
    ASSUME RegistryInv, RetrieveVolumes
    PROVE  RegistryInv'
<1> USE RegistryAssumption DEF RegistryInv, configVars, refresherVars,
      objectVars, attemptVars, agentVars, RetrieveVolumes
<1>1. TypeOK'
  BY Retrieved DEF TypeOK
<1>2. Named'
  BY DEF TypeOK, Named, Referenced
<1>3. Down'
  BY DEF Down
<1>4. Walking'
  BY DEF Walking
<1>5. Busy'
  BY DEF TypeOK, Busy
<1>6. Unique'
  BY DEF TypeOK, Unique
<1>7. Mutex'
  BY DEF TypeOK, Mutex
<1>8. Serving'
  BY DEF TypeOK, Serving
<1>9. Deployed'
  BY DEF TypeOK, Busy, Deployed
<1>10. Orphans'
  BY DEF TypeOK, Orphans
<1>11. StoredIsKnown'
  BY DEF TypeOK, StoredIsKnown
<1>12. Consulting'
  BY Retrieved DEF Consulting
<1>13. Chosen'
  BY Retrieved DEF Chosen
<1>14. QED
  BY <1>1, <1>2, <1>3, <1>4, <1>5, <1>6, <1>7, <1>8, <1>9, <1>10, <1>11, <1>12, <1>13

\* The list cannot be had.
LEMMA RetrieveFailsInv ==
    ASSUME RegistryInv, RetrieveFails
    PROVE  RegistryInv'
<1> USE RegistryAssumption DEF RegistryInv, configVars, refresherVars,
      objectVars, attemptVars, agentVars, RetrieveFails
<1>1. TypeOK'
  BY DEF TypeOK, Ages
<1>2. Named'
  BY DEF TypeOK, Named, Referenced
<1>3. Down'
  BY DEF Down
<1>4. Walking'
  BY DEF Walking
<1>5. Busy'
  BY DEF TypeOK, Busy
<1>6. Unique'
  BY DEF TypeOK, Unique
<1>7. Mutex'
  BY DEF TypeOK, Mutex
<1>8. Serving'
  BY DEF TypeOK, Serving
<1>9. Deployed'
  BY DEF TypeOK, Busy, Deployed
<1>10. Orphans'
  BY DEF TypeOK, Orphans
<1>11. StoredIsKnown'
  BY DEF TypeOK, StoredIsKnown
<1>12. Consulting'
  BY DEF Consulting
<1>13. Chosen'
  BY DEF Chosen
<1>14. QED
  BY <1>1, <1>2, <1>3, <1>4, <1>5, <1>6, <1>7, <1>8, <1>9, <1>10, <1>11, <1>12, <1>13

\* A volume gets an object.
LEMMA DiscoverInv ==
    ASSUME RegistryInv, NEW v, NEW o, DiscoverAs(v, o)
    PROVE  RegistryInv'
<1> USE RegistryAssumption DEF RegistryInv, configVars, refresherVars,
      objectVars, attemptVars, agentVars, DiscoverAs, Free, ManagedOf,
      ObjectsOf
<1>1. TypeOK'
  <2>1. v \in Volumes /\ v # 0
    BY NamesAssumption DEF TypeOK
  <2>2. vol' \in [Objects -> Volumes \union {0}] /\ backingUp' \in [Objects -> BOOLEAN]
    BY <2>1 DEF TypeOK
  <2>3. date' \in [Objects -> Ages] /\ untold' \subseteq Volumes
    BY <2>1 DEF TypeOK, Ages
  <2>4. managed' \subseteq Objects /\ \A n \in managed' : vol'[n] # 0
    BY <2>1 DEF TypeOK
  <2>5. QED
    BY <2>2, <2>3, <2>4 DEF TypeOK
<1>2. Named'
  <2>1. v # 0
    BY NamesAssumption DEF TypeOK
  <2>2. \A n \in Objects : Referenced(n)' => n = o \/ Referenced(n)
    BY DEF Referenced
  <2>3. \A n \in Objects : vol'[n] = IF n = o THEN v ELSE vol[n]
    BY DEF TypeOK
  <2>4. QED
    BY <2>1, <2>2, <2>3 DEF Named
<1>3. Down'
  BY DEF Down
<1>4. Walking'
  BY DEF Walking
<1>5. Busy'
  BY DEF TypeOK, Busy
<1>6. Unique'
  BY DEF TypeOK, Unique
<1>7. Mutex'
  BY DEF TypeOK, Mutex
<1>8. Serving'
  BY DEF TypeOK, Serving
<1>9. Deployed'
  BY DEF TypeOK, Busy, Deployed
<1>10. Orphans'
  BY DEF TypeOK, Orphans
<1>11. StoredIsKnown'
  BY DEF TypeOK, StoredIsKnown
<1>12. Consulting'
  BY DEF Consulting
<1>13. Chosen'
  <2>1. \A n \in Objects : vol'[n] = IF n = o THEN v ELSE vol[n]
    BY DEF TypeOK
  <2>2. managed \subseteq Objects
    BY DEF TypeOK
  <2>3. QED
    BY <2>1, <2>2 DEF Chosen
<1>14. QED
  BY <1>1, <1>2, <1>3, <1>4, <1>5, <1>6, <1>7, <1>8, <1>9, <1>10, <1>11, <1>12, <1>13

\* Volumes that were not found are dropped.
LEMMA RemoveDeletedInv ==
    ASSUME RegistryInv, RemoveDeleted
    PROVE  RegistryInv'
<1> USE RegistryAssumption DEF RegistryInv, configVars, refresherVars,
      objectVars, attemptVars, agentVars, RemoveDeleted
<1>1. TypeOK'
  BY DEF TypeOK, Ages
<1>2. Named'
  BY DEF TypeOK, Named, Referenced
<1>3. Down'
  BY DEF Down
<1>4. Walking'
  BY DEF Walking
<1>5. Busy'
  BY DEF TypeOK, Busy
<1>6. Unique'
  BY DEF TypeOK, Unique
<1>7. Mutex'
  BY DEF TypeOK, Mutex
<1>8. Serving'
  BY DEF TypeOK, Serving
<1>9. Deployed'
  BY DEF TypeOK, Busy, Deployed
<1>10. Orphans'
  BY DEF TypeOK, Orphans
<1>11. StoredIsKnown'
  BY DEF TypeOK, StoredIsKnown
<1>12. Consulting'
  BY DEF Consulting
<1>13. Chosen'
  BY DEF Chosen
<1>14. QED
  BY <1>1, <1>2, <1>3, <1>4, <1>5, <1>6, <1>7, <1>8, <1>9, <1>10, <1>11, <1>12, <1>13

\* An orphan agent is looked up.
LEMMA ExamineOrphanInv ==
    ASSUME RegistryInv, NEW o \in Objects, ExamineOrphan(o)
    PROVE  RegistryInv'
<1> USE RegistryAssumption DEF RegistryInv, configVars, refresherVars,
      objectVars, attemptVars, agentVars, ExamineOrphan
<1>1. TypeOK'
  <2>1. backingUp' \in {backingUp, [backingUp EXCEPT ![o] = TRUE]}
    BY DEF TypeOK
  <2>2. backingUp' \in [Objects -> BOOLEAN]
    BY <2>1 DEF TypeOK
  <2>3. attached' \in [Objects -> 0..MaxAttachments]
    <3>1. CASE attached' = attached
      BY <3>1 DEF TypeOK
    <3>2. CASE attached' # attached
      <4>1. /\ attached[o] \in 0..MaxAttachments /\ attached[o] < MaxAttachments
            /\ attached' = [attached EXCEPT ![o] = attached[o] + 1]
        BY <3>2 DEF TypeOK
      <4>2. attached[o] + 1 \in 0..MaxAttachments
        BY <4>1
      <4>3. attached \in [Objects -> 0..MaxAttachments]
        BY DEF TypeOK
      <4>4. QED
        BY <4>1, <4>2, <4>3
    <3>3. QED
      BY <3>1, <3>2
  <2>4. QED
    BY <2>2, <2>3 DEF TypeOK
<1>2. Named'
  BY DEF TypeOK, Named, Referenced
<1>3. Down'
  BY DEF Down
<1>4. Walking'
  BY DEF Walking
<1>5. Busy'
  BY DEF TypeOK, Busy
<1>6. Unique'
  BY DEF TypeOK, Unique
<1>7. Mutex'
  BY DEF TypeOK, Mutex
<1>8. Serving'
  BY DEF TypeOK, Serving
<1>9. Deployed'
  BY DEF TypeOK, Busy, Deployed
<1>10. Orphans'
  <2>1. vol[o] \in Volumes
    BY DEF TypeOK, Named, Referenced
  <2>2. orphan[vol[o]] = NoAgent \/ orphan[vol[o]] \in Agents
    BY <2>1 DEF TypeOK
  <2>3. \A n \in Objects :
            attached'[n] > 0 => attached[n] > 0 \/ (n = o /\ orphan[vol[o]] # NoAgent)
    BY DEF TypeOK
  <2>4. QED
    BY <2>2, <2>3 DEF Orphans
<1>11. StoredIsKnown'
  BY DEF TypeOK, StoredIsKnown
<1>12. Consulting'
  BY DEF Consulting
<1>13. Chosen'
  BY DEF Chosen
<1>14. QED
  BY <1>1, <1>2, <1>3, <1>4, <1>5, <1>6, <1>7, <1>8, <1>9, <1>10, <1>11, <1>12, <1>13

\* A volume that is due is queued.
LEMMA ExamineDueInv ==
    ASSUME RegistryInv, ExamineDue
    PROVE  RegistryInv'
<1> USE RegistryAssumption DEF RegistryInv, configVars, refresherVars,
      objectVars, attemptVars, agentVars, ExamineDue, Actors
<1>1. TypeOK'
  BY DEF TypeOK, Ages
<1>2. Named'
  BY DEF TypeOK, Named, Referenced
<1>3. Down'
  BY DEF Down
<1>4. Walking'
  BY DEF Walking
<1>5. Busy'
  <2>1. cur \in Objects
    BY DEF Walking
  <2>2. \A a \in Actors : (pc'[a] = pc[a] /\ target'[a] = target[a]) \/ target'[a] = cur
    BY <2>1 DEF TypeOK
  <2>3. QED
    BY <2>1, <2>2 DEF Busy
<1>6. Unique'
  BY DEF TypeOK, Unique
<1>7. Mutex'
  BY DEF TypeOK, Mutex
<1>8. Serving'
  BY DEF TypeOK, Serving
<1>9. Deployed'
  BY DEF TypeOK, Busy, Deployed
<1>10. Orphans'
  BY DEF TypeOK, Orphans
<1>11. StoredIsKnown'
  BY DEF TypeOK, StoredIsKnown
<1>12. Consulting'
  BY DEF Consulting
<1>13. Chosen'
  BY DEF Chosen
<1>14. QED
  BY <1>1, <1>2, <1>3, <1>4, <1>5, <1>6, <1>7, <1>8, <1>9, <1>10, <1>11, <1>12, <1>13

\* The round is over.
LEMMA EndRoundInv ==
    ASSUME RegistryInv, EndRound
    PROVE  RegistryInv'
<1> USE RegistryAssumption DEF RegistryInv, configVars, refresherVars,
      objectVars, attemptVars, agentVars, EndRound
<1>1. TypeOK'
  BY DEF TypeOK, Ages
<1>2. Named'
  BY DEF TypeOK, Named, Referenced
<1>3. Down'
  BY DEF Down
<1>4. Walking'
  BY DEF Walking
<1>5. Busy'
  BY DEF TypeOK, Busy
<1>6. Unique'
  BY DEF TypeOK, Unique
<1>7. Mutex'
  BY DEF TypeOK, Mutex
<1>8. Serving'
  BY DEF TypeOK, Serving
<1>9. Deployed'
  BY DEF TypeOK, Busy, Deployed
<1>10. Orphans'
  BY DEF TypeOK, Orphans
<1>11. StoredIsKnown'
  BY DEF TypeOK, StoredIsKnown
<1>12. Consulting'
  BY DEF Consulting
<1>13. Chosen'
  BY DEF Chosen
<1>14. QED
  BY <1>1, <1>2, <1>3, <1>4, <1>5, <1>6, <1>7, <1>8, <1>9, <1>10, <1>11, <1>12, <1>13

-----------------------------------------------------------------------------
(* Attempts *)

LEMMA TargetOf ==
    ASSUME RegistryInv, NEW a \in Actors, pc[a] # "idle"
    PROVE  target[a] \in Objects /\ vol[target[a]] \in Volumes
<1>1. target[a] \in Objects
  BY DEF RegistryInv, Busy
<1>2. QED
  BY <1>1 DEF RegistryInv, TypeOK, Named, Referenced

\* A worker takes an object.
LEMMA BeginInv ==
    ASSUME RegistryInv, NEW a \in Actors, Begin(a)
    PROVE  RegistryInv'
<1> USE RegistryAssumption DEF RegistryInv, configVars, refresherVars,
      objectVars, attemptVars, agentVars, Begin, Marks
<1>1. TypeOK'
  BY DEF TypeOK, Ages
<1>2. Named'
  BY DEF TypeOK, Named, Referenced
<1>3. Down'
  BY DEF Down
<1>4. Walking'
  BY DEF Walking
<1>5. Busy'
  BY DEF TypeOK, Busy
<1>6. Unique'
  BY DEF TypeOK, Unique
<1>7. Mutex'
  BY DEF TypeOK, Mutex
<1>8. Serving'
  BY DEF TypeOK, Serving
<1>9. Deployed'
  BY DEF TypeOK, Busy, Deployed
<1>10. Orphans'
  BY DEF TypeOK, Orphans
<1>11. StoredIsKnown'
  BY DEF TypeOK, StoredIsKnown
<1>12. Consulting'
  BY DEF Consulting
<1>13. Chosen'
  BY DEF Chosen
<1>14. QED
  BY <1>1, <1>2, <1>3, <1>4, <1>5, <1>6, <1>7, <1>8, <1>9, <1>10, <1>11, <1>12, <1>13

\* The dispatcher drops an object.
LEMMA DroppedInv ==
    ASSUME RegistryInv, NEW a \in Actors, Dropped(a)
    PROVE  RegistryInv'
<1> USE RegistryAssumption DEF RegistryInv, configVars, refresherVars,
      objectVars, attemptVars, agentVars, Dropped
<1>1. TypeOK'
  BY DEF TypeOK, Ages
<1>2. Named'
  BY DEF TypeOK, Named, Referenced
<1>3. Down'
  BY DEF Down
<1>4. Walking'
  BY DEF Walking
<1>5. Busy'
  BY DEF TypeOK, Busy
<1>6. Unique'
  BY DEF TypeOK, Unique
<1>7. Mutex'
  BY DEF TypeOK, Mutex
<1>8. Serving'
  BY DEF TypeOK, Serving
<1>9. Deployed'
  BY DEF TypeOK, Busy, Deployed
<1>10. Orphans'
  BY DEF TypeOK, Orphans
<1>11. StoredIsKnown'
  BY DEF TypeOK, StoredIsKnown
<1>12. Consulting'
  BY DEF Consulting
<1>13. Chosen'
  BY DEF Chosen
<1>14. QED
  BY <1>1, <1>2, <1>3, <1>4, <1>5, <1>6, <1>7, <1>8, <1>9, <1>10, <1>11, <1>12, <1>13

\* A backup is asked for.
LEMMA RequestInv ==
    ASSUME RegistryInv, NEW r \in Requests, NEW o \in Objects, Request(r, o)
    PROVE  RegistryInv'
<1> USE RegistryAssumption DEF RegistryInv, configVars, refresherVars,
      objectVars, attemptVars, agentVars, Request, Marks, Actors
<1>1. TypeOK'
  BY DEF TypeOK, Ages
<1>2. Named'
  BY DEF TypeOK, Named, Referenced
<1>3. Down'
  BY DEF Down
<1>4. Walking'
  BY DEF Walking
<1>5. Busy'
  BY DEF TypeOK, Busy
<1>6. Unique'
  BY DEF TypeOK, Unique
<1>7. Mutex'
  BY DEF TypeOK, Mutex
<1>8. Serving'
  BY DEF TypeOK, Serving
<1>9. Deployed'
  BY DEF TypeOK, Busy, Deployed
<1>10. Orphans'
  BY DEF TypeOK, Orphans
<1>11. StoredIsKnown'
  BY DEF TypeOK, StoredIsKnown
<1>12. Consulting'
  BY DEF Consulting
<1>13. Chosen'
  BY DEF Chosen
<1>14. QED
  BY <1>1, <1>2, <1>3, <1>4, <1>5, <1>6, <1>7, <1>8, <1>9, <1>10, <1>11, <1>12, <1>13

\* The mutex is taken.
LEMMA LockInv ==
    ASSUME RegistryInv, NEW a \in Actors, Lock(a)
    PROVE  RegistryInv'
<1> USE RegistryAssumption DEF RegistryInv, configVars, refresherVars,
      objectVars, attemptVars, agentVars, Lock
<1>1. TypeOK'
  BY DEF TypeOK, Ages
<1>2. Named'
  BY DEF TypeOK, Named, Referenced
<1>3. Down'
  BY DEF Down
<1>4. Walking'
  BY DEF Walking
<1>5. Busy'
  BY DEF TypeOK, Busy
<1>6. Unique'
  BY DEF TypeOK, Unique
<1>7. Mutex'
  BY DEF TypeOK, Mutex
<1>8. Serving'
  BY DEF TypeOK, Serving
<1>9. Deployed'
  BY DEF TypeOK, Busy, Deployed
<1>10. Orphans'
  BY DEF TypeOK, Orphans
<1>11. StoredIsKnown'
  BY DEF TypeOK, StoredIsKnown
<1>12. Consulting'
  BY DEF Consulting
<1>13. Chosen'
  BY DEF Chosen
<1>14. QED
  BY <1>1, <1>2, <1>3, <1>4, <1>5, <1>6, <1>7, <1>8, <1>9, <1>10, <1>11, <1>12, <1>13

\* An agent is deployed.
LEMMA DeployInv ==
    ASSUME RegistryInv, NEW a \in Actors, NEW g, DeployAs(a, g)
    PROVE  RegistryInv'
<1> USE RegistryAssumption DEF RegistryInv, configVars, refresherVars,
      objectVars, attemptVars, agentVars, DeployAs
<1>1. TypeOK'
  <2>1. target[a] \in Objects /\ vol[target[a]] \in Volumes
    BY TargetOf
  <2>2. agent' \in [Agents -> {"none", "running", "stored", "done", "told"}]
    BY DEF TypeOK
  <2>3. mounts' \in [Agents -> Volumes \union {0}]
    BY <2>1 DEF TypeOK
  <2>4. exists' \in [Volumes -> BOOLEAN]
    <3>1. exists' = [exists EXCEPT ![vol[target[a]]] =
                        exists[vol[target[a]]] \/ orchestrator = "docker"]
      OBVIOUS
    <3>2. (exists[vol[target[a]]] \/ orchestrator = "docker") \in BOOLEAN
      OBVIOUS
    <3>3. exists \in [Volumes -> BOOLEAN]
      BY DEF TypeOK
    <3>4. QED
      BY <3>1, <3>2, <3>3, Zenon
  <2>5. pc' \in [Actors -> {"idle", "queued", "wait", "locked", "agent"}]
    BY DEF TypeOK
  <2>6. with' \in [Actors -> Agents \union {NoAgent}]
    BY DEF TypeOK
  <2>7. QED
    BY <2>2, <2>3, <2>4, <2>5, <2>6 DEF TypeOK
<1>2. Named'
  BY DEF TypeOK, Named, Referenced
<1>3. Down'
  BY DEF Down
<1>4. Walking'
  BY DEF Walking
<1>5. Busy'
  BY DEF TypeOK, Busy
<1>6. Unique'
  BY DEF TypeOK, Unique
<1>7. Mutex'
  BY DEF TypeOK, Mutex
<1>8. Serving'
  BY TargetOf DEF TypeOK, Serving
<1>9. Deployed'
  BY DEF TypeOK, Busy, Deployed
<1>10. Orphans'
  BY DEF TypeOK, Orphans
<1>11. StoredIsKnown'
  BY DEF TypeOK, StoredIsKnown
<1>12. Consulting'
  BY DEF Consulting
<1>13. Chosen'
  BY DEF Chosen
<1>14. QED
  BY <1>1, <1>2, <1>3, <1>4, <1>5, <1>6, <1>7, <1>8, <1>9, <1>10, <1>11, <1>12, <1>13

\* No agent is deployed.
LEMMA DeployFailsInv ==
    ASSUME RegistryInv, NEW a \in Actors, DeployFails(a)
    PROVE  RegistryInv'
<1> USE RegistryAssumption DEF RegistryInv, configVars, refresherVars,
      objectVars, attemptVars, agentVars, DeployFails, Leaves
<1>1. TypeOK'
  BY DEF TypeOK, Ages
<1>2. Named'
  BY DEF TypeOK, Named, Referenced
<1>3. Down'
  BY DEF Down
<1>4. Walking'
  BY DEF Walking
<1>5. Busy'
  BY DEF TypeOK, Busy
<1>6. Unique'
  BY DEF TypeOK, Unique
<1>7. Mutex'
  BY DEF TypeOK, Mutex
<1>8. Serving'
  BY DEF TypeOK, Serving
<1>9. Deployed'
  BY DEF TypeOK, Busy, Deployed
<1>10. Orphans'
  BY DEF TypeOK, Orphans
<1>11. StoredIsKnown'
  BY DEF TypeOK, StoredIsKnown
<1>12. Consulting'
  BY DEF Consulting
<1>13. Chosen'
  BY DEF Chosen
<1>14. QED
  BY <1>1, <1>2, <1>3, <1>4, <1>5, <1>6, <1>7, <1>8, <1>9, <1>10, <1>11, <1>12, <1>13

\* The output of agent g has been taken for o, and its container is gone.
OutputKnown(o, g) ==
    /\ Ended(g) /\ Output(o, g) /\ Forgets(g)
    /\ UNCHANGED <<receiver, repo, managed, vol>>

LEMMA KnownAfterOutput ==
    ASSUME RegistryInv, NEW o \in Objects, NEW g \in Agents, mounts[g] = vol[o], OutputKnown(o, g)
    PROVE  StoredIsKnown'
<1> USE DEF RegistryInv, OutputKnown
<1> SUFFICES ASSUME NEW n \in managed, repo[vol[n]] = "recent", date'[n] # "recent",
                    vol[n] \notin untold'
             PROVE  \E h \in Agents : agent'[h] \in {"stored", "done"} /\ mounts'[h] = vol[n]
  BY DEF StoredIsKnown
<1>1. /\ n \in Objects /\ date \in [Objects -> Ages]
      /\ agent \in [Agents -> {"none", "running", "stored", "done", "told"}]
      /\ mounts \in [Agents -> Volumes \union {0}]
  BY DEF TypeOK
<1>2. date[n] # "recent" /\ vol[n] \notin untold /\ (agent[g] = "done" => vol[n] # vol[o])
  <2>1. CASE receiver
    BY <2>1 DEF Output, Ended
  <2>2. CASE ~receiver /\ Told(o)
    BY <1>1, <2>2 DEF Told, Unique
  <2>3. CASE ~receiver /\ Lost(vol[o])
    BY <1>1, <2>3 DEF Lost
  <2>4. QED
    BY <2>1, <2>2, <2>3 DEF Output
<1>3. PICK h \in Agents : agent[h] \in {"stored", "done"} /\ mounts[h] = vol[n]
  BY <1>2 DEF StoredIsKnown
<1>4. h # g
  BY <1>2, <1>3 DEF Ended
<1>5. agent'[h] \in {"stored", "done"} /\ mounts'[h] = vol[n]
  BY <1>1, <1>3, <1>4 DEF Forgets
<1>6. QED
  BY <1>5

\* The container of agent g has been removed.
RemovalKnown(g) == Removed(g) /\ UNCHANGED <<repo, managed, vol, date>>

LEMMA KnownAfterRemoval ==
    ASSUME RegistryInv, NEW g \in Agents, RemovalKnown(g)
    PROVE  StoredIsKnown'
<1> USE DEF RegistryInv, RemovalKnown, Removed
<1> SUFFICES ASSUME NEW n \in managed, repo[vol[n]] = "recent", date[n] # "recent",
                    vol[n] \notin untold'
             PROVE  \E h \in Agents : agent'[h] \in {"stored", "done"} /\ mounts'[h] = vol[n]
  BY DEF StoredIsKnown
<1>1. PICK h \in Agents : agent[h] \in {"stored", "done"} /\ mounts[h] = vol[n]
  BY DEF StoredIsKnown
<1>2. h # g
  BY <1>1
<1>3. agent'[h] \in {"stored", "done"} /\ mounts'[h] = vol[n]
  BY <1>1, <1>2 DEF TypeOK, Forgets
<1>4. QED
  BY <1>3

\* An attachment that has returned.
LEMMA DetachedType ==
    ASSUME RegistryInv, NEW o \in Objects, Detaches(o)
    PROVE  /\ backingUp' \in [Objects -> BOOLEAN]
           /\ attached' \in [Objects -> 0..MaxAttachments]
<1>1. attached \in [Objects -> 0..MaxAttachments] /\ attached[o] \in 0..MaxAttachments
  BY DEF RegistryInv, TypeOK
<1>2. attached[o] - 1 \in 0..MaxAttachments
  BY <1>1, RegistryAssumption DEF Detaches
<1>3. attached' \in [Objects -> 0..MaxAttachments]
  BY <1>1, <1>2 DEF Detaches
<1>4. QED
  BY <1>3 DEF Detaches, RegistryInv, TypeOK

\* An agent is lost.
LEMMA AgentFailsInv ==
    ASSUME RegistryInv, NEW a \in Actors, AgentFails(a)
    PROVE  RegistryInv'
<1> USE RegistryAssumption DEF RegistryInv, configVars, refresherVars,
      objectVars, attemptVars, agentVars, AgentFails, Leaves, Removed, Forgets
<1>1. TypeOK'
  <2>1. target[a] \in Objects /\ with[a] \in Agents /\ mounts[with[a]] \in Volumes
    BY TargetOf DEF Deployed, Serving
  <2>2. untold' \subseteq Volumes
    BY <2>1 DEF TypeOK
  <2>3. /\ pc' \in [Actors -> {"idle", "queued", "wait", "locked", "agent"}]
        /\ target' \in [Actors -> Objects \union {NoObject}]
        /\ with' \in [Actors -> Agents \union {NoAgent}]
    BY DEF TypeOK
  <2>4. backingUp' \in [Objects -> BOOLEAN]
    BY <2>1 DEF TypeOK
  <2>5. /\ agent' \in [Agents -> {"none", "running", "stored", "done", "told"}]
        /\ mounts' \in [Agents -> Volumes \union {0}]
    BY <2>1 DEF TypeOK
  <2>6. QED
    BY <2>2, <2>3, <2>4, <2>5 DEF TypeOK
<1>2. Named'
  BY DEF TypeOK, Named, Referenced
<1>3. Down'
  BY DEF Down
<1>4. Walking'
  BY DEF Walking
<1>5. Busy'
  BY DEF TypeOK, Busy
<1>6. Unique'
  BY DEF TypeOK, Unique
<1>7. Mutex'
  BY DEF TypeOK, Mutex
<1>8. Serving'
  BY DEF TypeOK, Serving
<1>9. Deployed'
  BY DEF TypeOK, Busy, Deployed
<1>10. Orphans'
  BY DEF TypeOK, Orphans
<1>11. StoredIsKnown'
  <2>1. with[a] \in Agents
    BY DEF Deployed
  <2>2. QED
    BY <2>1, KnownAfterRemoval DEF RemovalKnown, Removed, Forgets
<1>12. Consulting'
  BY DEF Consulting
<1>13. Chosen'
  BY DEF Chosen
<1>14. QED
  BY <1>1, <1>2, <1>3, <1>4, <1>5, <1>6, <1>7, <1>8, <1>9, <1>10, <1>11, <1>12, <1>13

\* The agent of an attempt has ended.
LEMMA CollectInv ==
    ASSUME RegistryInv, NEW a \in Actors, Collect(a)
    PROVE  RegistryInv'
<1> USE RegistryAssumption DEF RegistryInv, configVars, refresherVars,
      objectVars, attemptVars, agentVars, Collect, Leaves, Forgets, Output,
      Told, Lost
<1>1. TypeOK'
  <2>1. target[a] \in Objects /\ vol[target[a]] \in Volumes /\ with[a] \in Agents
    BY TargetOf DEF Deployed
  <2>2. date' \in [Objects -> Ages] /\ untold' \subseteq Volumes
    BY <2>1 DEF TypeOK, Ages
  <2>3. /\ pc' \in [Actors -> {"idle", "queued", "wait", "locked", "agent"}]
        /\ target' \in [Actors -> Objects \union {NoObject}]
        /\ with' \in [Actors -> Agents \union {NoAgent}]
    BY DEF TypeOK
  <2>4. backingUp' \in [Objects -> BOOLEAN]
    BY <2>1 DEF TypeOK
  <2>5. /\ agent' \in [Agents -> {"none", "running", "stored", "done", "told"}]
        /\ mounts' \in [Agents -> Volumes \union {0}]
    BY <2>1 DEF TypeOK
  <2>6. QED
    BY <2>2, <2>3, <2>4, <2>5 DEF TypeOK
<1>2. Named'
  BY DEF TypeOK, Named, Referenced
<1>3. Down'
  BY DEF Down
<1>4. Walking'
  BY DEF Walking
<1>5. Busy'
  BY DEF TypeOK, Busy
<1>6. Unique'
  BY DEF TypeOK, Unique
<1>7. Mutex'
  BY DEF TypeOK, Mutex
<1>8. Serving'
  BY DEF TypeOK, Serving
<1>9. Deployed'
  BY DEF TypeOK, Busy, Deployed
<1>10. Orphans'
  BY DEF TypeOK, Orphans
<1>11. StoredIsKnown'
  <2>1. /\ target[a] \in Objects /\ with[a] \in Agents
        /\ mounts[with[a]] = vol[target[a]]
    BY TargetOf DEF Deployed
  <2>2. OutputKnown(target[a], with[a])
    BY DEF OutputKnown
  <2>3. QED
    BY <2>1, <2>2, KnownAfterOutput
<1>12. Consulting'
  BY DEF Consulting
<1>13. Chosen'
  BY DEF Chosen
<1>14. QED
  BY <1>1, <1>2, <1>3, <1>4, <1>5, <1>6, <1>7, <1>8, <1>9, <1>10, <1>11, <1>12, <1>13

\* An orphan agent has ended.
LEMMA AttachEndsInv ==
    ASSUME RegistryInv, NEW o \in Objects, AttachEnds(o)
    PROVE  RegistryInv'
<1> USE RegistryAssumption DEF RegistryInv, configVars, refresherVars,
      objectVars, attemptVars, agentVars, AttachEnds, Detaches, Forgets,
      Output, Told, Lost
<1>1. TypeOK'
  <2>1. vol[o] \in Volumes /\ orphan[vol[o]] \in Agents
    BY DEF TypeOK, Named, Referenced, Orphans
  <2>2. date' \in [Objects -> Ages] /\ untold' \subseteq Volumes
    BY <2>1 DEF TypeOK, Ages
  <2>3. /\ agent' \in [Agents -> {"none", "running", "stored", "done", "told"}]
        /\ mounts' \in [Agents -> Volumes \union {0}]
    BY <2>1 DEF TypeOK
  <2>4. backingUp' \in [Objects -> BOOLEAN] /\ attached' \in [Objects -> 0..MaxAttachments]
    BY DetachedType DEF Detaches
  <2>5. QED
    BY <2>2, <2>3, <2>4 DEF TypeOK
<1>2. Named'
  BY DEF TypeOK, Named, Referenced
<1>3. Down'
  BY DEF Down
<1>4. Walking'
  BY DEF Walking
<1>5. Busy'
  BY DEF TypeOK, Busy
<1>6. Unique'
  BY DEF TypeOK, Unique
<1>7. Mutex'
  BY DEF TypeOK, Mutex
<1>8. Serving'
  BY DEF TypeOK, Serving
<1>9. Deployed'
  <2>1. vol[o] \in Volumes /\ orphan[vol[o]] \in Agents
    BY DEF TypeOK, Named, Referenced, Orphans
  <2>2. \A g \in Agents : g # orphan[vol[o]] => agent'[g] = agent[g] /\ mounts'[g] = mounts[g]
    BY <2>1 DEF TypeOK
  <2>3. QED
    BY <2>1, <2>2 DEF Deployed
<1>10. Orphans'
  BY DEF TypeOK, Orphans
<1>11. StoredIsKnown'
  <2>1. vol[o] \in Volumes /\ orphan[vol[o]] \in Agents
    BY DEF TypeOK, Named, Referenced, Orphans
  <2>2. agent[orphan[vol[o]]] # "none"
    BY DEF Ended
  <2>3. mounts[orphan[vol[o]]] = vol[o]
    BY <2>1, <2>2 DEF Orphans
  <2>4. QED
    BY <2>1, <2>3, KnownAfterOutput DEF OutputKnown
<1>12. Consulting'
  BY DEF Consulting
<1>13. Chosen'
  BY DEF Chosen
<1>14. QED
  BY <1>1, <1>2, <1>3, <1>4, <1>5, <1>6, <1>7, <1>8, <1>9, <1>10, <1>11, <1>12, <1>13

\* An attachment fails.
LEMMA AttachFailsInv ==
    ASSUME RegistryInv, NEW o \in Objects, AttachFails(o)
    PROVE  RegistryInv'
<1> USE RegistryAssumption DEF RegistryInv, configVars, refresherVars,
      objectVars, attemptVars, agentVars, AttachFails, Detaches, Removed,
      Forgets
<1>1. TypeOK'
  <2>1. vol[o] \in Volumes /\ orphan[vol[o]] \in Agents
    BY DEF TypeOK, Named, Referenced, Orphans
  <2>2. untold' \subseteq Volumes
    BY <2>1 DEF TypeOK, Serving
  <2>3. /\ agent' \in [Agents -> {"none", "running", "stored", "done", "told"}]
        /\ mounts' \in [Agents -> Volumes \union {0}]
    BY <2>1 DEF TypeOK
  <2>4. backingUp' \in [Objects -> BOOLEAN] /\ attached' \in [Objects -> 0..MaxAttachments]
    BY DetachedType DEF Detaches
  <2>5. QED
    BY <2>2, <2>3, <2>4 DEF TypeOK
<1>2. Named'
  BY DEF TypeOK, Named, Referenced
<1>3. Down'
  BY DEF Down
<1>4. Walking'
  BY DEF Walking
<1>5. Busy'
  BY DEF TypeOK, Busy
<1>6. Unique'
  BY DEF TypeOK, Unique
<1>7. Mutex'
  BY DEF TypeOK, Mutex
<1>8. Serving'
  BY DEF TypeOK, Serving
<1>9. Deployed'
  <2>1. vol[o] \in Volumes /\ orphan[vol[o]] \in Agents
    BY DEF TypeOK, Named, Referenced, Orphans
  <2>2. \A g \in Agents : g # orphan[vol[o]] => agent'[g] = agent[g] /\ mounts'[g] = mounts[g]
    BY <2>1 DEF TypeOK
  <2>3. QED
    BY <2>1, <2>2 DEF Deployed
<1>10. Orphans'
  BY DEF TypeOK, Orphans
<1>11. StoredIsKnown'
  <2>1. vol[o] \in Volumes /\ orphan[vol[o]] \in Agents
    BY DEF TypeOK, Named, Referenced, Orphans
  <2>2. CASE UNCHANGED <<untold, agentVars>>
    BY <2>2 DEF StoredIsKnown
  <2>3. CASE Removed(orphan[vol[o]])
    BY <2>1, <2>3, KnownAfterRemoval DEF RemovalKnown
  <2>4. QED
    BY <2>2, <2>3
<1>12. Consulting'
  BY DEF Consulting
<1>13. Chosen'
  BY DEF Chosen
<1>14. QED
  BY <1>1, <1>2, <1>3, <1>4, <1>5, <1>6, <1>7, <1>8, <1>9, <1>10, <1>11, <1>12, <1>13

-----------------------------------------------------------------------------
(* Agents *)

\* A snapshot is stored.
LEMMA StoresInv ==
    ASSUME RegistryInv, NEW g \in Agents, Stores(g)
    PROVE  RegistryInv'
<1> USE RegistryAssumption DEF RegistryInv, configVars, refresherVars,
      objectVars, attemptVars, agentVars, Stores
<1>1. TypeOK'
  <2>1. mounts[g] \in Volumes
    BY DEF Serving
  <2>2. repo' \in [Volumes -> Ages]
    BY <2>1 DEF TypeOK, Ages
  <2>3. agent' \in [Agents -> {"none", "running", "stored", "done", "told"}]
    BY DEF TypeOK
  <2>4. QED
    BY <2>2, <2>3 DEF TypeOK
<1>2. Named'
  BY DEF TypeOK, Named, Referenced
<1>3. Down'
  BY DEF Down
<1>4. Walking'
  BY DEF Walking
<1>5. Busy'
  BY DEF TypeOK, Busy
<1>6. Unique'
  BY DEF TypeOK, Unique
<1>7. Mutex'
  BY DEF TypeOK, Mutex
<1>8. Serving'
  BY DEF TypeOK, Serving
<1>9. Deployed'
  BY DEF TypeOK, Busy, Deployed
<1>10. Orphans'
  BY DEF TypeOK, Orphans
<1>11. StoredIsKnown'
  BY DEF TypeOK, StoredIsKnown
<1>12. Consulting'
  BY DEF Consulting
<1>13. Chosen'
  BY DEF Chosen
<1>14. QED
  BY <1>1, <1>2, <1>3, <1>4, <1>5, <1>6, <1>7, <1>8, <1>9, <1>10, <1>11, <1>12, <1>13

\* An agent is done.
LEMMA FinishesInv ==
    ASSUME RegistryInv, NEW g \in Agents, Finishes(g)
    PROVE  RegistryInv'
<1> USE RegistryAssumption DEF RegistryInv, configVars, refresherVars,
      objectVars, attemptVars, agentVars, Finishes
<1>1. TypeOK'
  BY DEF TypeOK, Ages
<1>2. Named'
  BY DEF TypeOK, Named, Referenced
<1>3. Down'
  BY DEF Down
<1>4. Walking'
  BY DEF Walking
<1>5. Busy'
  BY DEF TypeOK, Busy
<1>6. Unique'
  BY DEF TypeOK, Unique
<1>7. Mutex'
  BY DEF TypeOK, Mutex
<1>8. Serving'
  BY DEF TypeOK, Serving
<1>9. Deployed'
  BY DEF TypeOK, Busy, Deployed
<1>10. Orphans'
  BY DEF TypeOK, Orphans
<1>11. StoredIsKnown'
  BY DEF TypeOK, StoredIsKnown
<1>12. Consulting'
  BY DEF Consulting
<1>13. Chosen'
  BY DEF Chosen
<1>14. QED
  BY <1>1, <1>2, <1>3, <1>4, <1>5, <1>6, <1>7, <1>8, <1>9, <1>10, <1>11, <1>12, <1>13

\* A report arrives.
LEMMA GetBackupLogsInv ==
    ASSUME RegistryInv, NEW g \in Agents, GetBackupLogs(g)
    PROVE  RegistryInv'
<1> USE RegistryAssumption DEF RegistryInv, configVars, refresherVars,
      objectVars, attemptVars, agentVars, GetBackupLogs, Told, Lost, ManagedOf,
      ObjectsOf
<1>1. TypeOK'
  <2>1. mounts[g] \in Volumes
    BY DEF Serving
  <2>2. \A o \in managed : o \in Objects /\ vol[o] \in Volumes
    BY DEF TypeOK
  <2>3. date' \in [Objects -> Ages] /\ untold' \subseteq Volumes
    BY <2>1, <2>2 DEF TypeOK, Ages
  <2>4. agent' \in [Agents -> {"none", "running", "stored", "done", "told"}]
    BY DEF TypeOK
  <2>5. QED
    BY <2>3, <2>4 DEF TypeOK
<1>2. Named'
  BY DEF TypeOK, Named, Referenced
<1>3. Down'
  BY DEF Down
<1>4. Walking'
  BY DEF Walking
<1>5. Busy'
  BY DEF TypeOK, Busy
<1>6. Unique'
  BY DEF TypeOK, Unique
<1>7. Mutex'
  BY DEF TypeOK, Mutex
<1>8. Serving'
  BY DEF TypeOK, Serving
<1>9. Deployed'
  BY DEF TypeOK, Busy, Deployed
<1>10. Orphans'
  BY DEF TypeOK, Orphans
<1>11. StoredIsKnown'
  <2> SUFFICES ASSUME NEW o \in managed, repo[vol[o]] = "recent", date'[o] # "recent",
                      vol[o] \notin untold'
               PROVE  \E h \in Agents : agent'[h] \in {"stored", "done"} /\ mounts[h] = vol[o]
    BY DEF StoredIsKnown
  <2>1. o \in Objects /\ date \in [Objects -> Ages]
    BY DEF TypeOK
  <2>2. vol[o] # mounts[g]
    BY <2>1 DEF Unique
  <2>3. date[o] # "recent" /\ vol[o] \notin untold
    BY <2>1, <2>2
  <2>4. PICK h \in Agents : agent[h] \in {"stored", "done"} /\ mounts[h] = vol[o]
    BY <2>3 DEF StoredIsKnown
  <2>5. agent'[h] \in {"stored", "done"}
    BY <2>2, <2>4 DEF TypeOK
  <2>6. QED
    BY <2>4, <2>5
<1>12. Consulting'
  BY DEF Consulting
<1>13. Chosen'
  BY DEF Chosen
<1>14. QED
  BY <1>1, <1>2, <1>3, <1>4, <1>5, <1>6, <1>7, <1>8, <1>9, <1>10, <1>11, <1>12, <1>13

\* A report is lost.
LEMMA PostLostInv ==
    ASSUME RegistryInv, NEW g \in Agents, PostLost(g)
    PROVE  RegistryInv'
<1> USE RegistryAssumption DEF RegistryInv, configVars, refresherVars,
      objectVars, attemptVars, agentVars, PostLost, Lost
<1>1. TypeOK'
  <2>1. mounts[g] \in Volumes
    BY DEF Serving
  <2>2. untold' \subseteq Volumes /\ agent' \in [Agents -> {"none", "running", "stored", "done", "told"}]
    BY <2>1 DEF TypeOK
  <2>3. QED
    BY <2>2 DEF TypeOK
<1>2. Named'
  BY DEF TypeOK, Named, Referenced
<1>3. Down'
  BY DEF Down
<1>4. Walking'
  BY DEF Walking
<1>5. Busy'
  BY DEF TypeOK, Busy
<1>6. Unique'
  BY DEF TypeOK, Unique
<1>7. Mutex'
  BY DEF TypeOK, Mutex
<1>8. Serving'
  BY DEF TypeOK, Serving
<1>9. Deployed'
  BY DEF TypeOK, Busy, Deployed
<1>10. Orphans'
  BY DEF TypeOK, Orphans
<1>11. StoredIsKnown'
  BY DEF TypeOK, StoredIsKnown
<1>12. Consulting'
  BY DEF Consulting
<1>13. Chosen'
  BY DEF Chosen
<1>14. QED
  BY <1>1, <1>2, <1>3, <1>4, <1>5, <1>6, <1>7, <1>8, <1>9, <1>10, <1>11, <1>12, <1>13

\* A container is removed.
LEMMA VanishInv ==
    ASSUME RegistryInv, NEW g \in Agents, Vanish(g)
    PROVE  RegistryInv'
<1> USE RegistryAssumption DEF RegistryInv, configVars, refresherVars,
      objectVars, attemptVars, agentVars, Vanish, Removed, Forgets, Ended
<1>1. TypeOK'
  <2>1. mounts[g] \in Volumes
    BY DEF Serving
  <2>2. untold' \subseteq Volumes
    BY <2>1 DEF TypeOK
  <2>3. /\ agent' \in [Agents -> {"none", "running", "stored", "done", "told"}]
        /\ mounts' \in [Agents -> Volumes \union {0}]
    BY DEF TypeOK
  <2>4. QED
    BY <2>2, <2>3 DEF TypeOK
<1>2. Named'
  BY DEF TypeOK, Named, Referenced
<1>3. Down'
  BY DEF Down
<1>4. Walking'
  BY DEF Walking
<1>5. Busy'
  BY DEF TypeOK, Busy
<1>6. Unique'
  BY DEF TypeOK, Unique
<1>7. Mutex'
  BY DEF TypeOK, Mutex
<1>8. Serving'
  BY DEF TypeOK, Serving
<1>9. Deployed'
  BY DEF TypeOK, Busy, Deployed
<1>10. Orphans'
  BY DEF TypeOK, Orphans
<1>11. StoredIsKnown'
  BY DEF TypeOK, StoredIsKnown
<1>12. Consulting'
  BY DEF Consulting
<1>13. Chosen'
  BY DEF Chosen
<1>14. QED
  BY <1>1, <1>2, <1>3, <1>4, <1>5, <1>6, <1>7, <1>8, <1>9, <1>10, <1>11, <1>12, <1>13

-----------------------------------------------------------------------------
(* The rest of the world *)

\* The manager dies.
LEMMA CrashInv ==
    ASSUME RegistryInv, Crash
    PROVE  RegistryInv'
<1> USE RegistryAssumption DEF RegistryInv, configVars, refresherVars,
      objectVars, attemptVars, agentVars, Crash, Blank
<1>1. TypeOK'
  <2>1. 0 \in 0..MaxAttachments
    OBVIOUS
  <2>2. attached' \in [Objects -> 0..MaxAttachments]
    BY <2>1
  <2>3. lists' \in Lists
    BY DEF TypeOK
  <2>4. QED
    BY <2>2, <2>3 DEF TypeOK, Ages
<1>2. Named'
  BY DEF TypeOK, Named, Referenced
<1>3. Down'
  BY DEF Down
<1>4. Walking'
  BY DEF Walking
<1>5. Busy'
  BY DEF TypeOK, Busy
<1>6. Unique'
  BY DEF TypeOK, Unique
<1>7. Mutex'
  BY DEF TypeOK, Mutex
<1>8. Serving'
  BY DEF TypeOK, Serving
<1>9. Deployed'
  BY DEF TypeOK, Busy, Deployed
<1>10. Orphans'
  BY DEF TypeOK, Orphans
<1>11. StoredIsKnown'
  BY DEF TypeOK, StoredIsKnown
<1>12. Consulting'
  BY DEF TypeOK, Lists, Consulting, SimilarLists, Similar
<1>13. Chosen'
  BY DEF Chosen
<1>14. QED
  BY <1>1, <1>2, <1>3, <1>4, <1>5, <1>6, <1>7, <1>8, <1>9, <1>10, <1>11, <1>12, <1>13

\* The manager starts.
LEMMA RestartInv ==
    ASSUME RegistryInv, Restart
    PROVE  RegistryInv'
<1> USE RegistryAssumption DEF RegistryInv, configVars, refresherVars,
      objectVars, attemptVars, agentVars, Restart, OrphansFound
<1>1. TypeOK'
  BY DEF TypeOK, Ages
<1>2. Named'
  BY DEF TypeOK, Named, Referenced
<1>3. Down'
  BY DEF Down
<1>4. Walking'
  BY DEF Walking
<1>5. Busy'
  BY DEF TypeOK, Busy
<1>6. Unique'
  BY DEF TypeOK, Unique
<1>7. Mutex'
  BY DEF TypeOK, Mutex
<1>8. Serving'
  BY DEF TypeOK, Serving
<1>9. Deployed'
  BY DEF Down, Deployed
<1>10. Orphans'
  <2>1. \A v \in Volumes : orphan'[v] \in Agents => mounts[orphan'[v]] = v
    OBVIOUS
  <2>2. QED
    BY <2>1 DEF Down, Orphans
<1>11. StoredIsKnown'
  BY DEF TypeOK, StoredIsKnown
<1>12. Consulting'
  BY DEF Consulting
<1>13. Chosen'
  BY DEF Chosen
<1>14. QED
  BY <1>1, <1>2, <1>3, <1>4, <1>5, <1>6, <1>7, <1>8, <1>9, <1>10, <1>11, <1>12, <1>13

\* A volume comes or goes.
LEMMA ComesOrGoesInv ==
    ASSUME RegistryInv, NEW v \in Volumes, ComesOrGoes(v)
    PROVE  RegistryInv'
<1> USE RegistryAssumption DEF RegistryInv, configVars, refresherVars,
      objectVars, attemptVars, agentVars, ComesOrGoes
<1>1. TypeOK'
  BY DEF TypeOK, Ages
<1>2. Named'
  BY DEF TypeOK, Named, Referenced
<1>3. Down'
  BY DEF Down
<1>4. Walking'
  BY DEF Walking
<1>5. Busy'
  BY DEF TypeOK, Busy
<1>6. Unique'
  BY DEF TypeOK, Unique
<1>7. Mutex'
  BY DEF TypeOK, Mutex
<1>8. Serving'
  BY DEF TypeOK, Serving
<1>9. Deployed'
  BY DEF TypeOK, Busy, Deployed
<1>10. Orphans'
  BY DEF TypeOK, Orphans
<1>11. StoredIsKnown'
  BY DEF TypeOK, StoredIsKnown
<1>12. Consulting'
  BY DEF Consulting
<1>13. Chosen'
  BY DEF Chosen
<1>14. QED
  BY <1>1, <1>2, <1>3, <1>4, <1>5, <1>6, <1>7, <1>8, <1>9, <1>10, <1>11, <1>12, <1>13

\* An interval passes.
LEMMA GetsOldInv ==
    ASSUME RegistryInv, NEW v \in Volumes, GetsOld(v)
    PROVE  RegistryInv'
<1> USE RegistryAssumption DEF RegistryInv, configVars, refresherVars,
      objectVars, attemptVars, agentVars, GetsOld, Aged
<1>1. TypeOK'
  BY DEF TypeOK, Ages
<1>2. Named'
  BY DEF TypeOK, Named, Referenced
<1>3. Down'
  BY DEF Down
<1>4. Walking'
  BY DEF Walking
<1>5. Busy'
  BY DEF TypeOK, Busy
<1>6. Unique'
  BY DEF TypeOK, Unique
<1>7. Mutex'
  BY DEF TypeOK, Mutex
<1>8. Serving'
  BY DEF TypeOK, Serving
<1>9. Deployed'
  BY DEF TypeOK, Busy, Deployed
<1>10. Orphans'
  BY DEF TypeOK, Orphans
<1>11. StoredIsKnown'
  BY DEF TypeOK, StoredIsKnown
<1>12. Consulting'
  BY DEF Consulting
<1>13. Chosen'
  BY DEF Chosen
<1>14. QED
  BY <1>1, <1>2, <1>3, <1>4, <1>5, <1>6, <1>7, <1>8, <1>9, <1>10, <1>11, <1>12, <1>13

\* Nothing happens.
LEMMA StutterInv ==
    ASSUME RegistryInv, UNCHANGED vars
    PROVE  RegistryInv'
<1> USE RegistryAssumption DEF RegistryInv, configVars, refresherVars,
      objectVars, attemptVars, agentVars, vars
<1>1. TypeOK'
  BY DEF TypeOK, Ages
<1>2. Named'
  BY DEF TypeOK, Named, Referenced
<1>3. Down'
  BY DEF Down
<1>4. Walking'
  BY DEF Walking
<1>5. Busy'
  BY DEF TypeOK, Busy
<1>6. Unique'
  BY DEF TypeOK, Unique
<1>7. Mutex'
  BY DEF TypeOK, Mutex
<1>8. Serving'
  BY DEF TypeOK, Serving
<1>9. Deployed'
  BY DEF TypeOK, Busy, Deployed
<1>10. Orphans'
  BY DEF TypeOK, Orphans
<1>11. StoredIsKnown'
  BY DEF TypeOK, StoredIsKnown
<1>12. Consulting'
  BY DEF Consulting
<1>13. Chosen'
  BY DEF Chosen
<1>14. QED
  BY <1>1, <1>2, <1>3, <1>4, <1>5, <1>6, <1>7, <1>8, <1>9, <1>10, <1>11, <1>12, <1>13

-----------------------------------------------------------------------------
(* The invariant *)

LEMMA InitInv ==
    ASSUME Init
    PROVE  RegistryInv
<1> USE RegistryAssumption DEF Init
<1>1. TypeOK
  BY DEF TypeOK, Ages
<1>2. Named /\ Down /\ Walking /\ Busy
  BY DEF Named, Referenced, Down, Walking, Busy
<1>3. Unique /\ Mutex /\ Serving /\ Deployed /\ Orphans
  BY DEF Unique, Mutex, Serving, Deployed, Orphans
<1>4. StoredIsKnown /\ Chosen
  BY DEF StoredIsKnown, Chosen
<1>5. Consulting
  BY DEF Consulting, SimilarLists, Similar, Lists
<1>6. QED
  BY <1>1, <1>2, <1>3, <1>4, <1>5 DEF RegistryInv

LEMMA RefresherInv ==
    ASSUME RegistryInv, Refresher
    PROVE  RegistryInv'
<1>1. CASE RetrieveVolumes \/ RetrieveFails \/ RemoveDeleted
  BY <1>1, RetrieveInv, RetrieveFailsInv, RemoveDeletedInv
<1>2. ASSUME NEW v \in Volumes, Discover(v) PROVE RegistryInv'
  BY <1>2, DiscoverChooses, DiscoverInv
<1>3. ASSUME NEW o \in Objects, ExamineOrphan(o) PROVE RegistryInv'
  BY <1>3, ExamineOrphanInv
<1>4. CASE ExamineDue \/ EndRound
  BY <1>4, ExamineDueInv, EndRoundInv
<1>5. QED
  BY <1>1, <1>2, <1>3, <1>4 DEF Refresher

LEMMA AttemptInv ==
    ASSUME RegistryInv, NEW a \in Actors, Attempt(a)
    PROVE  RegistryInv'
<1>1. CASE Begin(a) \/ Dropped(a) \/ Lock(a)
  BY <1>1, BeginInv, DroppedInv, LockInv
<1>2. CASE DeployAgent(a)
  BY <1>2, DeployChooses, DeployInv
<1>3. CASE DeployFails(a) \/ AgentFails(a) \/ Collect(a)
  BY <1>3, DeployFailsInv, AgentFailsInv, CollectInv
<1>4. QED
  BY <1>1, <1>2, <1>3 DEF Attempt

LEMMA NextInv ==
    ASSUME RegistryInv, [Next]_vars
    PROVE  RegistryInv'
<1>1. CASE Refresher
  BY <1>1, RefresherInv
<1>2. ASSUME NEW a \in Actors, Attempt(a) PROVE RegistryInv'
  BY <1>2, AttemptInv
<1>3. ASSUME NEW r \in Requests, NEW o \in Objects, Request(r, o) PROVE RegistryInv'
  BY <1>3, RequestInv
<1>4. ASSUME NEW o \in Objects, Attachment(o) PROVE RegistryInv'
  BY <1>4, AttachEndsInv, AttachFailsInv DEF Attachment
<1>5. ASSUME NEW g \in Agents, AgentStep(g) \/ Vanish(g) PROVE RegistryInv'
  BY <1>5, StoresInv, FinishesInv, GetBackupLogsInv, PostLostInv, VanishInv DEF AgentStep
<1>6. ASSUME NEW v \in Volumes, ComesOrGoes(v) \/ GetsOld(v) PROVE RegistryInv'
  BY <1>6, ComesOrGoesInv, GetsOldInv
<1>7. CASE Crash \/ Restart
  BY <1>7, CrashInv, RestartInv
<1>8. CASE UNCHANGED vars
  BY <1>8, StutterInv
<1>9. QED
  BY <1>1, <1>2, <1>3, <1>4, <1>5, <1>6, <1>7, <1>8 DEF Next

LEMMA Invariance == Spec => []RegistryInv
<1>1. Init => RegistryInv
  BY InitInv
<1>2. RegistryInv /\ [Next]_vars => RegistryInv'
  BY NextInv
<1>3. QED
  BY <1>1, <1>2, PTL DEF Spec

-----------------------------------------------------------------------------
(* Theorems *)

\* Every managed object is of a volume, also while volumes are dropped and found again.
THEOREM RegistryTypeCorrect == Spec => []TypeOK
<1>1. RegistryInv => TypeOK
  BY DEF RegistryInv
<1>2. QED
  BY <1>1, Invariance, PTL

\* Where no option has an empty name in it, each managed volume has one object and is
\* one that the options select, however often retrieveVolumes has sorted the lists.
THEOREM SelectedIfPlain ==
    Spec => [](Plain(options.white) /\ Plain(options.black) => Selected)
<1>1. ASSUME RegistryInv, Plain(options.white), Plain(options.black) PROVE Selected
  <2> USE <1>1 DEF RegistryInv
  <2>1. managed \intersect ObjectsOf(0) = {}
    BY DEF TypeOK, ObjectsOf
  <2>2. ASSUME NEW v \in Volumes PROVE Cardinality(ManagedOf(v)) <= 1
    <3>1. \A o, n \in ManagedOf(v) : o = n
      BY DEF Unique, ManagedOf, ObjectsOf
    <3>2. CASE ManagedOf(v) = {}
      BY <3>2, FS_EmptySet
    <3>3. CASE ManagedOf(v) # {}
      <4>1. PICK o : ManagedOf(v) = {o}
        BY <3>1, <3>3
      <4>2. Cardinality({o}) = 1
        BY FS_Singleton
      <4>3. QED
        BY <4>1, <4>2
    <3>4. QED
      BY <3>2, <3>3
  <2>3. \A o \in managed : vol[o] \in Promised(options)
    BY DEF Chosen
  <2>4. QED
    BY <2>1, <2>2, <2>3 DEF Selected
<1>2. RegistryInv => (Plain(options.white) /\ Plain(options.black) => Selected)
  BY <1>1
<1>3. QED
  BY <1>2, Invariance, PTL

\* Two agents that the manager has deployed on one volume belong to attempts on two
\* objects, which are never both managed.
THEOREM AgentsShareNoObject == Spec => []AgentsOfVolume
<1>1. ASSUME RegistryInv PROVE AgentsOfVolume
  <2> SUFFICES ASSUME NEW a \in Actors, NEW b \in Actors, pc[a] = "agent", pc[b] = "agent",
                      a # b, vol[target[a]] = vol[target[b]]
               PROVE  target[a] # target[b] /\ ~({target[a], target[b]} \subseteq managed)
    BY DEF AgentsOfVolume
  <2>1. target[a] # target[b]
    BY <1>1 DEF RegistryInv, Mutex
  <2>2. QED
    BY <1>1, <2>1 DEF RegistryInv, Unique
<1>2. QED
  BY <1>1, Invariance, PTL

\* A snapshot that was just stored is known of its volume, unless its report is under
\* way or was lost.
THEOREM SnapshotsAreKnown == Spec => []StoredIsKnown
<1>1. RegistryInv => StoredIsKnown
  BY DEF RegistryInv
<1>2. QED
  BY <1>1, Invariance, PTL
=============================================================================
