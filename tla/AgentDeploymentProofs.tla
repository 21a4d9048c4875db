------------------------ MODULE AgentDeploymentProofs ------------------------
(***************************************************************************)
(* Theorems about AgentDeployment: its type invariant, that containers     *)
(* with agents always have somebody who removes them, that deployments     *)
(* keep agents apart, and that the restart of a failed agent is awaited.    *)
(***************************************************************************)
EXTENDS AgentDeployment, TLAPS

\* The container of a call exists from its creation on, and is known to those that
\* wait for it. It is started once, or twice after a failure.
Known ==
    /\ \A c \in Calls : pc[c] \in {"idle"} \union Preparing => phase[c] = "none"
    /\ \A c \in Calls : pc[c] \in Preparing => target[c] = c
    /\ \A c \in Calls : pc[c] \in Waiting => target[c] \in Calls /\ phase[target[c]] # "none"
    /\ orphan # NoAgent => phase[orphan] # "none"
    /\ \A k \in Calls : phase[k] \in {"none", "created"} => starts[k] = 0
    /\ \A k \in Calls : phase[k] = "starting" => starts[k] \in {0, 1}
    /\ \A k \in Calls : phase[k] \in {"running", "stopped"} => starts[k] \in {1, 2}

\* A removal that is waited for has been accepted, or carried out.
Accepted ==
    \A c \in Calls : pc[c] = "removing" => deleting[target[c]] \/ ~Exists(target[c])

\* The first run of k is over.
EndedOnce(k) ==
    \/ phase[k] \in {"stopped", "rejected", "stuck", "removed"} \/ starts[k] = 2
    \/ phase[k] = "starting" /\ starts[k] = 1

\* A call that has seen its container stopped has slept before it looks again, and the
\* restart that was due is over by then, or late.
Awaited ==
    \A c \in Calls : stopped[c] =>
        /\ pc[c] \in Waiting \ {"attach", "start"} /\ EndedOnce(target[c])
        /\ pc[c] = "poll" => late[c] \/ ~RestartDue(target[c])

\* The call has seen the end of its container.
Sees(c) ==
    pc[c] \in {"inspect", "read"} \/ (pc[c] = "remove" /\ result[c] # "error")

\* What has been seen to end stays so, unless its restart was late.
Ended ==
    \A c \in Calls : Sees(c) =>
        \/ late[c]
        \/ phase[target[c]] \in {"stopped", "rejected", "stuck", "removed"}
              /\ ~RestartDue(target[c])

\* One call at a time waits for a container of its own with the mutex of an object, the
\* others for the orphan.
OneOwner ==
    /\ ~up => \A c \in Calls : ~Active(c)
    /\ \A c, d \in Calls :
        /\ Active(c) /\ Active(d) /\ target[c] = c /\ target[d] = d
        /\ object[c] = object[d]
        => c = d
    /\ \A c \in Calls : Active(c) /\ target[c] # c => target[c] = orphan

DeploymentInv == TypeOK /\ Known /\ Accepted /\ Awaited /\ Ended /\ OneOwner /\ NoStrayAgent

-----------------------------------------------------------------------------
(* Initial states *)

LEMMA InitInv == Init => DeploymentInv
<1> SUFFICES ASSUME Init PROVE DeploymentInv
  OBVIOUS
<1> USE DeploymentAssumption DEF Init, NoLocals, Found, Exists, Waiting, Preparing
<1>1. TypeOK
  BY DEF TypeOK, Phases
<1>2. Known /\ Accepted
  BY DEF Known, Accepted
<1>3. Awaited /\ Ended
  BY DEF Awaited, Ended, Sees
<1>4. OneOwner
  BY DEF OneOwner, Active
<1>5. NoStrayAgent
  BY DEF NoStrayAgent
<1>6. QED
  BY <1>1, <1>2, <1>3, <1>4, <1>5 DEF DeploymentInv

-----------------------------------------------------------------------------
(* Calls that prepare *)

\* The object is one whose mutex nobody has.
LEMMA DeployChooses ==
    ASSUME DeploymentInv, NEW c \in Calls, Deploy(c)
    PROVE  \E o \in Nat : /\ Prepares(c, o)
                          /\ \A d \in Calls : Active(d) => object[d] # o
<1> DEFINE free == (1..MaxObjects[orchestrator]) \ {object[d] : d \in {e \in Calls : Active(e)}}
           o == CHOOSE n \in free : TRUE
<1>1. o \in free
  BY DEF Deploy
<1>2. o \in Nat /\ \A d \in Calls : Active(d) => object[d] # o
  BY <1>1
<1>3. Prepares(c, o)
  BY DEF Deploy
<1>4. QED
  BY <1>2, <1>3

\* The mutex is what keeps OneOwner.
LEMMA PreparesInv ==
    ASSUME DeploymentInv, NEW c \in Calls, NEW o \in Nat, Prepares(c, o),
           \A d \in Calls : Active(d) => object[d] # o
    PROVE  DeploymentInv'
<1> USE DeploymentAssumption DEF DeploymentInv, Prepares, callVars,
  containerVars, Active, Waiting, Preparing
<1>1. TypeOK'
  BY DEF TypeOK, Known, Phases
<1>2. Known' /\ Accepted'
  BY DEF TypeOK, Known, Accepted, Exists
<1>3. Awaited'
  BY DEF TypeOK, Known, Awaited, EndedOnce, RestartDue
<1>4. Ended'
  BY DEF TypeOK, Known, Awaited, Ended, Sees, RestartDue
<1>5. OneOwner'
  BY DEF TypeOK, Known, OneOwner
<1>6. NoStrayAgent'
  BY DEF TypeOK, Known, Accepted, NoStrayAgent, Exists
<1>7. QED
  BY <1>1, <1>2, <1>3, <1>4, <1>5, <1>6

\* Nothing exists yet.
LEMMA AsksInv ==
    ASSUME DeploymentInv, NEW o, NEW c \in Calls,
           NEW from \in Preparing, NEW to \in Preparing, Asks(o, c, from, to)
    PROVE  DeploymentInv'
<1> USE DeploymentAssumption DEF DeploymentInv, Asks, Moves, callVars,
  containerVars, Waiting, Preparing
<1>1. TypeOK'
  BY DEF TypeOK, Known, Phases
<1>2. Known' /\ Accepted'
  BY DEF TypeOK, Known, Accepted, Exists
<1>3. Awaited'
  BY DEF TypeOK, Known, Awaited, EndedOnce, RestartDue
<1>4. Ended'
  BY DEF TypeOK, Known, Awaited, Ended, Sees, RestartDue
<1>5. OneOwner'
  BY DEF TypeOK, Known, OneOwner, Active
<1>6. NoStrayAgent'
  BY DEF TypeOK, Known, Accepted, NoStrayAgent, Exists
<1>7. QED
  BY <1>1, <1>2, <1>3, <1>4, <1>5, <1>6

\* A death ends every call and leaves behind what it was to remove.
LEMMA DiesInv ==
    ASSUME DeploymentInv, Dies
    PROVE  DeploymentInv'
<1> USE DeploymentAssumption DEF DeploymentInv, Dies, NoLocals, Active,
  callVars, containerVars, Waiting, Preparing
<1>1. TypeOK'
  BY DEF TypeOK, Known, Phases
<1>2. Known' /\ Accepted'
  BY DEF TypeOK, Known, Accepted, Exists
<1>3. Awaited'
  BY DEF TypeOK, Known, Awaited, EndedOnce, RestartDue
<1>4. Ended'
  BY DEF TypeOK, Known, Awaited, Ended, Sees, RestartDue
<1>5. OneOwner'
  BY DEF TypeOK, Known, OneOwner
<1>6. NoStrayAgent'
  BY DEF TypeOK, Known, Accepted, NoStrayAgent, Exists
<1>7. QED
  BY <1>1, <1>2, <1>3, <1>4, <1>5, <1>6

LEMMA PanicInv ==
    ASSUME DeploymentInv, NEW c \in Calls, Returns(c, "manager"),
           UNCHANGED <<containerVars, astray>>
    PROVE  DeploymentInv'
<1> USE DeploymentAssumption DEF DeploymentInv, Returns, callVars,
  containerVars, Waiting, Preparing
<1>1. TypeOK'
  BY DEF TypeOK, Known, Phases
<1>2. Known' /\ Accepted'
  BY DEF TypeOK, Known, Accepted, Exists
<1>3. Awaited'
  BY DEF TypeOK, Known, Awaited, EndedOnce, RestartDue
<1>4. Ended'
  BY DEF TypeOK, Known, Awaited, Ended, Sees, RestartDue
<1>5. OneOwner'
  BY DEF TypeOK, Known, OneOwner, Active
<1>6. NoStrayAgent'
  BY DEF TypeOK, Known, Accepted, NoStrayAgent, Exists
<1>7. QED
  BY <1>1, <1>2, <1>3, <1>4, <1>5, <1>6

-----------------------------------------------------------------------------
(* Creation *)

\* From here on the call waits for its container.
LEMMA CreatesInv ==
    ASSUME DeploymentInv, NEW o, NEW c \in Calls,
           NEW next \in {"start", "poll"}, Creates(o, c, next)
    PROVE  DeploymentInv'
<1> USE DeploymentAssumption DEF DeploymentInv, Creates, Created, Moves,
  Waiting, Preparing
<1>1. TypeOK'
  BY DEF TypeOK, Known, Phases
<1>2. Known' /\ Accepted'
  BY DEF TypeOK, Known, Accepted, Exists
<1>3. Awaited'
  BY DEF TypeOK, Known, Awaited, EndedOnce, RestartDue
<1>4. Ended'
  BY DEF TypeOK, Known, Awaited, Ended, Sees, RestartDue
<1>5. OneOwner'
  BY DEF TypeOK, Known, OneOwner, Active
<1>6. NoStrayAgent'
  BY DEF TypeOK, Known, Accepted, NoStrayAgent, Exists
<1>7. QED
  BY <1>1, <1>2, <1>3, <1>4, <1>5, <1>6

LEMMA CreateUnansweredInv ==
    ASSUME DeploymentInv, NEW c \in Calls, CreateUnanswered(c)
    PROVE  DeploymentInv'
<1> USE DeploymentAssumption DEF DeploymentInv, CreateUnanswered, Returns,
  Created, Waiting, Preparing
<1>1. TypeOK'
  BY DEF TypeOK, Known, Phases
<1>2. Known' /\ Accepted'
  BY DEF TypeOK, Known, Accepted, Exists
<1>3. Awaited'
  BY DEF TypeOK, Known, Awaited, EndedOnce, RestartDue
<1>4. Ended'
  BY DEF TypeOK, Known, Awaited, Ended, Sees, RestartDue
<1>5. OneOwner'
  BY DEF TypeOK, Known, OneOwner, Active
<1>6. NoStrayAgent'
  BY DEF TypeOK, Known, Accepted, NoStrayAgent, Exists
<1>7. QED
  BY <1>1, <1>2, <1>3, <1>4, <1>5, <1>6

\* Nothing that has been created has been started, so it is started once.
LEMMA ContainerStartInv ==
    ASSUME DeploymentInv, NEW c \in Calls, ContainerStart(c)
    PROVE  DeploymentInv'
<1> USE DeploymentAssumption DEF DeploymentInv, ContainerStart, Launches,
  Moves, Waiting, Preparing
<1>1. TypeOK'
  BY DEF TypeOK, Known, Phases
<1>2. Known' /\ Accepted'
  BY DEF TypeOK, Known, Accepted, Exists
<1>3. Awaited'
  BY DEF TypeOK, Known, Awaited, EndedOnce, RestartDue
<1>4. Ended'
  BY DEF TypeOK, Known, Awaited, Ended, Sees, RestartDue
<1>5. OneOwner'
  BY DEF TypeOK, Known, OneOwner, Active
<1>6. NoStrayAgent'
  BY DEF TypeOK, Known, Accepted, NoStrayAgent, Exists
<1>7. QED
  BY <1>1, <1>2, <1>3, <1>4, <1>5, <1>6

LEMMA StartUnansweredInv ==
    ASSUME DeploymentInv, NEW c \in Calls, StartUnanswered(c)
    PROVE  DeploymentInv'
<1> USE DeploymentAssumption DEF DeploymentInv, StartUnanswered, Launches,
  Errs, Moves, Waiting, Preparing
<1>1. TypeOK'
  BY DEF TypeOK, Known, Phases
<1>2. Known' /\ Accepted'
  BY DEF TypeOK, Known, Accepted, Exists
<1>3. Awaited'
  BY DEF TypeOK, Known, Awaited, EndedOnce, RestartDue
<1>4. Ended'
  BY DEF TypeOK, Known, Awaited, Ended, Sees, RestartDue
<1>5. OneOwner'
  BY DEF TypeOK, Known, OneOwner, Active
<1>6. NoStrayAgent'
  BY DEF TypeOK, Known, Accepted, NoStrayAgent, Exists
<1>7. QED
  BY <1>1, <1>2, <1>3, <1>4, <1>5, <1>6

-----------------------------------------------------------------------------
(* Returns and errors *)

\* A call that has created nothing returns.
LEMMA ReturnsInv ==
    ASSUME DeploymentInv, NEW c \in Calls,
           NEW at \in {"prepare", "mounts", "create", "attach"}, Returns(c, at),
           UNCHANGED <<containerVars, astray>>
    PROVE  DeploymentInv'
<1> USE DeploymentAssumption DEF DeploymentInv, Returns, callVars,
  containerVars, Waiting, Preparing
<1>1. TypeOK'
  BY DEF TypeOK, Known, Phases
<1>2. Known' /\ Accepted'
  BY DEF TypeOK, Known, Accepted, Exists
<1>3. Awaited'
  BY DEF TypeOK, Known, Awaited, EndedOnce, RestartDue
<1>4. Ended'
  BY DEF TypeOK, Known, Awaited, Ended, Sees, RestartDue
<1>5. OneOwner'
  BY DEF TypeOK, Known, OneOwner, Active
<1>6. NoStrayAgent'
  BY DEF TypeOK, Known, Accepted, NoStrayAgent, Exists
<1>7. QED
  BY <1>1, <1>2, <1>3, <1>4, <1>5, <1>6

\* A call that waits keeps its container until the removal.
LEMMA ErrsInv ==
    ASSUME DeploymentInv, NEW c \in Calls,
           NEW at \in {"start", "poll", "inspect", "read"}, Errs(c, at),
           UNCHANGED <<containerVars, astray>>
    PROVE  DeploymentInv'
<1> USE DeploymentAssumption DEF DeploymentInv, Errs, Moves, callVars,
  containerVars, Waiting, Preparing
<1>1. TypeOK'
  BY DEF TypeOK, Known, Phases
<1>2. Known' /\ Accepted'
  BY DEF TypeOK, Known, Accepted, Exists
<1>3. Awaited'
  BY DEF TypeOK, Known, Awaited, EndedOnce, RestartDue
<1>4. Ended'
  BY DEF TypeOK, Known, Awaited, Ended, Sees, RestartDue
<1>5. OneOwner'
  BY DEF TypeOK, Known, OneOwner, Active
<1>6. NoStrayAgent'
  BY DEF TypeOK, Known, Accepted, NoStrayAgent, Exists
<1>7. QED
  BY <1>1, <1>2, <1>3, <1>4, <1>5, <1>6

-----------------------------------------------------------------------------
(* Polling *)

\* The loops end when they see the end of the container.
LEMMA EndSeenInv ==
    ASSUME DeploymentInv, NEW c \in Calls, NEW to \in {"inspect", "read"},
           Observes(c, {"stopped", "rejected"}), Moves(c, "poll", to),
           late[c] \/ ~RestartDue(target[c]),
           UNCHANGED <<stopped, late, result, containerVars, astray>>
    PROVE  DeploymentInv'
<1> USE DeploymentAssumption DEF DeploymentInv, Observes, Moves, callVars,
  containerVars, Waiting, Preparing
<1>1. TypeOK'
  BY DEF TypeOK, Known, Phases
<1>2. Known' /\ Accepted'
  BY DEF TypeOK, Known, Accepted, Exists
<1>3. Awaited'
  BY DEF TypeOK, Known, Awaited, EndedOnce, RestartDue
<1>4. Ended'
  BY DEF TypeOK, Known, Awaited, Ended, Sees, RestartDue
<1>5. OneOwner'
  BY DEF TypeOK, Known, OneOwner, Active
<1>6. NoStrayAgent'
  BY DEF TypeOK, Known, Accepted, NoStrayAgent, Exists
<1>7. QED
  BY <1>1, <1>2, <1>3, <1>4, <1>5, <1>6

LEMMA StopSeenInv ==
    ASSUME DeploymentInv, NEW c \in Calls, Moves(c, "poll", "sleep"),
           Observes(c, {"stopped"}), stopped' = [stopped EXCEPT ![c] = TRUE],
           UNCHANGED <<late, result, containerVars, astray>>
    PROVE  DeploymentInv'
<1> USE DeploymentAssumption DEF DeploymentInv, Observes, Moves,
  callVars,
  containerVars, Waiting, Preparing
<1>1. TypeOK'
  BY DEF TypeOK, Known, Phases
<1>2. Known' /\ Accepted'
  BY DEF TypeOK, Known, Accepted, Exists
<1>3. Awaited'
  BY DEF TypeOK, Known, Awaited, EndedOnce, RestartDue
<1>4. Ended'
  BY DEF TypeOK, Known, Awaited, Ended, Sees, RestartDue
<1>5. OneOwner'
  BY DEF TypeOK, Known, OneOwner, Active
<1>6. NoStrayAgent'
  BY DEF TypeOK, Known, Accepted, NoStrayAgent, Exists
<1>7. QED
  BY <1>1, <1>2, <1>3, <1>4, <1>5, <1>6

LEMMA WakesInv ==
    ASSUME DeploymentInv, NEW c \in Calls, Wakes(c)
    PROVE  DeploymentInv'
<1> USE DeploymentAssumption DEF DeploymentInv, Wakes, Moves, callVars,
  containerVars, Waiting, Preparing
<1>1. TypeOK'
  BY DEF TypeOK, Known, Phases, RestartDue
<1>2. Known' /\ Accepted'
  BY DEF TypeOK, Known, Accepted, Exists
<1>3. Awaited'
  BY DEF TypeOK, Known, Awaited, EndedOnce, RestartDue
<1>4. Ended'
  BY DEF TypeOK, Known, Awaited, Ended, Sees, RestartDue
<1>5. OneOwner'
  BY DEF TypeOK, Known, OneOwner, Active
<1>6. NoStrayAgent'
  BY DEF TypeOK, Known, Accepted, NoStrayAgent, Exists
<1>7. QED
  BY <1>1, <1>2, <1>3, <1>4, <1>5, <1>6

LEMMA InspectInv ==
    ASSUME DeploymentInv, NEW c \in Calls, Inspect(c)
    PROVE  DeploymentInv'
<1> USE DeploymentAssumption DEF DeploymentInv, Inspect, Moves, callVars,
  containerVars, Waiting, Preparing
<1>1. TypeOK'
  BY DEF TypeOK, Known, Phases
<1>2. Known' /\ Accepted'
  BY DEF TypeOK, Known, Accepted, Exists
<1>3. Awaited'
  BY DEF TypeOK, Known, Awaited, EndedOnce, RestartDue
<1>4. Ended'
  BY DEF TypeOK, Known, Awaited, Ended, Sees, RestartDue
<1>5. OneOwner'
  BY DEF TypeOK, Known, OneOwner, Active
<1>6. NoStrayAgent'
  BY DEF TypeOK, Known, Accepted, NoStrayAgent, Exists
<1>7. QED
  BY <1>1, <1>2, <1>3, <1>4, <1>5, <1>6

LEMMA ReadsLogsInv ==
    ASSUME DeploymentInv, NEW o, NEW c \in Calls, ReadsLogs(o, c)
    PROVE  DeploymentInv'
<1> USE DeploymentAssumption DEF DeploymentInv, ReadsLogs, Moves, callVars,
  containerVars, Waiting, Preparing
<1>1. TypeOK'
  BY DEF TypeOK, Known, Phases
<1>2. Known' /\ Accepted'
  BY DEF TypeOK, Known, Accepted, Exists
<1>3. Awaited'
  BY DEF TypeOK, Known, Awaited, EndedOnce, RestartDue
<1>4. Ended'
  BY DEF TypeOK, Known, Awaited, Ended, Sees, RestartDue
<1>5. OneOwner'
  BY DEF TypeOK, Known, OneOwner, Active
<1>6. NoStrayAgent'
  BY DEF TypeOK, Known, Accepted, NoStrayAgent, Exists
<1>7. QED
  BY <1>1, <1>2, <1>3, <1>4, <1>5, <1>6

-----------------------------------------------------------------------------
(* Removals *)

LEMMA DockerRemoveInv ==
    ASSUME DeploymentInv, NEW c \in Calls, DockerRemove(c)
    PROVE  DeploymentInv'
<1> USE DeploymentAssumption DEF DeploymentInv, DockerRemove, Returns,
  Disappears, Waiting, Preparing
<1>1. TypeOK'
  BY DEF TypeOK, Known, Phases
<1>2. Known' /\ Accepted'
  BY DEF TypeOK, Known, Accepted, Exists
<1>3. Awaited'
  BY DEF TypeOK, Known, Awaited, EndedOnce, RestartDue
<1>4. Ended'
  BY DEF TypeOK, Known, Awaited, Ended, Sees, RestartDue
<1>5. OneOwner'
  BY DEF TypeOK, Known, OneOwner, Active
<1>6. NoStrayAgent'
  BY DEF TypeOK, Known, Accepted, NoStrayAgent, Exists
<1>7. QED
  BY <1>1, <1>2, <1>3, <1>4, <1>5, <1>6

LEMMA DeletePodInv ==
    ASSUME DeploymentInv, NEW c \in Calls, DeletePod(c)
    PROVE  DeploymentInv'
<1> USE DeploymentAssumption DEF DeploymentInv, DeletePod, Returns, Deletes,
  Exists, Waiting, Preparing
<1>1. TypeOK'
  BY DEF TypeOK, Known, Phases
<1>2. Known' /\ Accepted'
  BY DEF TypeOK, Known, Accepted
<1>3. Awaited'
  BY DEF TypeOK, Known, Awaited, EndedOnce, RestartDue
<1>4. Ended'
  BY DEF TypeOK, Known, Ended, Sees, RestartDue
<1>5. OneOwner'
  BY DEF TypeOK, Known, OneOwner, Active
<1>6. NoStrayAgent'
  <2> SUFFICES ASSUME NEW k \in Calls, Exists(k), k \notin astray, ~deleting'[k]
               PROVE  \E d \in Calls : target'[d] = k /\ pc'[d] \in Waiting \ {"attach"}
    BY DEF NoStrayAgent
  <2>1. k # target[c] /\ ~deleting[k]
    BY DEF TypeOK, Known
  <2>2. PICK d \in Calls : target[d] = k /\ pc[d] \in Waiting \ {"attach"}
    BY <2>1 DEF NoStrayAgent
  <2>3. target'[d] = k /\ pc'[d] = pc[d]
    BY <2>1, <2>2 DEF TypeOK
  <2>4. QED
    BY <2>2, <2>3
<1>7. QED
  BY <1>1, <1>2, <1>3, <1>4, <1>5, <1>6

LEMMA CattleRemoveInv ==
    ASSUME DeploymentInv, NEW c \in Calls, CattleRemove(c)
    PROVE  DeploymentInv'
<1> USE DeploymentAssumption DEF DeploymentInv, CattleRemove, Deletes, Exists,
  Moves, Waiting, Preparing
<1>1. TypeOK'
  BY DEF TypeOK, Known, Phases
<1>2. Known' /\ Accepted'
  <2>1. target[c] \in Calls /\ phase[target[c]] # "none"
    BY DEF TypeOK, Known
  <2>2. Known'
    BY DEF TypeOK, Known
  <2>3. \A d \in Calls : pc'[d] = "removing" => d = c \/ pc[d] = "removing"
    BY DEF TypeOK
  <2>4. Accepted'
    BY <2>1, <2>3 DEF TypeOK, Known, Accepted
  <2>5. QED
    BY <2>2, <2>4
<1>3. Awaited'
  BY DEF TypeOK, Known, Awaited, EndedOnce, RestartDue
<1>4. Ended'
  BY DEF TypeOK, Known, Awaited, Ended, Sees, RestartDue
<1>5. OneOwner'
  BY DEF TypeOK, Known, OneOwner, Active
<1>6. NoStrayAgent'
  BY DEF TypeOK, Known, Accepted, NoStrayAgent
<1>7. QED
  BY <1>1, <1>2, <1>3, <1>4, <1>5, <1>6

LEMMA RemoveRefusedInv ==
    ASSUME DeploymentInv, NEW c \in Calls, RemoveRefused(c)
    PROVE  DeploymentInv'
<1> USE DeploymentAssumption DEF DeploymentInv, RemoveRefused, Returns,
  callVars, containerVars, Waiting, Preparing
<1>1. TypeOK'
  BY DEF TypeOK, Known, Phases
<1>2. Known' /\ Accepted'
  BY DEF TypeOK, Known, Accepted, Exists
<1>3. Awaited'
  BY DEF TypeOK, Known, Awaited, EndedOnce, RestartDue
<1>4. Ended'
  BY DEF TypeOK, Known, Awaited, Ended, Sees, RestartDue
<1>5. OneOwner'
  BY DEF TypeOK, Known, OneOwner, Active
<1>6. NoStrayAgent'
  BY DEF TypeOK, Known, Accepted, NoStrayAgent, Exists
<1>7. QED
  BY <1>1, <1>2, <1>3, <1>4, <1>5, <1>6

\* What is not awaited any more has been accepted.
LEMMA RemovalOverInv ==
    ASSUME DeploymentInv, NEW c \in Calls, Returns(c, "removing"),
           UNCHANGED <<containerVars, astray>>
    PROVE  DeploymentInv'
<1> USE DeploymentAssumption DEF DeploymentInv, Returns, callVars,
  containerVars, Waiting, Preparing
<1>1. TypeOK'
  BY DEF TypeOK, Known, Phases
<1>2. Known' /\ Accepted'
  BY DEF TypeOK, Known, Accepted, Exists
<1>3. Awaited'
  BY DEF TypeOK, Known, Awaited, EndedOnce, RestartDue
<1>4. Ended'
  BY DEF TypeOK, Known, Awaited, Ended, Sees, RestartDue
<1>5. OneOwner'
  BY DEF TypeOK, Known, OneOwner, Active
<1>6. NoStrayAgent'
  BY DEF TypeOK, Known, Accepted, NoStrayAgent, Exists
<1>7. QED
  BY <1>1, <1>2, <1>3, <1>4, <1>5, <1>6

-----------------------------------------------------------------------------
(* Orphans *)

LEMMA AttachInv ==
    ASSUME DeploymentInv, NEW c \in Calls, Attach(c)
    PROVE  DeploymentInv'
<1> USE DeploymentAssumption DEF DeploymentInv, Attach, callVars,
  containerVars, Waiting, Preparing
<1>1. TypeOK'
  BY DEF TypeOK, Known, Phases
<1>2. Known' /\ Accepted'
  BY DEF TypeOK, Known, Accepted, Exists
<1>3. Awaited'
  BY DEF TypeOK, Known, Awaited, EndedOnce, RestartDue
<1>4. Ended'
  BY DEF TypeOK, Known, Awaited, Ended, Sees, RestartDue
<1>5. OneOwner'
  BY DEF TypeOK, Known, OneOwner, Active
<1>6. NoStrayAgent'
  BY DEF TypeOK, Known, Accepted, NoStrayAgent, Exists
<1>7. QED
  BY <1>1, <1>2, <1>3, <1>4, <1>5, <1>6

LEMMA AttachFoundInv ==
    ASSUME DeploymentInv, NEW c \in Calls, AttachFound(c)
    PROVE  DeploymentInv'
<1> USE DeploymentAssumption DEF DeploymentInv, AttachFound, Moves, callVars,
  containerVars, Waiting, Preparing
<1>1. TypeOK'
  BY DEF TypeOK, Known, Phases
<1>2. Known' /\ Accepted'
  BY DEF TypeOK, Known, Accepted, Exists
<1>3. Awaited'
  BY DEF TypeOK, Known, Awaited, EndedOnce, RestartDue
<1>4. Ended'
  BY DEF TypeOK, Known, Awaited, Ended, Sees, RestartDue
<1>5. OneOwner'
  BY DEF TypeOK, Known, OneOwner, Active
<1>6. NoStrayAgent'
  BY DEF TypeOK, Known, Accepted, NoStrayAgent, Exists
<1>7. QED
  BY <1>1, <1>2, <1>3, <1>4, <1>5, <1>6

\* Nobody waits for the former orphan any more.
LEMMA RestartInv ==
    ASSUME DeploymentInv, Restart
    PROVE  DeploymentInv'
<1> USE DeploymentAssumption DEF DeploymentInv, Restart, Found, Exists,
  Active, callVars, containerVars, Waiting, Preparing
<1>1. TypeOK'
  BY DEF TypeOK, Known, Phases
<1>2. Known' /\ Accepted'
  BY DEF TypeOK, Known, Accepted
<1>3. Awaited'
  BY DEF TypeOK, Known, Awaited, EndedOnce, RestartDue
<1>4. Ended'
  BY DEF TypeOK, Known, Awaited, Ended, Sees, RestartDue
<1>5. OneOwner'
  BY DEF TypeOK, Known, OneOwner
<1>6. NoStrayAgent'
  BY DEF TypeOK, Known, Accepted, NoStrayAgent
<1>7. QED
  BY <1>1, <1>2, <1>3, <1>4, <1>5, <1>6

-----------------------------------------------------------------------------
(* The orchestrator and the agent *)

LEMMA ScheduleInv ==
    ASSUME DeploymentInv, NEW k \in Calls, Schedule(k)
    PROVE  DeploymentInv'
<1> USE DeploymentAssumption DEF DeploymentInv, Schedule, OrchestratorOnly,
  callVars, Waiting, Preparing
<1>1. TypeOK'
  BY DEF TypeOK, Known, Phases
<1>2. Known' /\ Accepted'
  BY DEF TypeOK, Known, Accepted, Exists
<1>3. Awaited'
  BY DEF TypeOK, Known, Awaited, EndedOnce, RestartDue
<1>4. Ended'
  BY DEF TypeOK, Known, Awaited, Ended, Sees, RestartDue
<1>5. OneOwner'
  BY DEF TypeOK, Known, OneOwner, Active
<1>6. NoStrayAgent'
  BY DEF TypeOK, Known, Accepted, NoStrayAgent, Exists
<1>7. QED
  BY <1>1, <1>2, <1>3, <1>4, <1>5, <1>6

LEMMA LaunchInv ==
    ASSUME DeploymentInv, NEW k \in Calls, Launch(k)
    PROVE  DeploymentInv'
<1> USE DeploymentAssumption DEF DeploymentInv, Launch, Launches,
  OrchestratorOnly, callVars, Waiting, Preparing
<1>1. TypeOK'
  BY DEF TypeOK, Known, Phases
<1>2. Known' /\ Accepted'
  BY DEF TypeOK, Known, Accepted, Exists
<1>3. Awaited'
  BY DEF TypeOK, Known, Awaited, EndedOnce, RestartDue
<1>4. Ended'
  BY DEF TypeOK, Known, Awaited, Ended, Sees, RestartDue
<1>5. OneOwner'
  BY DEF TypeOK, Known, OneOwner, Active
<1>6. NoStrayAgent'
  BY DEF TypeOK, Known, Accepted, NoStrayAgent, Exists
<1>7. QED
  BY <1>1, <1>2, <1>3, <1>4, <1>5, <1>6

LEMMA RejectInv ==
    ASSUME DeploymentInv, NEW k \in Calls, Reject(k)
    PROVE  DeploymentInv'
<1> USE DeploymentAssumption DEF DeploymentInv, Reject, OrchestratorOnly,
  callVars, Waiting, Preparing
<1>1. TypeOK'
  BY DEF TypeOK, Known, Phases
<1>2. Known' /\ Accepted'
  BY DEF TypeOK, Known, Accepted, Exists
<1>3. Awaited'
  BY DEF TypeOK, Known, Awaited, EndedOnce, RestartDue
<1>4. Ended'
  BY DEF TypeOK, Known, Awaited, Ended, Sees, RestartDue
<1>5. OneOwner'
  BY DEF TypeOK, Known, OneOwner, Active
<1>6. NoStrayAgent'
  BY DEF TypeOK, Known, Accepted, NoStrayAgent, Exists
<1>7. QED
  BY <1>1, <1>2, <1>3, <1>4, <1>5, <1>6

LEMMA AgentEndsInv ==
    ASSUME DeploymentInv, NEW k \in Calls, AgentEnds(k)
    PROVE  DeploymentInv'
<1> USE DeploymentAssumption DEF DeploymentInv, AgentEnds, OrchestratorOnly,
  callVars, Waiting, Preparing
<1>1. TypeOK'
  BY DEF TypeOK, Known, Phases
<1>2. Known' /\ Accepted'
  BY DEF TypeOK, Known, Accepted, Exists
<1>3. Awaited'
  BY DEF TypeOK, Known, Awaited, EndedOnce, RestartDue
<1>4. Ended'
  BY DEF TypeOK, Known, Awaited, Ended, Sees, RestartDue
<1>5. OneOwner'
  BY DEF TypeOK, Known, OneOwner, Active
<1>6. NoStrayAgent'
  BY DEF TypeOK, Known, Accepted, NoStrayAgent, Exists
<1>7. QED
  BY <1>1, <1>2, <1>3, <1>4, <1>5, <1>6

LEMMA RelaunchInv ==
    ASSUME DeploymentInv, NEW k \in Calls, Relaunch(k)
    PROVE  DeploymentInv'
<1> USE DeploymentAssumption DEF DeploymentInv, Relaunch, Restarts, RestartDue,
  OrchestratorOnly,
  callVars, Waiting, Preparing
<1>1. TypeOK'
  BY DEF TypeOK, Known, Phases
<1>2. Known' /\ Accepted'
  BY DEF TypeOK, Known, Accepted, Exists
<1>3. Awaited'
  BY DEF TypeOK, Known, Awaited, EndedOnce
<1>4. Ended'
  BY DEF TypeOK, Known, Awaited, Ended, Sees
<1>5. OneOwner'
  BY DEF TypeOK, Known, OneOwner, Active
<1>6. NoStrayAgent'
  BY DEF TypeOK, Known, Accepted, NoStrayAgent, Exists
<1>7. QED
  BY <1>1, <1>2, <1>3, <1>4, <1>5, <1>6

LEMMA SticksInv ==
    ASSUME DeploymentInv, NEW k \in Calls, Sticks(k)
    PROVE  DeploymentInv'
<1> USE DeploymentAssumption DEF DeploymentInv, Sticks, OrchestratorOnly,
  callVars, Waiting, Preparing
<1>1. TypeOK'
  BY DEF TypeOK, Known, Phases
<1>2. Known' /\ Accepted'
  BY DEF TypeOK, Known, Accepted, Exists
<1>3. Awaited'
  BY DEF TypeOK, Known, Awaited, EndedOnce, RestartDue
<1>4. Ended'
  BY DEF TypeOK, Known, Awaited, Ended, Sees, RestartDue
<1>5. OneOwner'
  BY DEF TypeOK, Known, OneOwner, Active
<1>6. NoStrayAgent'
  BY DEF TypeOK, Known, Accepted, NoStrayAgent, Exists
<1>7. QED
  BY <1>1, <1>2, <1>3, <1>4, <1>5, <1>6

LEMMA VanishesInv ==
    ASSUME DeploymentInv, NEW k \in Calls, Vanishes(k)
    PROVE  DeploymentInv'
<1> USE DeploymentAssumption DEF DeploymentInv, Vanishes, Disappears, Exists,
  callVars, Waiting, Preparing
<1>1. TypeOK'
  BY DEF TypeOK, Known, Phases
<1>2. Known'
  BY DEF TypeOK, Known
<1>3. Accepted'
  BY DEF TypeOK, Known, Accepted
<1>4. Awaited'
  BY DEF TypeOK, Known, Awaited, EndedOnce, RestartDue
<1>5. Ended'
  BY DEF TypeOK, Known, Ended, Sees, RestartDue
<1>6. OneOwner'
  BY DEF TypeOK, Known, OneOwner, Active
<1>7. NoStrayAgent'
  BY DEF TypeOK, Known, Accepted, NoStrayAgent
<1>8. QED
  BY <1>1, <1>2, <1>3, <1>4, <1>5, <1>6, <1>7

LEMMA StutterInv ==
    ASSUME DeploymentInv, UNCHANGED vars
    PROVE  DeploymentInv'
<1> USE DeploymentAssumption DEF DeploymentInv, vars, callVars, containerVars,
  Waiting, Preparing
<1>1. TypeOK'
  BY DEF TypeOK, Known, Phases
<1>2. Known' /\ Accepted'
  BY DEF TypeOK, Known, Accepted, Exists
<1>3. Awaited'
  BY DEF TypeOK, Known, Awaited, EndedOnce, RestartDue
<1>4. Ended'
  BY DEF TypeOK, Known, Awaited, Ended, Sees, RestartDue
<1>5. OneOwner'
  BY DEF TypeOK, Known, OneOwner, Active
<1>6. NoStrayAgent'
  BY DEF TypeOK, Known, Accepted, NoStrayAgent, Exists
<1>7. QED
  BY <1>1, <1>2, <1>3, <1>4, <1>5, <1>6

-----------------------------------------------------------------------------
(* Steps *)

LEMMA ProgressInv ==
    ASSUME DeploymentInv, NEW c \in Calls, Progress(c)
    PROVE  DeploymentInv'
<1>1. CASE \/ PullImage(c) \/ DockerAdditionalVolumes(c) \/ CattleAdditionalVolumes(c)
           \/ GetClaim(c) \/ GetManagerPod(c)
  BY <1>1, AsksInv DEF PullImage, DockerAdditionalVolumes,
       CattleAdditionalVolumes, GetClaim, GetManagerPod, Preparing
<1>2. CASE DockerCreate(c) \/ PodCreate(c) \/ CattleCreate(c)
  BY <1>2, CreatesInv DEF DockerCreate, PodCreate, CattleCreate
<1>3. CASE AttachFound(c) \/ ContainerStart(c)
  BY <1>3, AttachFoundInv, ContainerStartInv
<1>4. CASE DockerPoll(c)
  BY <1>4, EndSeenInv DEF DockerPoll, Observes, RestartDue
<1>5. CASE KubernetesPoll(c)
  <2>1. CASE Errs(c, "poll")
    BY <1>5, <2>1, ErrsInv DEF KubernetesPoll
  <2>2. CASE Observes(c, {"stopped"}) /\ Moves(c, "poll", "read")
                /\ UNCHANGED <<stopped, late, result>>
    BY <1>5, <2>2, EndSeenInv DEF KubernetesPoll, Observes, RestartDue
  <2>3. QED
    BY <1>5, <2>1, <2>2 DEF KubernetesPoll
<1>6. CASE CattlePoll(c)
  <2>1. CASE /\ Observes(c, {"stopped"}) /\ Moves(c, "poll", "sleep")
             /\ stopped' = [stopped EXCEPT ![c] = TRUE]
    BY <1>6, <2>1, StopSeenInv DEF CattlePoll
  <2>2. CASE /\ Moves(c, "poll", "inspect") /\ UNCHANGED stopped
             /\ \/ Observes(c, {"rejected"})
                \/ Observes(c, {"stopped"}) /\ (starts[target[c]] # 1 \/ stopped[c])
    <3>1. late[c] \/ ~RestartDue(target[c])
      BY <2>2 DEF DeploymentInv, Awaited, Observes, RestartDue
    <3>2. Observes(c, {"stopped", "rejected"})
      BY <2>2 DEF Observes
    <3>3. QED
      BY <1>6, <2>2, <3>1, <3>2, EndSeenInv DEF CattlePoll
  <2>3. QED
    BY <1>6, <2>1, <2>2 DEF CattlePoll
<1>7. CASE Wakes(c) \/ Timeout(c) \/ Missing(c)
  BY <1>7, WakesInv, ErrsInv DEF Timeout, Missing
<1>8. CASE Inspect(c) \/ ContainerLogs(c) \/ PodLogs(c) \/ CattleLogs(c)
  BY <1>8, InspectInv, ReadsLogsInv DEF ContainerLogs, PodLogs, CattleLogs
<1>9. CASE DockerRemove(c) \/ DeletePod(c) \/ CattleRemove(c) \/ AwaitRemoval(c)
  BY <1>9, DockerRemoveInv, DeletePodInv, CattleRemoveInv, RemovalOverInv
     DEF AwaitRemoval
<1>10. QED
  BY <1>1, <1>2, <1>3, <1>4, <1>5, <1>6, <1>7, <1>8, <1>9 DEF Progress

LEMMA TroubleInv ==
    ASSUME DeploymentInv, NEW c \in Calls, Trouble(c)
    PROVE  DeploymentInv'
<1>1. CASE MissManagerPod(c)
  BY <1>1, PanicInv, DiesInv DEF MissManagerPod
<1>2. CASE CreateUnanswered(c) \/ StartUnanswered(c)
  BY <1>2, CreateUnansweredInv, StartUnansweredInv
<1>3. CASE Refused(c)
  <2>1. CASE \E at \in {"prepare", "mounts", "create", "attach"} : Returns(c, at)
    BY <1>3, <2>1, ReturnsInv DEF Refused
  <2>2. CASE \E at \in {"start", "poll", "inspect", "read"} : Errs(c, at)
    BY <1>3, <2>2, ErrsInv DEF Refused
  <2>3. QED
    BY <1>3, <2>1, <2>2 DEF Refused
<1>4. CASE RemoveRefused(c) \/ AbandonRemoval(c)
  BY <1>4, RemoveRefusedInv, RemovalOverInv DEF AbandonRemoval
<1>5. QED
  BY <1>1, <1>2, <1>3, <1>4 DEF Trouble

LEMMA ContainerStepInv ==
    ASSUME DeploymentInv, NEW k \in Calls, ContainerStep(k)
    PROVE  DeploymentInv'
<1>1. CASE CarryOutDeletion(k) \/ RemovedByOther(k)
  BY <1>1, VanishesInv DEF CarryOutDeletion, RemovedByOther
<1>2. QED
  BY <1>1, ScheduleInv, LaunchInv, RejectInv, AgentEndsInv, RelaunchInv,
     SticksInv
     DEF ContainerStep

\* Every step of the specification keeps the invariant.
LEMMA NextInv ==
    ASSUME DeploymentInv, [Next]_vars
    PROVE  DeploymentInv'
<1>1. CASE \E c \in Calls :
            Deploy(c) \/ Attach(c) \/ Progress(c) \/ Trouble(c) \/ ContainerStep(c)
  BY <1>1, DeployChooses, PreparesInv, AttachInv, ProgressInv, TroubleInv, ContainerStepInv
<1>2. CASE Crash \/ Restart
  BY <1>2, DiesInv, RestartInv DEF Crash
<1>3. CASE UNCHANGED vars
  BY <1>3, StutterInv
<1>4. QED
  BY <1>1, <1>2, <1>3 DEF Next

LEMMA Invariance == Spec => []DeploymentInv
<1>1. DeploymentInv /\ [Next]_vars => DeploymentInv'
  BY NextInv
<1>2. QED
  BY <1>1, InitInv, PTL DEF Spec

-----------------------------------------------------------------------------
(* Theorems *)

\* Every variable of the deployments keeps its type: no container is started more
\* than twice, and what a call waits for is a container.
THEOREM DeploymentTypeCorrect == Spec => []TypeOK
<1>1. DeploymentInv => TypeOK
  BY DEF DeploymentInv
<1>2. QED
  BY <1>1, Invariance, PTL

\* Whatever request fails, is not answered or takes too long, a container with an
\* agent has a call that will remove it, unless its creation was not answered, its
\* removal refused, or the manager died.
THEOREM AgentsAreRemoved == Spec => []NoStrayAgent
<1>1. DeploymentInv => NoStrayAgent
  BY DEF DeploymentInv
<1>2. QED
  BY <1>1, Invariance, PTL

\* Two agents work on a volume only if one of them was left behind, is being removed,
\* or was found after a restart, or if they were deployed for two objects: of two that are
\* neither, each has a call of its own that waits for it, and an object's mutex admits one.
THEOREM DeploymentsKeepApart == Spec => []AgentsApart
<1>1. DeploymentInv => AgentsApart
  <2> SUFFICES ASSUME DeploymentInv, NEW j \in Calls, NEW k \in Calls,
                      phase[j] \in {"running", "stuck"}, phase[k] \in {"running", "stuck"},
                      j # k, object[j] = object[k],
                      \A x \in {j, k} : x \notin astray /\ ~deleting[x] /\ x # orphan
               PROVE  FALSE
    BY DEF AgentsApart
  <2>1. \A x \in {j, k} : \E c \in Calls : target[c] = x /\ pc[c] \in Waiting
    BY DEF DeploymentInv, NoStrayAgent, Exists
  <2>2. PICK c \in Calls : target[c] = j /\ pc[c] \in Waiting
    BY <2>1
  <2>3. PICK d \in Calls : target[d] = k /\ pc[d] \in Waiting
    BY <2>1
  <2>4. target[c] = c /\ target[d] = d
    BY <2>2, <2>3 DEF DeploymentInv, OneOwner, Active
  <2>5. c = d
    BY <2>2, <2>3, <2>4 DEF DeploymentInv, OneOwner, Active
  <2>6. QED
    BY <2>2, <2>3, <2>5
<1>2. QED
  BY <1>1, Invariance, PTL

\* No call takes the first failure of an agent for its end, unless the restart came after
\* the five seconds of the loop: from its second look on, a call that is not late knows
\* that no restart is due (Awaited), and what it sees then is the end (Ended).
THEOREM RestartsAreAwaited == Spec => []RestartIsAwaited
<1>1. DeploymentInv => RestartIsAwaited
  BY DEF DeploymentInv, Ended, Sees, RestartIsAwaited
<1>2. QED
  BY <1>1, Invariance, PTL
=============================================================================
