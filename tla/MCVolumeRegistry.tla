-------------------------- MODULE MCVolumeRegistry --------------------------
(***************************************************************************)
(* Small instances of VolumeRegistry for TLC.                              *)
(***************************************************************************)
EXTENDS VolumeRegistry, TLC

\* A whitelist that is not sorted, with a volume that does not exist, and a blacklist
\* that contradicts it: of the volumes 1 and 2 they select 1.
Whitelisted == {[white |-> <<3, 1>>, black |-> <<1>>]}

\* A blacklist that is not sorted; it selects 1 of the volumes 1 and 2.
Blacklist == {[white |-> <<0>>, black |-> <<3, 2>>]}

\* No option is set.
Unfiltered == {[white |-> <<0>>, black |-> <<0>>]}

\* Objects that are created and agents that are deployed are chosen among some that
\* have no state, so that it does not matter which one CHOOSE returns.
Interchangeable == Permutations(Objects) \union Permutations(Agents)

\* What is left in an object that nobody refers to is not looked at again.
Live ==
    LET free == {o \in Objects : Free(o)}
        clean(f, x) == [o \in Objects |-> IF o \in free THEN x ELSE f[o]] IN
    <<configVars, up, exists, repo, refresherVars, managed, clean(vol, 0),
      clean(backingUp, FALSE), clean(date, "old"), attemptVars, attached, orphan,
      agentVars, untold>>

\* Two attempts at a time, attached objects among them, and a log server on Docker only:
\* what reports do there does not depend on how the orchestrator lists volumes.
TwoAttempts ==
    /\ Cardinality({a \in Actors : pc[a] # "idle"})
            + Cardinality({o \in Objects : attached[o] > 0}) <= 2
    /\ receiver => orchestrator = "docker"
=============================================================================
