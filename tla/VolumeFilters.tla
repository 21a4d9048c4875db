---------------------------- MODULE VolumeFilters ----------------------------
(***************************************************************************)
(* blacklistedVolume of the manager (src/internal/manager/volumes.go).     *)
(*                                                                         *)
(* A name is a number, ordered as the strings are; 0 is the empty string,  *)
(* which comes first. The lists come from splitting an option at commas,   *)
(* so an option that is not set is the list of one empty string. They are  *)
(* sorted in place when they are consulted, which the next call sees: each *)
(* operator takes the lists and returns them.                              *)
(***************************************************************************)
EXTENDS Integers, Sequences, FiniteSets

CONSTANTS
    Volumes,    \* the volumes there may be, by name
    Unnamed     \* those with 64-character names, and lost+found

ASSUME NamesAssumption ==
    /\ Volumes \subseteq Nat \ {0} /\ IsFiniteSet(Volumes)
    /\ Unnamed \subseteq Volumes

\* What the two options may be.
Lists == [white : Seq(Nat), black : Seq(Nat)]

IsDefined(list) == list # <<>> /\ list[1] # 0

Has(list, name) == \E i \in DOMAIN list : list[i] = name

\* sort.Strings: each name goes to its rank.
Rank(list, i) ==
    Cardinality({j \in DOMAIN list : list[j] < list[i] \/ (list[j] = list[i] /\ j <= i)})

Sorted(list) ==
    [k \in DOMAIN list |-> list[CHOOSE i \in DOMAIN list : Rank(list, i) = k]]

\* What remains of the lists after one call that looks at them: the whitelist sorted
\* if it is defined, else the blacklist if it is.
Consult(lists) ==
    CASE IsDefined(lists.white) -> [lists EXCEPT !.white = Sorted(@)]
      [] ~IsDefined(lists.white) /\ IsDefined(lists.black) ->
            [lists EXCEPT !.black = Sorted(@)]
      [] OTHER -> lists

\* The verdict on v. The search is binary, which on a sorted list finds what is there.
Blacklisted(lists, v) ==
    \/ v \in Unnamed
    \/ IsDefined(lists.white) /\ ~Has(lists.white, v)
    \/ ~IsDefined(lists.white) /\ IsDefined(lists.black) /\ Has(lists.black, v)

\* Mutant of Select: the blacklist has precedence.
SelectByBlacklist(lists, volumes, before) ==
    [kept |-> {v \in volumes : ~Has(lists.black, v) /\ v \notin Unnamed},
     lists |-> lists]

\* The lists once they have been consulted for a number of names. The second time
\* changes them only if the sorted whitelist turns out not to be defined, the third
\* time never does.
Consulted(lists, times) ==
    CASE times = 0 -> lists
      [] times = 1 -> Consult(lists)
      [] times > 1 -> Consult(Consult(lists))

\* The orders in which names may come: how many come before each.
Orders(names) ==
    {before \in [names -> 0..Cardinality(names) - 1] :
        \A v, w \in names : before[v] = before[w] => v = w}

\* The volumes of an answer that are kept, and the lists afterwards; of the names that
\* are looked up in the lists, before[v] come before v in the answer.
Select(lists, volumes, before) ==
    LET named == volumes \ Unnamed IN
    [kept |-> {v \in named : ~Blacklisted(Consulted(lists, before[v]), v)},
     lists |-> Consulted(lists, Cardinality(named))]

\* What README.md promises of the two options: the whitelist, if it names any volume,
\* names all that are backed up; else all but those on the blacklist are.
Names(list) == {list[i] : i \in DOMAIN list} \ {0}

Promised(lists) ==
    IF Names(lists.white) # {}
    THEN (Volumes \intersect Names(lists.white)) \ Unnamed
    ELSE (Volumes \ Names(lists.black)) \ Unnamed
=============================================================================
