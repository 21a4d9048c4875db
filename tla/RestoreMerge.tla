----------------------------- MODULE RestoreMerge -----------------------------
(***************************************************************************)
(* How a restore puts the files of a snapshot in place: restoreVolume      *)
(* (src/internal/engine/engine.go) has restic restore them in a working    *)
(* directory inside the volume, merges the top-level entries one by one    *)
(* (MergePaths, CopyFile, copyFileContents, src/internal/utils/utils.go)   *)
(* and removes that directory. File operations may fail, the agent may be  *)
(* killed between any two steps, and another restore of the snapshot may   *)
(* follow.                                                                 *)
(*                                                                         *)
(* Trees are two levels deep: a path is <<n>> or <<n, m>>, in the order    *)
(* entries are walked in. Nobody else writes to the volume meanwhile.      *)
(***************************************************************************)
EXTENDS Integers, FiniteSets

CONSTANTS
    Names,      \* of top-level entries
    Inner,      \* paths <<n, m>>
    Held,       \* paths that the snapshot may have
    Occupied,   \* paths that the volume may have
    Absolute,   \* paths of what leads to the snapshot from the root, and of what is in it
    Results,    \* how restic may end, "ok" or "error"
    MaxMishaps, \* bound on restores that are killed or cannot remove their directory
    Nowhere, NoName

Paths == {<<n>> : n \in Names} \union Inner

ASSUME MergeAssumption ==
    /\ Names \subseteq Nat /\ IsFiniteSet(Names)
    /\ Inner \subseteq Names \X Nat
    /\ Held \subseteq Paths /\ Occupied \subseteq Paths
    /\ Absolute \subseteq Paths /\ \A p \in Absolute : <<p[1]>> \in Absolute
    /\ Results \subseteq {"ok", "error"}
    /\ MaxMishaps \in Nat
    /\ Nowhere \notin Paths /\ NoName \notin Names

VARIABLES
    snapshot,   \* what is at each path in the snapshot
    link,       \* where its symbolic links lead
    before,     \* the volume before the first restore
    volume,     \* the volume; "work" is a working directory
    phase,
    work,       \* the working directory of the restore under way
    listed,     \* what `restic ls` has given: the "path" the snapshot was taken from,
                \* an "error", or output that has "none", which stands for the root
    result,     \* of `restic restore`
    dump,       \* what is left in restoreDumpPath
    files,      \* names in it that are still to be merged
    walk,       \* paths in the one being merged that Walk has still to visit
    writing,    \* copyFileContents has truncated the file it writes
    collision,  \* the entry that has the name of the working directory, if any
    aside,      \* where it is merged instead
    spoilt,     \* an operation of the restore on files has failed
    astray,     \* some restore has had no path
    mishaps     \* restores that were killed or could not remove their directory

givenVars == <<snapshot, link, before>>
mergeVars == <<dump, files, walk, writing, collision, aside>>
vars == <<givenVars, volume, phase, work, listed, result, mergeVars, spoilt, astray, mishaps>>

SourceKinds == {"absent", "file", "dir", "special", "link"}
TargetKinds == {"absent", "old", "torn", "new", "dir", "special", "work"}

Top(p) == <<p[1]>>
Below(n) == {p \in Paths : p[1] = n}

\* Only directories have entries.
IsTree(tree) == \A p \in Inner : tree[p] # "absent" => tree[Top(p)] = "dir"

TypeOK ==
    /\ snapshot \in [Paths -> SourceKinds] /\ dump \in [Paths -> SourceKinds]
    /\ link \in [Paths -> Paths \union {Nowhere}]
    /\ before \in [Paths -> TargetKinds]
    /\ volume \in [Paths -> TargetKinds] /\ aside \in [Paths -> TargetKinds]
    /\ IsTree(volume) /\ IsTree(aside) /\ IsTree(dump)
    /\ phase \in {"idle", "restic", "merge", "rename", "renamed", "done"}
    /\ work \in Names \union {NoName}
    /\ phase \in {"restic", "merge"} => volume[<<work>>] = "work"
    /\ listed \in {"path", "error", "none"}
    /\ writing \in BOOLEAN /\ spoilt \in BOOLEAN /\ astray \in BOOLEAN
    /\ collision \in Names \union {NoName}
    /\ result \in {"none", "ok", "error"}
    /\ files \subseteq Names
    /\ \A p \in walk : p[1] \in files
    /\ mishaps \in 0..MaxMishaps

Nothing == [p \in Paths |-> "absent"]

Trees(paths, kinds) ==
    {tree \in [Paths -> kinds \union {"absent"}] :
        IsTree(tree) /\ \A p \in Paths \ paths : tree[p] = "absent"}

\* Links lead to files or directories of the snapshot, or nowhere.
Links(tree) ==
    {to \in [Paths -> Held \union {Nowhere}] :
        \A p \in Paths :
            IF tree[p] = "link"
            THEN to[p] # Nowhere => tree[to[p]] \in {"file", "dir"}
            ELSE to[p] = Nowhere}

Init ==
    /\ snapshot \in Trees(Held, {"file", "dir", "special", "link"})
    /\ link \in Links(snapshot)
    /\ before \in Trees(Occupied, {"old", "dir", "special"})
    /\ volume = before
    /\ phase = "idle" /\ work = NoName
    /\ listed = "error" /\ result = "none"
    /\ dump = Nothing /\ files = {} /\ walk = {}
    /\ writing = FALSE /\ collision = NoName /\ aside = Nothing
    /\ spoilt = FALSE /\ astray = FALSE /\ mishaps = 0

-----------------------------------------------------------------------------
(* restoreVolume *)

\* Mutant of GetRandomFileName: the name is not looked up in the volume.
GetRandomFileNameUnchecked == Names

GetRandomFileName == {n \in Names : volume[<<n>>] = "absent"}

Begin(n, found) ==
    /\ phase = "idle"
    /\ n \in GetRandomFileName
    /\ phase' = "restic" /\ work' = n
    /\ listed' = found /\ astray' = (astray \/ found = "none")
    /\ volume' = [volume EXCEPT ![<<n>>] = "work"]
    /\ UNCHANGED <<givenVars, result, mergeVars, spoilt, mishaps>>

\* The directories that lead to the snapshot, with what is in them, if they are few.
Leading ==
    {tree \in [Paths -> {"absent", "file", "dir"}] :
        \A p \in Paths :
            IF p \in Absolute THEN tree[p] = "dir" \/ (p \in Inner /\ tree[p] = "file")
                              ELSE tree[p] = "absent"}

\* What restic restores, seen from restoreDumpPath. Without a path that is the working
\* directory itself, with all that leads to the entries; after an error it does not exist.
Restorable ==
    CASE listed = "path" -> {snapshot}
      [] listed = "none" -> Leading
      [] listed = "error" -> {Nothing}

\* What restic may have restored when it fails.
Partial(whole) ==
    {tree \in {[p \in Paths |-> IF p \in kept THEN whole[p] ELSE "absent"] :
                    kept \in SUBSET {p \in Paths : whole[p] # "absent"}} : IsTree(tree)}

\* The error of restic is not kept, nor is that of ReadDir, which leaves nothing to merge.
ResticEnds(r) ==
    /\ phase = "restic"
    /\ phase' = "merge" /\ result' = r
    /\ dump' \in IF r = "ok" THEN Restorable \union {Nothing}
                             ELSE UNION {Partial(tree) : tree \in Restorable}
    /\ spoilt' = (r = "ok" /\ dump' \notin Restorable)
    /\ files' = {n \in Names : dump'[<<n>>] # "absent"}
    /\ UNCHANGED <<givenVars, volume, work, listed, walk, writing, collision, aside, astray,
                   mishaps>>

\* The loop over files, in the order of ReadDir.
Current(n) == n \in files /\ \A o \in files : n <= o

\* The entry that has the name of the working directory is merged inside it.
Target(n) == IF n = work THEN aside ELSE volume

TargetBecomes(n, tree) ==
    IF n = work THEN aside' = tree /\ UNCHANGED volume
                ELSE volume' = tree /\ UNCHANGED aside

Collides(n) == collision' = IF n = work THEN n ELSE collision

\* The source is removed, whether it has been merged or not, or else stays where it is.
SourceRemoved(n) ==
    /\ files' = files \ {n}
    /\ dump' \in {[p \in Paths |-> IF p \in Below(n) THEN "absent" ELSE dump[p]], dump}
    /\ walk' = {}

-----------------------------------------------------------------------------
(* MergePaths *)

\* os.Stat of a source follows links, whose targets may have been removed.
Stat(p) ==
    IF dump[p] # "link" THEN dump[p]
    ELSE IF link[p] = Nowhere THEN "absent" ELSE dump[link[p]]

IsFile(kind) == kind \in {"old", "torn", "new"}
IsDir(kind) == kind \in {"dir", "work"}

\* os.RemoveAll
Without(tree, p) == [q \in Paths |-> IF p \in {q, Top(q)} THEN "absent" ELSE tree[q]]

\* What Walk visits: it does not follow links.
Visited(n) ==
    IF dump[<<n>>] = "dir" THEN {p \in Below(n) : dump[p] # "absent"} ELSE {<<n>>}

\* Mutant of MergePaths: any target makes room.
MergePathsReplacing(n) ==
    /\ phase = "merge" /\ Current(n) /\ walk = {}
    /\ Stat(<<n>>) # "absent"
    /\ walk' = Visited(n)
    /\ Collides(n)
    /\ TargetBecomes(n, IF Stat(<<n>>) = "dir" THEN Without(Target(n), <<n>>) ELSE Target(n))
    /\ UNCHANGED <<givenVars, phase, work, listed, result, dump, files, writing, spoilt, astray,
                   mishaps>>

\* A target that is not a directory makes room for one.
MergePaths(n) ==
    /\ phase = "merge" /\ Current(n) /\ walk = {}
    /\ Stat(<<n>>) # "absent"
    /\ walk' = Visited(n)
    /\ Collides(n)
    /\ TargetBecomes(n, IF Stat(<<n>>) = "dir" /\ ~IsDir(Target(n)[<<n>>])
                        THEN Without(Target(n), <<n>>) ELSE Target(n))
    /\ UNCHANGED <<givenVars, phase, work, listed, result, dump, files, writing, spoilt, astray,
                   mishaps>>

\* A link that leads nowhere, or an os.Stat or os.Remove that fails.
MergeFails(n) ==
    /\ phase = "merge" /\ Current(n) /\ walk = {}
    /\ spoilt' = (spoilt \/ Stat(<<n>>) # "absent")
    /\ SourceRemoved(n)
    /\ Collides(n)
    /\ UNCHANGED <<givenVars, volume, phase, work, listed, result, writing, aside, astray,
                   mishaps>>

\* Walk is at p: a directory comes before its entries.
Visits(p) ==
    /\ phase = "merge" /\ p \in walk
    /\ \A q \in walk \ {p} : p = Top(q) \/ (p \in Inner /\ q \in Inner /\ p[2] < q[2])
    /\ UNCHANGED <<givenVars, phase, work, listed, result, collision, astray, mishaps>>

Leaves(p) ==
    IF walk = {p} THEN SourceRemoved(p[1])
    ELSE walk' = walk \ {p} /\ UNCHANGED <<files, dump>>

\* os.MkdirAll
WithDirectory(tree, p) == [q \in Paths |-> IF q \in {p, Top(p)} THEN "dir" ELSE tree[q]]

MakeDirectory(p) ==
    /\ Visits(p) /\ dump[p] = "dir"
    /\ TargetBecomes(p[1], WithDirectory(Target(p[1]), p))
    /\ Leaves(p)
    /\ UNCHANGED writing

\* Its error is not looked at, and what was in the way is gone.
MakeDirectoryFails(p) ==
    /\ Visits(p) /\ dump[p] = "dir" /\ ~IsDir(Target(p[1])[p])
    /\ TargetBecomes(p[1], Without(Target(p[1]), p))
    /\ Leaves(p)
    /\ UNCHANGED writing

-----------------------------------------------------------------------------
(* CopyFile *)

\* The error ends the walk.
CopyFails(p) ==
    /\ Visits(p) /\ Stat(p) = "absent"
    /\ SourceRemoved(p[1])
    /\ UNCHANGED <<volume, aside, writing>>

\* The directory of the target could not be made.
Adrift(p) == p \in Inner /\ Target(p[1])[Top(p)] # "dir"

\* What is not a regular file is not copied, devices and sockets are not replaced, and
\* the error is dropped that there is no directory.
CopySkips(p) ==
    /\ Visits(p) /\ dump[p] # "dir"
    /\ \/ Stat(p) \in {"special", "dir"}
       \/ Stat(p) = "file" /\ (Target(p[1])[p] = "special" \/ Adrift(p))
    /\ Leaves(p)
    /\ UNCHANGED <<volume, aside, writing>>

\* Where a file can be written. A directory makes room.
Writable(p) == Stat(p) = "file" /\ Target(p[1])[p] # "special" /\ ~Adrift(p)

\* os.Link
LinkFile(p) ==
    /\ Visits(p) /\ Writable(p) /\ ~IsFile(Target(p[1])[p])
    /\ TargetBecomes(p[1], [Without(Target(p[1]), p) EXCEPT ![p] = "new"])
    /\ Leaves(p)
    /\ UNCHANGED writing

\* It fails on an existing file, and may fail otherwise: os.WriteFile truncates ...
Truncates(p) ==
    /\ Visits(p) /\ Writable(p) /\ ~writing
    /\ writing' = TRUE
    /\ TargetBecomes(p[1], [Without(Target(p[1]), p) EXCEPT ![p] = "torn"])
    /\ UNCHANGED <<walk, files, dump>>

\* ... and writes.
Writes(p) ==
    /\ Visits(p) /\ writing
    /\ writing' = FALSE
    /\ TargetBecomes(p[1], [Target(p[1]) EXCEPT ![p] = "new"])
    /\ Leaves(p)

\* The disk is full. The error ends the walk, and what was truncated stays so.
WriteFails(p) ==
    /\ Visits(p) /\ writing
    /\ writing' = FALSE
    /\ SourceRemoved(p[1])
    /\ UNCHANGED <<volume, aside>>

\* Another operation fails and ends the walk: the directory that makes room for a file
\* may have lost some of its entries, or all.
WalkFails(p) ==
    /\ Visits(p) /\ ~writing
    /\ \E gone \in SUBSET {q \in Paths : p \in {q, Top(q)}} :
        /\ gone # {} => Writable(p) /\ IsDir(Target(p[1])[p])
        /\ p \in gone => \A q \in Paths : Top(q) = p => q \in gone
        /\ TargetBecomes(p[1], [q \in Paths |-> IF q \in gone THEN "absent" ELSE Target(p[1])[q]])
    /\ SourceRemoved(p[1])
    /\ UNCHANGED writing

-----------------------------------------------------------------------------
(* The end *)

Merged == phase = "merge" /\ files = {}

\* Nothing is left of the sources either.
Ends ==
    /\ phase' = "done"
    /\ dump' = Nothing /\ aside' = Nothing /\ collision' = NoName
    /\ UNCHANGED <<givenVars, work, listed, result, files, walk, writing, astray>>

\* Mutant of RemoveWork: the directory is left when it has had to be renamed.
RemoveWorkUnlessRenamed ==
    /\ (Merged /\ collision = NoName) \/ phase = "renamed"
    /\ volume' = IF phase = "renamed" THEN volume ELSE Without(volume, <<work>>)
    /\ Ends
    /\ UNCHANGED <<spoilt, mishaps>>

RemoveWork ==
    /\ (Merged /\ collision = NoName) \/ phase = "renamed"
    /\ volume' = Without(volume, <<work>>)
    /\ Ends
    /\ UNCHANGED <<spoilt, mishaps>>

\* The working directory gets another name ...
RenameWork(n) ==
    /\ Merged /\ collision # NoName
    /\ n \in GetRandomFileName
    /\ phase' = "rename" /\ work' = n
    /\ volume' = [volume EXCEPT ![<<work>>] = "absent", ![<<n>>] = "work"]
    /\ UNCHANGED <<givenVars, listed, result, mergeVars, spoilt, astray, mishaps>>

\* Mutant of RenameEntry: the entry stays where it was merged.
RenameEntryForgotten ==
    /\ phase = "rename" /\ phase' = "renamed"
    /\ UNCHANGED <<givenVars, volume, work, listed, result, mergeVars, spoilt, astray, mishaps>>

\* ... and the entry gets its own.
RenameEntry ==
    /\ phase = "rename" /\ phase' = "renamed"
    /\ volume' = [p \in Paths |-> IF p \in Below(collision) THEN aside[p] ELSE volume[p]]
    /\ UNCHANGED <<givenVars, work, listed, result, mergeVars, spoilt, astray, mishaps>>

\* If that fails the entry is removed with the working directory.
RenameEntryFails ==
    /\ phase = "rename" /\ phase' = "renamed"
    /\ spoilt' = TRUE
    /\ UNCHANGED <<givenVars, volume, work, listed, result, mergeVars, astray, mishaps>>

\* The working directory stays: its removal fails, or its renaming, and with that all
\* that follows.
WorkStays ==
    /\ Merged \/ phase = "renamed"
    /\ mishaps < MaxMishaps /\ mishaps' = mishaps + 1
    /\ spoilt' = (spoilt \/ (Merged /\ collision # NoName))
    /\ Ends
    /\ UNCHANGED volume

\* What the agent has done to the volume stays.
Forgotten ==
    /\ phase' = "idle" /\ work' = NoName
    /\ listed' = "error" /\ result' = "none"
    /\ dump' = Nothing /\ files' = {} /\ walk' = {}
    /\ writing' = FALSE /\ collision' = NoName /\ aside' = Nothing
    /\ spoilt' = FALSE
    /\ UNCHANGED <<givenVars, volume, astray>>

Die ==
    /\ phase \notin {"idle", "done"}
    /\ mishaps < MaxMishaps /\ mishaps' = mishaps + 1
    /\ Forgotten

\* A restore after one that has run to its end.
Again ==
    /\ phase = "done"
    /\ Forgotten
    /\ UNCHANGED mishaps

Copies(p) ==
    \/ MakeDirectory(p) \/ CopyFails(p) \/ CopySkips(p)
    \/ LinkFile(p) \/ Truncates(p) \/ Writes(p)

Fails(p) == MakeDirectoryFails(p) \/ WriteFails(p) \/ WalkFails(p)

Visit(p) ==
    \/ Copies(p) /\ UNCHANGED spoilt
    \/ Fails(p) /\ spoilt' = TRUE

Next ==
    \/ \E n \in Names :
        \/ \E found \in {"path", "error", "none"} : Begin(n, found)
        \/ MergePaths(n) \/ MergeFails(n) \/ RenameWork(n)
    \/ \E r \in Results : ResticEnds(r)
    \/ \E p \in Paths : Visit(p)
    \/ RemoveWork \/ RenameEntry \/ RenameEntryFails \/ WorkStays \/ Die \/ Again

Spec == Init /\ [][Next]_vars

-----------------------------------------------------------------------------
(* Properties *)

\* Links that MergePaths finds broken: their target has been merged and removed before.
Broken(p) == snapshot[p] = "link" /\ (link[p] = Nowhere \/ link[p][1] < p[1])

\* Regular files, and links to them.
Regular(p) ==
    \/ snapshot[p] = "file"
    \/ snapshot[p] = "link" /\ link[p] # Nowhere /\ snapshot[link[p]] = "file"

\* A restore that runs to its end and has no operation on files fail, also after others
\* that were killed half-way, went astray or failed, and whatever the name of its working
\* directory, leaves every file and directory of the entries without broken links in
\* place, except where the volume has a device or a socket.
InPlace ==
    phase = "done" /\ result = "ok" /\ listed = "path" /\ ~spoilt =>
        \A n \in Names : (\A p \in Below(n) : ~Broken(p)) =>
            \A p \in Below(n) :
                /\ Regular(p) /\ before[p] # "special" => volume[p] = "new"
                /\ snapshot[p] = "dir" => volume[p] = "dir"

\* What restores may write to: the paths of the snapshot, and those that lead to it from
\* the root once a restore has had no path to look for them at.
Concerned(p) == snapshot[p] # "absent" \/ (astray /\ p \in Absolute)

\* What the volume has beside that stays, at every moment, whatever fails, but for what
\* is below the files of the snapshot.
Untouched ==
    \A p \in Paths :
        /\ before[p] # "absent" /\ ~Concerned(p)
        /\ Regular(Top(p)) => p = Top(p)
        => volume[p] = before[p]

\* Each restore that was killed or failed to remove its working directory leaves at most
\* that directory in the volume, and the others leave nothing.
Residue ==
    Cardinality({n \in Names : before[<<n>>] = "absent" /\ ~Concerned(<<n>>)
                               /\ volume[<<n>>] # "absent"})
        <= mishaps + (IF phase \in {"idle", "done"} THEN 0 ELSE 1)

\* agent.go: "Restore runs Restic commands to restore backed up data to a new volume": the
\* report of every restore that runs to its end has exit code 0, and says then that the
\* files and directories of the snapshot are in the volume.
Restored ==
    phase = "done" =>
        \A p \in Paths :
            /\ Regular(p) => volume[p] = "new"
            /\ snapshot[p] = "dir" => volume[p] = "dir"
=============================================================================
