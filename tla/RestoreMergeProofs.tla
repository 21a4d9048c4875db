-------------------------- MODULE RestoreMergeProofs --------------------------
(***************************************************************************)
(* Theorems about RestoreMerge, for any volume and snapshot and any number *)
(* of restores that fail or are killed: what the restores are not about    *)
(* stays, what they are about gets in place if no operation fails, and     *)
(* each leaves one directory at most.                                      *)
(***************************************************************************)
EXTENDS RestoreMerge, FiniteSetTheorems, TLAPS

-----------------------------------------------------------------------------
(* The inductive invariant *)

Active == phase \notin {"idle", "done"}

\* What a restore is given does not change.
Given ==
    /\ IsTree(snapshot) /\ IsTree(before)
    /\ \A p \in Paths :
        /\ before[p] \in {"absent", "old", "dir", "special"}
        /\ snapshot[p] = "link" /\ link[p] # Nowhere =>
                snapshot[link[p]] \in {"file", "dir"}

\* A part of the snapshot, or of what leads to it.
Leads(p, kind) == p \in Absolute /\ (kind = "dir" \/ (p \in Inner /\ kind = "file"))

PartOf(tree) ==
    \/ \A p \in Paths : tree[p] \in {"absent", snapshot[p]}
    \/ astray /\ \A p \in Paths : tree[p] = "absent" \/ Leads(p, tree[p])

\* The sources that are left, and those that Walk has still to visit.
Sources ==
    /\ PartOf(dump)
    /\ \A n \in files : dump[<<n>>] # "absent"
    /\ listed = "none" => astray
    /\ phase \in {"idle", "restic"} => files = {} /\ collision = NoName
    /\ phase \in {"rename", "renamed", "done"} => files = {}
    /\ walk # {} => phase = "merge"
    /\ \A p \in walk : p \in Paths /\ dump[p] # "absent" /\ Current(p[1])

\* Directories are made before what is in them, or could not be made.
TopFirst ==
    \A p \in walk : p \in Inner /\ Top(p) \notin walk =>
        \/ Target(p[1])[Top(p)] = "dir"
        \/ spoilt /\ Target(p[1])[Top(p)] = "absent"

\* Where Walk is.
First(p) ==
    \A q \in walk \ {p} : p = Top(q) \/ (p \in Inner /\ q \in Inner /\ p[2] < q[2])

\* A file that is being written is the one Walk is at.
Torn ==
    writing => /\ walk # {}
               /\ \A p \in walk : First(p) => Stat(p) = "file" /\ Target(p[1])[p] = "torn"

\* The working directory of the restore under way, and the entry with its name.
Working ==
    /\ Active => work \in Names /\ volume[<<work>>] = "work"
    /\ phase = "merge" => collision \in {NoName, work}
    /\ \A p \in walk : p[1] = work => collision = work
    /\ phase \in {"rename", "renamed"} => collision \notin {NoName, work}
    /\ phase = "rename" => volume[<<collision>>] = "absent"
    /\ collision # NoName => Concerned(<<collision>>)

\* What the volume has beside that, which is not in the way of the restore.
Kept(p) ==
    /\ before[p] # "absent" /\ ~Concerned(p)
    /\ Regular(Top(p)) => p = Top(p)

Spared == \A p \in Paths : Kept(p) => volume[p] = before[p] /\ p[1] # collision

\* Working directories that were left behind, but for the one in use.
Strays == {n \in Names : before[<<n>>] = "absent" /\ ~Concerned(<<n>>)
                         /\ volume[<<n>>] # "absent"}

Left == IF Active THEN Strays \ {work} ELSE Strays

LeftBounded == Cardinality(Left) <= mishaps

\* A restore that nothing has gone wrong with so far.
Smooth == phase \notin {"idle", "restic"} /\ result = "ok" /\ listed = "path" /\ ~spoilt

\* It merges the entries of the snapshot in the order of their names.
InOrder ==
    Smooth =>
        /\ \A p \in Paths : p[1] \in files => dump[p] = snapshot[p]
        /\ \A n \in Names \ files, o \in files : snapshot[<<n>>] # "absent" => n < o

\* Devices and sockets are those that were there.
Specials ==
    \A p \in Paths : (volume[p] = "special" => before[p] = "special") /\ aside[p] # "special"

Placed(p, tree) ==
    /\ Regular(p) /\ before[p] # "special" => tree[p] = "new"
    /\ snapshot[p] = "dir" => tree[p] = "dir"

Whole(n) == \A p \in Below(n) : ~Broken(p)

\* Where an entry is until the end.
Place(n) == IF phase \in {"merge", "rename"} /\ n = collision THEN aside ELSE volume

\* All that has been merged, and visited in the entry that is being merged, is in place.
Merging ==
    Smooth =>
        \A n \in Names : Whole(n) =>
            \A p \in Below(n) :
                n \notin files \/ (walk # {} /\ Current(n) /\ p \notin walk)
                    => Placed(p, Place(n))

MergeInv ==
    /\ TypeOK /\ Given /\ Sources /\ TopFirst /\ Torn /\ Working
    /\ Spared /\ LeftBounded
    /\ InOrder /\ Specials /\ Merging

-----------------------------------------------------------------------------
(* Paths, trees and counts *)

\* Paths have one name or two.
LEMMA Shapes ==
    /\ \A n \in Names : <<n>> \in Paths /\ <<n>> \notin Inner /\ <<n>>[1] = n
    /\ \A p \in Inner : p \in Paths /\ p[2] \in Nat /\ Top(p) \in Paths
    /\ \A p \in Paths : /\ p[1] \in Names /\ Top(p) = <<p[1]>>
                        /\ p \notin Inner => p = Top(p)
    /\ \A m, n \in Names : <<m>> = <<n>> => m = n
    /\ NoName \notin Names /\ Nowhere \notin Paths
    /\ \A n \in Names : Below(n) = {p \in Paths : p[1] = n} /\ n \in Nat
BY MergeAssumption DEF Paths, Top, Below

LEMMA LeftKept ==
    ASSUME LeftBounded, Left' \subseteq Left, mishaps' = mishaps, mishaps \in Nat
    PROVE  LeftBounded'
<1>1. IsFiniteSet(Left)
  BY MergeAssumption, FS_Subset DEF Left, Strays
<1>2. Cardinality(Left') <= Cardinality(Left) /\ IsFiniteSet(Left')
  BY <1>1, FS_Subset
<1>3. Cardinality(Left) \in Nat /\ Cardinality(Left') \in Nat
  BY <1>1, <1>2, FS_CardinalityType
<1>4. QED
  BY <1>2, <1>3 DEF LeftBounded

LEMMA Targets ==
    ASSUME MergeInv, NEW n \in Names
    PROVE  Target(n) \in [Paths -> TargetKinds] /\ IsTree(Target(n))
BY DEF MergeInv, TypeOK, Target

LEMMA LeftOneMore ==
    ASSUME LeftBounded, NEW n \in Names, Left' \subseteq Left \union {n},
           mishaps' = mishaps + 1, mishaps \in Nat
    PROVE  LeftBounded'
<1>1. IsFiniteSet(Left) /\ Cardinality(Left) \in Nat
  BY MergeAssumption, FS_Subset, FS_CardinalityType DEF Left, Strays
<1>2. /\ IsFiniteSet(Left \union {n})
      /\ \/ Cardinality(Left \union {n}) = Cardinality(Left)
         \/ Cardinality(Left \union {n}) = Cardinality(Left) + 1
  BY <1>1, FS_AddElement
<1>3. Cardinality(Left') <= Cardinality(Left \union {n}) /\ IsFiniteSet(Left')
  BY <1>2, FS_Subset
<1>4. Cardinality(Left') \in Nat
  BY <1>3, FS_CardinalityType
<1>5. QED
  BY <1>1, <1>2, <1>3, <1>4 DEF LeftBounded

\* The entry that is being merged is the first of those that are left.
LEMMA After ==
    ASSUME MergeInv, NEW n \in Names, Current(n)
    PROVE  /\ \A o \in files \ {n} : n < o
           /\ \A m \in Names : Current(m) => m = n
<1>1. files \subseteq Nat /\ n \in Nat /\ Names \subseteq Nat
  BY MergeAssumption DEF MergeInv, TypeOK
<1>2. \A o \in files : n <= o
  BY DEF Current
<1>3. \A m \in Names : Current(m) => m <= n /\ n <= m
  BY DEF Current
<1>4. QED
  BY <1>1, <1>2, <1>3

\* Where Walk is, the restore is about the source, and its directory is there or could not
\* be made.
LEMMA Visiting ==
    ASSUME MergeInv, NEW p \in Paths, Visits(p)
    PROVE  /\ phase = "merge" /\ p \in walk /\ p[1] \in files /\ First(p) /\ Current(p[1])
           /\ dump[p] # "absent"
           /\ Concerned(p) /\ Concerned(Top(p))
           /\ Stat(p) = "file" => Regular(p) \/ p \in Inner
           /\ p \in Inner => \/ Target(p[1])[Top(p)] = "dir"
                             \/ spoilt /\ Target(p[1])[Top(p)] = "absent"
           /\ p \in Inner => dump[Top(p)] = "dir"
<1> USE Shapes DEF MergeInv
<1>1. phase = "merge" /\ p \in walk /\ First(p)
  BY DEF Visits, First
<1>2. p[1] \in files /\ Current(p[1]) /\ dump[p] # "absent"
  BY <1>1 DEF TypeOK, Sources
<1>3. \A q \in Paths : dump[q] # "absent" => Concerned(q)
  BY DEF Sources, PartOf, Leads, Concerned
<1>4. dump[Top(p)] # "absent" /\ (p \in Inner => dump[Top(p)] = "dir")
  BY <1>2 DEF TypeOK, IsTree
<1>5. p \in Inner => Top(p) \notin walk
  BY <1>1 DEF First
<1>6. Stat(p) = "file" => Regular(p) \/ p \in Inner
  <2>1. CASE dump[p] = "link"
    BY <2>1, MergeAssumption DEF Sources, PartOf, Leads, Stat, Regular, Given, TypeOK
  <2>2. CASE dump[p] # "link"
    BY <1>2, <2>2 DEF Sources, PartOf, Leads, Stat, Regular
  <2>3. QED
    BY <2>1, <2>2
<1>7. QED
  BY <1>1, <1>2, <1>3, <1>4, <1>5, <1>6 DEF TopFirst

\* Of an entry that has no broken links os.Stat finds everything.
LEMMA Found ==
    ASSUME MergeInv, Smooth, NEW p \in Paths, p[1] \in files, Current(p[1]),
           Whole(p[1]), dump[p] # "absent"
    PROVE  /\ Stat(p) # "absent" /\ dump[p] = snapshot[p]
           /\ Regular(p) => Stat(p) = "file"
<1> USE MergeAssumption, Shapes DEF MergeInv
<1>1. dump[p] = snapshot[p] /\ ~Broken(p)
  <2>1. p \in Below(p[1])
    BY DEF Below
  <2>2. QED
    BY <2>1 DEF InOrder, Whole
<1>2. CASE snapshot[p] # "link"
  BY <1>1, <1>2 DEF Stat, Regular
<1>3. CASE snapshot[p] = "link"
  <2> DEFINE q == link[p]
  <2>1. q \in Paths /\ ~(q[1] < p[1]) /\ snapshot[q] \in {"file", "dir"}
    BY <1>1, <1>3 DEF Broken, TypeOK, Given
  <2>2. snapshot[<<q[1]>>] # "absent"
    BY <2>1 DEF Given, IsTree
  <2>3. q[1] \in files
    BY <2>1, <2>2 DEF InOrder
  <2>4. dump[q] = snapshot[q]
    BY <2>1, <2>3 DEF InOrder
  <2>5. QED
    BY <1>1, <1>3, <2>1, <2>4 DEF Stat, Regular
<1>4. QED
  BY <1>2, <1>3

-----------------------------------------------------------------------------
(* What a visit writes *)

\* The target has become t: at p, below which a file makes room for itself, and where the
\* directory is made that p is in.
Wrote(p, t) ==
    /\ t \in [Paths -> TargetKinds] /\ IsTree(t)
    /\ \A q \in Paths \ {p} :
        \/ t[q] = Target(p[1])[q]
        \/ t[q] = "absent" /\ Top(q) = p /\ Regular(p)
        \/ t[q] = "dir" /\ q = Top(p) /\ dump[q] = "dir"
    /\ t[p] = Target(p[1])[p] \/ t[p] \in {"absent", "dir", "torn", "new"}

\* A visit truncates a file, is over, or ends the walk.
VisitStep(p, t) ==
    /\ Visits(p) /\ Wrote(p, t) /\ TargetBecomes(p[1], t)
    /\ spoilt' \in {spoilt, TRUE}
    /\ \/ /\ writing' = TRUE /\ UNCHANGED <<walk, files, dump>>
          /\ Stat(p) = "file" /\ t[p] = "torn"
       \/ /\ writing' = FALSE /\ Leaves(p)
          /\ dump[p] = "dir" => t[p] = "dir" \/ (spoilt' /\ t[p] = "absent")
          /\ Smooth /\ Whole(p[1]) => spoilt' \/ Placed(p, t)
       \/ /\ writing' = FALSE /\ SourceRemoved(p[1])
          /\ Stat(p) = "absent" \/ spoilt'

LEMMA NotWriting ==
    ASSUME MergeInv, NEW p \in Paths, Visits(p),
           Stat(p) # "file" \/ Target(p[1])[p] # "torn"
    PROVE  writing = FALSE
<1>1. p \in walk /\ First(p)
  BY Visiting
<1>2. QED
  BY <1>1 DEF MergeInv, Torn, TypeOK

LEMMA MakeDirectoryStep ==
    ASSUME MergeInv, NEW p \in Paths, MakeDirectory(p), UNCHANGED spoilt
    PROVE  \E t : VisitStep(p, t)
<1> DEFINE t == WithDirectory(Target(p[1]), p)
<1>1. Visits(p) /\ dump[p] = "dir" /\ TargetBecomes(p[1], t) /\ Leaves(p)
  BY DEF MakeDirectory
<1>2. t = [q \in Paths |-> IF q \in {p, Top(p)} THEN "dir" ELSE Target(p[1])[q]]
  BY DEF WithDirectory
<1> HIDE DEF t
<1>3. t \in [Paths -> TargetKinds]
  BY <1>2, Targets, Shapes DEF TargetKinds
<1>4. IsTree(t)
  BY <1>2, Shapes, Targets DEF IsTree
<1>5. t[p] = "dir" /\ Wrote(p, t)
  BY <1>1, <1>2, <1>3, <1>4, Shapes, Visiting DEF Wrote
<1>6. ASSUME Smooth PROVE Placed(p, t)
  <2>1. snapshot[p] = "dir"
    BY <1>1, <1>6, Visiting DEF MergeInv, InOrder
  <2>2. QED
    BY <1>5, <2>1 DEF Placed, Regular
<1>7. writing' = FALSE
  BY <1>1, NotWriting DEF MakeDirectory, Stat
<1>8. QED
  BY <1>1, <1>5, <1>6, <1>7 DEF VisitStep

LEMMA MakeDirectoryFailsStep ==
    ASSUME MergeInv, NEW p \in Paths, MakeDirectoryFails(p), spoilt' = TRUE
    PROVE  \E t : VisitStep(p, t)
<1> DEFINE t == Without(Target(p[1]), p)
<1>1. /\ Visits(p) /\ dump[p] = "dir" /\ ~IsDir(Target(p[1])[p])
      /\ TargetBecomes(p[1], t) /\ Leaves(p)
  BY DEF MakeDirectoryFails
<1>2. \A q \in Paths : Top(q) = p /\ q # p => Target(p[1])[q] = "absent"
  BY <1>1, Shapes, Targets DEF IsTree, IsDir
<1>3. t = [q \in Paths |-> IF p \in {q, Top(q)} THEN "absent" ELSE Target(p[1])[q]]
  BY DEF Without
<1> HIDE DEF t
<1>4. t \in [Paths -> TargetKinds]
  BY <1>3, Targets, Shapes DEF TargetKinds
<1>5. IsTree(t)
  BY <1>3, Shapes, Targets DEF IsTree
<1>6. t[p] = "absent" /\ Wrote(p, t)
  BY <1>2, <1>3, <1>4, <1>5 DEF Wrote
<1>7. writing' = FALSE
  BY <1>1, NotWriting DEF MakeDirectoryFails, Stat
<1>8. QED
  BY <1>1, <1>6, <1>7 DEF VisitStep

LEMMA CopyFailsStep ==
    ASSUME MergeInv, NEW p \in Paths, CopyFails(p), UNCHANGED spoilt
    PROVE  \E t : VisitStep(p, t)
<1> DEFINE t == Target(p[1])
<1>1. Visits(p) /\ Stat(p) = "absent" /\ SourceRemoved(p[1])
  BY DEF CopyFails
<1>2. Wrote(p, t)
  BY Shapes, Targets DEF Wrote
<1>3. TargetBecomes(p[1], t)
  BY DEF CopyFails, TargetBecomes, Target
<1>4. writing' = FALSE
  BY <1>1, NotWriting DEF CopyFails
<1>5. QED
  BY <1>1, <1>2, <1>3, <1>4 DEF VisitStep

LEMMA CopySkipsStep ==
    ASSUME MergeInv, NEW p \in Paths, CopySkips(p), UNCHANGED spoilt
    PROVE  \E t : VisitStep(p, t)
<1> DEFINE t == Target(p[1])
<1>1. Visits(p) /\ dump[p] # "dir" /\ Leaves(p)
  BY DEF CopySkips
<1>2. Wrote(p, t)
  BY Shapes, Targets DEF Wrote
<1>3. TargetBecomes(p[1], t)
  BY DEF CopySkips, TargetBecomes, Target
<1>4. Stat(p) # "file" \/ Target(p[1])[p] # "torn"
  BY <1>1, Shapes, Targets, Visiting DEF CopySkips, Adrift, IsTree
<1>5. writing' = FALSE
  BY <1>1, <1>4, NotWriting DEF CopySkips
<1>6. ASSUME Smooth, Whole(p[1]) PROVE Placed(p, t)
  <2>1. Regular(p) => Stat(p) = "file"
    BY <1>1, <1>6, Visiting, Found
  <2>2. ~Adrift(p)
    BY <1>1, <1>6, Visiting DEF Adrift, Smooth
  <2>3. Regular(p) => before[p] = "special"
    BY <2>1, <2>2 DEF CopySkips, Target, MergeInv, Specials
  <2>4. snapshot[p] # "dir"
    BY <1>1, <1>6, Visiting DEF MergeInv, InOrder
  <2>5. QED
    BY <2>3, <2>4 DEF Placed
<1>7. QED
  BY <1>1, <1>2, <1>3, <1>5, <1>6 DEF VisitStep

\* A file is written where there is something else, or nothing.
LEMMA Replaced ==
    ASSUME MergeInv, NEW p \in Paths, Visits(p), Writable(p), NEW kind \in {"torn", "new"},
           NEW t, t = [Without(Target(p[1]), p) EXCEPT ![p] = kind]
    PROVE  Wrote(p, t) /\ t[p] = kind /\ dump[p] # "dir"
<1>1. Stat(p) = "file" /\ ~Adrift(p)
  BY DEF Writable
<1>2. (Regular(p) \/ p \in Inner) /\ dump[p] # "dir"
  BY <1>1, Visiting DEF Stat
<1>3. t = [q \in Paths |-> IF q = p THEN kind
                           ELSE IF p = Top(q) THEN "absent" ELSE Target(p[1])[q]]
  BY DEF Without
<1>4. Target(p[1]) \in [Paths -> TargetKinds] /\ IsTree(Target(p[1]))
  BY Targets, Shapes
<1>5. t[p] = kind
  BY <1>3
<1>6. t \in [Paths -> TargetKinds]
  <2> DEFINE e(q) == IF q = p THEN kind ELSE IF p = Top(q) THEN "absent" ELSE Target(p[1])[q]
  <2>1. \A q \in Paths : e(q) \in TargetKinds
    BY <1>4 DEF TargetKinds
  <2>2. t = [q \in Paths |-> e(q)]
    BY <1>3
  <2> HIDE DEF e
  <2>3. QED
    BY <2>1, <2>2
<1>7. IsTree(t)
  BY <1>1, <1>3, <1>4, Shapes DEF IsTree, Adrift
<1>8. QED
  BY <1>2, <1>3, <1>5, <1>6, <1>7, Shapes DEF Wrote

LEMMA LinkFileStep ==
    ASSUME MergeInv, NEW p \in Paths, LinkFile(p), UNCHANGED spoilt
    PROVE  \E t : VisitStep(p, t)
<1> DEFINE t == [Without(Target(p[1]), p) EXCEPT ![p] = "new"]
<1>1. /\ Visits(p) /\ Writable(p) /\ Target(p[1])[p] # "torn"
      /\ TargetBecomes(p[1], t) /\ Leaves(p)
  BY DEF LinkFile, IsFile
<1>2. Wrote(p, t) /\ t[p] = "new" /\ dump[p] # "dir"
  BY <1>1, Replaced
<1>3. ASSUME Smooth PROVE Placed(p, t)
  BY <1>1, <1>2, <1>3, Visiting DEF Placed, MergeInv, InOrder
<1>4. writing' = FALSE
  BY <1>1, NotWriting DEF LinkFile
<1>5. QED
  BY <1>1, <1>2, <1>3, <1>4 DEF VisitStep

LEMMA TruncatesStep ==
    ASSUME MergeInv, NEW p \in Paths, Truncates(p), UNCHANGED spoilt
    PROVE  \E t : VisitStep(p, t)
<1> DEFINE t == [Without(Target(p[1]), p) EXCEPT ![p] = "torn"]
<1>1. /\ Visits(p) /\ Writable(p) /\ Stat(p) = "file"
      /\ TargetBecomes(p[1], t) /\ writing' = TRUE /\ UNCHANGED <<walk, files, dump>>
  BY DEF Truncates, Writable
<1>2. Wrote(p, t) /\ t[p] = "torn"
  BY <1>1, Replaced
<1>3. QED
  BY <1>1, <1>2 DEF VisitStep

LEMMA WritesStep ==
    ASSUME MergeInv, NEW p \in Paths, Writes(p), UNCHANGED spoilt
    PROVE  \E t : VisitStep(p, t)
<1> DEFINE t == [Target(p[1]) EXCEPT ![p] = "new"]
<1>1. /\ Visits(p) /\ writing /\ TargetBecomes(p[1], t)
      /\ Leaves(p) /\ writing' = FALSE
  BY DEF Writes
<1>2. Stat(p) = "file" /\ Target(p[1])[p] = "torn"
  BY <1>1, Visiting DEF MergeInv, Torn
<1>3. Wrote(p, t)
  BY <1>1, <1>2, Shapes, Targets DEF Wrote, IsTree, TargetKinds
<1>4. t[p] = "new" /\ dump[p] # "dir"
  BY <1>2, Shapes, Targets DEF Stat
<1>5. ASSUME Smooth PROVE Placed(p, t)
  BY <1>1, <1>4, <1>5, Visiting DEF Placed, MergeInv, InOrder
<1>6. QED
  BY <1>1, <1>3, <1>4, <1>5 DEF VisitStep

LEMMA WriteFailsStep ==
    ASSUME MergeInv, NEW p \in Paths, WriteFails(p), spoilt' = TRUE
    PROVE  \E t : VisitStep(p, t)
<1> DEFINE t == Target(p[1])
<1>1. Visits(p) /\ SourceRemoved(p[1]) /\ writing' = FALSE
  BY DEF WriteFails
<1>2. Wrote(p, t)
  BY Shapes, Targets DEF Wrote
<1>3. TargetBecomes(p[1], t)
  BY DEF WriteFails, TargetBecomes, Target
<1>4. QED
  BY <1>1, <1>2, <1>3 DEF VisitStep

LEMMA WalkFailsStep ==
    ASSUME MergeInv, NEW p \in Paths, WalkFails(p), spoilt' = TRUE
    PROVE  \E t : VisitStep(p, t)
<1>1. Visits(p) /\ SourceRemoved(p[1]) /\ writing' = FALSE
  BY DEF WalkFails, MergeInv, TypeOK
<1>2. PICK gone \in SUBSET {q \in Paths : p \in {q, Top(q)}} :
        /\ gone # {} => Writable(p)
        /\ p \in gone => \A q \in Paths : Top(q) = p => q \in gone
        /\ TargetBecomes(p[1], [q \in Paths |-> IF q \in gone THEN "absent"
                                                ELSE Target(p[1])[q]])
  BY DEF WalkFails
<1> DEFINE t == [q \in Paths |-> IF q \in gone THEN "absent" ELSE Target(p[1])[q]]
<1>3. gone # {} => Regular(p) \/ p \in Inner
  BY <1>1, <1>2, Visiting DEF Writable
<1>4. t \in [Paths -> TargetKinds]
  BY Targets, Shapes DEF TargetKinds
<1>5. IsTree(t)
  BY <1>2, Shapes, Targets DEF IsTree
<1>6. Wrote(p, t)
  BY <1>2, <1>3, <1>4, <1>5, Shapes DEF Wrote
<1>7. QED
  BY <1>1, <1>2, <1>6 DEF VisitStep

LEMMA VisitSteps ==
    ASSUME MergeInv, NEW p \in Paths, Visit(p)
    PROVE  \E t : VisitStep(p, t)
<1>1. CASE Copies(p) /\ UNCHANGED spoilt
  BY <1>1, MakeDirectoryStep, CopyFailsStep, CopySkipsStep, LinkFileStep, TruncatesStep,
     WritesStep DEF Copies
<1>2. CASE Fails(p) /\ spoilt' = TRUE
  BY <1>2, MakeDirectoryFailsStep, WriteFailsStep, WalkFailsStep DEF Fails
<1>3. QED
  BY <1>1, <1>2 DEF Visit

\* Between two visits Walk is at one path.
LEMMA OneFirst ==
    ASSUME NEW p \in walk, NEW q \in walk, walk \subseteq Paths, First(p), First(q)
    PROVE  p = q
<1>1. SUFFICES ASSUME p # q PROVE FALSE
  OBVIOUS
<1>2. p = Top(q) \/ (p \in Inner /\ q \in Inner /\ p[2] < q[2])
  BY <1>1 DEF First
<1>3. q = Top(p) \/ (p \in Inner /\ q \in Inner /\ q[2] < p[2])
  BY <1>1 DEF First
<1>4. CASE p \in Inner /\ q \in Inner
  BY <1>1, <1>2, <1>3, <1>4, Shapes
<1>5. CASE ~(p \in Inner /\ q \in Inner)
  BY <1>1, <1>2, <1>3, <1>5, Shapes
<1>6. QED
  BY <1>4, <1>5

\* A visit keeps the invariant.
LEMMA VisitInv ==
    ASSUME MergeInv, NEW p \in Paths, NEW t, VisitStep(p, t)
    PROVE  MergeInv'
<1>1. /\ phase = "merge" /\ p \in walk /\ p[1] \in files /\ First(p) /\ Current(p[1])
      /\ dump[p] # "absent" /\ Concerned(p) /\ Concerned(Top(p))
  <2>1. Visits(p)
    BY DEF VisitStep
  <2>2. QED
    BY <2>1, Visiting
<1>2. /\ UNCHANGED <<snapshot, link, before, phase, work, listed, result, collision, astray,
                     mishaps>>
      /\ spoilt' \in {spoilt, TRUE}
      /\ spoilt => spoilt'
  <2>1. spoilt' \in {spoilt, TRUE}
    BY DEF VisitStep
  <2>2. spoilt => spoilt'
    BY <2>1
  <2>3. QED
    BY <2>1, <2>2 DEF VisitStep, Visits, givenVars
<1>3. Wrote(p, t) /\ TargetBecomes(p[1], t)
  BY DEF VisitStep
<1>4. \/ writing' = TRUE /\ UNCHANGED <<walk, files, dump>> /\ Stat(p) = "file" /\ t[p] = "torn"
      \/ /\ writing' = FALSE /\ walk' = walk \ {p} /\ UNCHANGED <<files, dump>>
         /\ dump[p] = "dir" => t[p] = "dir" \/ (spoilt' /\ t[p] = "absent")
      \/ writing' = FALSE /\ SourceRemoved(p[1])
  BY DEF VisitStep, Leaves
<1> USE Shapes DEF MergeInv
<1>5. \A q \in walk : q \in Paths /\ q[1] = p[1]
  <2>1. \A q \in walk : q \in Paths /\ Current(q[1])
    BY DEF Sources
  <2>2. QED
    BY <1>1, <2>1, After
<1>6. /\ p[1] = work => aside' = t /\ volume' = volume
      /\ p[1] # work => volume' = t /\ aside' = aside
  BY <1>3 DEF TargetBecomes
<1>7. /\ t \in [Paths -> TargetKinds] /\ IsTree(t)
      /\ Target(p[1]) \in [Paths -> TargetKinds]
      /\ \A q \in Paths : q # p => \/ t[q] = Target(p[1])[q]
                                   \/ t[q] = "absent" /\ Top(q) = p /\ Regular(p)
                                   \/ t[q] = "dir" /\ q = Top(p) /\ dump[q] = "dir"
      /\ \A q \in Paths : q[1] # p[1] => t[q] = Target(p[1])[q]
  <2>1. \A q \in Paths : q[1] # p[1] => q # p /\ Top(q) # p /\ q # Top(p)
    OBVIOUS
  <2>2. p[1] \in Names
    OBVIOUS
  <2>3. QED
    BY <1>3, <2>1, <2>2, Targets DEF Wrote
<1>8. TypeOK'
  <2>1. /\ volume' \in [Paths -> TargetKinds] /\ aside' \in [Paths -> TargetKinds]
        /\ IsTree(volume)' /\ IsTree(aside)'
    BY <1>6, <1>7 DEF TypeOK, IsTree
  <2>2. dump' \in [Paths -> SourceKinds] /\ files' \subseteq Names
    BY <1>4 DEF TypeOK, SourceRemoved, SourceKinds
  <2>3. IsTree(dump)'
    BY <1>4 DEF TypeOK, SourceRemoved, IsTree
  <2>4. \A q \in walk' : q[1] \in files'
    BY <1>4 DEF TypeOK, SourceRemoved
  <2>5. volume'[<<work>>] = "work"
    BY <1>1, <1>6, <1>7 DEF TypeOK, Working, Active, Target
  <2>6. writing' \in BOOLEAN /\ spoilt' \in BOOLEAN
    BY <1>2, <1>4 DEF TypeOK
  <2>7. QED
    BY <1>2, <2>1, <2>2, <2>3, <2>4, <2>5, <2>6 DEF TypeOK
<1>9. Given'
  BY <1>2 DEF Given, IsTree
<1>10. Sources'
  <2>1. \A q \in Paths : dump'[q] \in {"absent", dump[q]}
    BY <1>4 DEF SourceRemoved
  <2>2. \A n \in files' : n \in Names /\ dump'[<<n>>] # "absent"
    <3>1. \A n \in files : n \in Names /\ dump[<<n>>] # "absent"
      BY DEF Sources, TypeOK
    <3>2. CASE SourceRemoved(p[1])
      <4>1. \A n \in Names : n # p[1] => dump'[<<n>>] = dump[<<n>>]
        BY <3>2 DEF SourceRemoved
      <4>2. QED
        BY <3>1, <3>2, <4>1 DEF SourceRemoved
    <3>3. QED
      BY <1>4, <3>1, <3>2
  <2>3. \A q \in walk' : q \in Paths /\ dump'[q] # "absent" /\ Current(q[1])'
    BY <1>4 DEF Sources, SourceRemoved, Current
  <2>4. QED
    BY <1>1, <1>2, <2>1, <2>2, <2>3 DEF Sources, PartOf, Leads
<1>11. TopFirst'
  <2> SUFFICES ASSUME NEW q \in walk', q \in Inner, Top(q) \notin walk'
               PROVE  \/ Target(q[1])'[Top(q)] = "dir"
                      \/ spoilt' /\ Target(q[1])'[Top(q)] = "absent"
    BY DEF TopFirst
  <2>1. q \in walk /\ walk' \in {walk, walk \ {p}}
    BY <1>4 DEF SourceRemoved
  <2>2. q[1] = p[1] /\ Top(q) \in Paths /\ Top(Top(q)) = Top(q)
    BY <1>5, <2>1
  <2>3. dump[Top(q)] = "dir"
    BY <2>1 DEF Sources, TypeOK, IsTree
  <2>4. t[Top(q)] = "dir" \/ (spoilt' /\ t[Top(q)] = "absent")
    <3>1. CASE Top(q) = p
      BY <1>1, <1>4, <2>1, <2>3, <3>1 DEF SourceRemoved
    <3>2. CASE Top(q) # p
      <4>1. Top(q) \notin walk
        BY <2>1, <3>2
      <4>2. \/ Target(p[1])[Top(q)] = "dir"
            \/ spoilt' /\ Target(p[1])[Top(q)] = "absent"
        <5>1. \/ Target(q[1])[Top(q)] = "dir"
              \/ spoilt /\ Target(q[1])[Top(q)] = "absent"
          BY <2>1, <4>1 DEF TopFirst
        <5>2. QED
          BY <1>2, <2>2, <5>1
      <4>3. QED
        BY <1>7, <2>2, <3>2, <4>2
    <3>3. QED
      BY <3>1, <3>2
  <2>5. QED
    BY <1>2, <1>6, <2>2, <2>4 DEF Target
<1>12. Torn'
  <2> SUFFICES ASSUME writing'
               PROVE  /\ walk' # {}
                      /\ \A q \in walk' : First(q)' =>
                            Stat(q)' = "file" /\ Target(q[1])'[q] = "torn"
    BY DEF Torn
  <2>1. UNCHANGED <<walk, files, dump>> /\ Stat(p) = "file" /\ t[p] = "torn"
    BY <1>4
  <2>2. \A q \in walk' : First(q)' => q = p
    BY <1>1, <1>5, <2>1, OneFirst DEF First
  <2>3. Stat(p)' = "file"
    BY <1>2, <2>1 DEF Stat
  <2>4. Target(p[1])'[p] = "torn"
    BY <1>2, <1>6, <2>1 DEF Target
  <2>5. QED
    BY <1>1, <2>1, <2>2, <2>3, <2>4
<1>13. Working'
  <2>1. Active' => work' \in Names /\ volume'[<<work'>>] = "work"
    BY <1>1, <1>2, <1>6, <1>7 DEF Working, Active, Target
  <2>2. walk' \subseteq walk
    BY <1>4 DEF SourceRemoved
  <2>3. QED
    BY <1>1, <1>2, <2>1, <2>2 DEF Working, Concerned
<1>14. Spared'
  <2> SUFFICES ASSUME NEW q \in Paths, Kept(q)
               PROVE  volume'[q] = before[q] /\ q[1] # collision
    BY <1>2 DEF Spared, Kept, Concerned, Regular
  <2>1. volume[q] = before[q] /\ q[1] # collision
    BY DEF Spared
  <2>2. q # p /\ q # Top(p) /\ ~(Top(q) = p /\ Regular(p))
    BY <1>1 DEF Kept
  <2>3. t[q] = Target(p[1])[q]
    BY <1>7, <2>2
  <2>4. QED
    BY <1>6, <2>1, <2>3 DEF Target
<1>15. LeftBounded'
  <2>1. \A n \in Names : ~Concerned(<<n>>) /\ volume'[<<n>>] # "absent"
                            => volume[<<n>>] # "absent"
    BY <1>1, <1>6, <1>7 DEF Target
  <2>2. Left' \subseteq Left
    BY <1>2, <2>1 DEF Left, Strays, Active, Concerned
  <2>3. QED
    BY <1>2, <2>2, LeftKept DEF TypeOK
<1>16. InOrder'
  <2> SUFFICES ASSUME Smooth
               PROVE  /\ \A q \in Paths : q[1] \in files' => dump'[q] = snapshot[q]
                      /\ \A n \in Names \ files', o \in files' :
                            snapshot[<<n>>] # "absent" => n < o
    BY <1>2 DEF InOrder, Smooth, TypeOK
  <2>1. CASE UNCHANGED <<files, dump>>
    BY <2>1 DEF InOrder
  <2>2. CASE SourceRemoved(p[1])
    <3>1. \A q \in Paths : q[1] \in files' => dump'[q] = snapshot[q]
      BY <2>2 DEF InOrder, SourceRemoved
    <3>2. \A n \in Names \ files', o \in files' : snapshot[<<n>>] # "absent" => n < o
      <4>1. \A o \in files' : o \in files /\ p[1] < o
        BY <1>1, <2>2, After DEF SourceRemoved
      <4>2. \A n \in Names \ files' : n = p[1] \/ n \in Names \ files
        BY <2>2 DEF SourceRemoved
      <4>3. QED
        BY <4>1, <4>2 DEF InOrder
    <3>3. QED
      BY <3>1, <3>2
  <2>3. QED
    BY <1>4, <2>1, <2>2
<1>17. Specials'
  <2> SUFFICES ASSUME NEW q \in Paths
               PROVE  (volume'[q] = "special" => before[q] = "special") /\ aside'[q] # "special"
    BY <1>2 DEF Specials
  <2>1. t[q] = Target(p[1])[q] \/ t[q] \in {"absent", "dir", "torn", "new"}
    BY <1>3 DEF Wrote
  <2>2. QED
    BY <1>6, <2>1 DEF Specials, Target
<1>18. Merging'
  <2> SUFFICES ASSUME Smooth, ~spoilt', NEW n \in Names, Whole(n), NEW q \in Below(n),
                      n \notin files' \/ (walk' # {} /\ Current(n)' /\ q \notin walk')
               PROVE  Placed(q, Place(n)')
    <3>1. Smooth' => Smooth /\ ~spoilt'
      BY <1>2 DEF Smooth
    <3>2. QED
      BY <1>2, <3>1 DEF Merging, Whole, Broken, Below, Placed, Regular
  <2>1. q \in Paths /\ q[1] = n
    OBVIOUS
  <2>2. CASE n = p[1]
    <3>1. Place(n)' = t /\ Place(n) = Target(n)
      BY <1>1, <1>2, <1>6, <2>2 DEF Place, Target, Working
    <3>2. Stat(p) # "absent"
      BY <1>1, <2>2, Found
    <3>3. q = p => Placed(p, t)
      BY <1>1, <1>4, <2>2, <3>2 DEF VisitStep, Current
    <3>4. q # p => q \notin walk
      BY <1>1, <1>4, <2>2, <3>2 DEF VisitStep, Leaves
    <3>5. q # p => Placed(q, Target(n))
      BY <1>1, <2>2, <3>1, <3>4 DEF Merging
    <3>6. Top(q) = p /\ q # p /\ Regular(p) => snapshot[q] = "absent"
      BY <2>1 DEF Given, IsTree, Regular
    <3>7. dump[q] = snapshot[q]
      BY <1>1, <2>1, <2>2 DEF InOrder
    <3>8. ASSUME q # p PROVE Placed(q, t)
      BY <1>7, <2>1, <2>2, <3>5, <3>6, <3>7, <3>8 DEF Placed, Regular
    <3>9. QED
      BY <3>1, <3>3, <3>8
  <2>3. CASE n # p[1]
    <3>1. Place(n)'[q] = Place(n)[q]
      BY <1>1, <1>2, <1>6, <1>7, <2>1, <2>3 DEF Place, Target, Working
    <3>2. n \notin files
      BY <1>1, <1>4, <2>3 DEF SourceRemoved, Current
    <3>3. Placed(q, Place(n))
      BY <3>2 DEF Merging
    <3>4. QED
      BY <3>1, <3>3 DEF Placed
  <2>4. QED
    BY <2>2, <2>3
<1>19. QED
  BY <1>8, <1>9, <1>10, <1>11, <1>12, <1>13, <1>14, <1>15, <1>16, <1>17, <1>18

-----------------------------------------------------------------------------
(* The other steps *)

\* Nothing that was in the volume is in the way of the working directory.
LEMMA NothingInWork ==
    ASSUME MergeInv, Active, NEW q \in Paths, Kept(q)
    PROVE  q[1] # work
<1> USE Shapes DEF MergeInv
<1>1. volume[q] = before[q] /\ before[q] \notin {"absent", "work"}
  BY DEF Spared, Given, Kept
<1>2. volume[<<work>>] = "work"
  BY DEF Working
<1>3. QED
  BY <1>1, <1>2 DEF TypeOK, IsTree

LEMMA TreeWithout ==
    ASSUME NEW tree \in [Paths -> TargetKinds], IsTree(tree), NEW n \in Names
    PROVE  /\ Without(tree, <<n>>) \in [Paths -> TargetKinds]
           /\ IsTree(Without(tree, <<n>>))
           /\ \A q \in Paths : /\ q[1] = n => Without(tree, <<n>>)[q] = "absent"
                               /\ q[1] # n => Without(tree, <<n>>)[q] = tree[q]
<1>1. \A q \in Paths : <<n>> \in {q, Top(q)} <=> q[1] = n
  BY Shapes
<1>2. Without(tree, <<n>>) = [q \in Paths |-> IF q[1] = n THEN "absent" ELSE tree[q]]
  BY <1>1 DEF Without
<1>3. QED
  BY <1>2, Shapes DEF IsTree, TargetKinds

\* A restore begins.
LEMMA BeginInv ==
    ASSUME MergeInv, NEW n \in Names, NEW found \in {"path", "error", "none"}, Begin(n, found)
    PROVE  MergeInv'
<1> USE MergeAssumption, Shapes DEF MergeInv, Active, givenVars, mergeVars,
      Begin, GetRandomFileName
<1>1. TypeOK'
  <2>1. volume' \in [Paths -> TargetKinds] /\ volume'[<<n>>] = "work"
    BY DEF TypeOK, TargetKinds
  <2>2. IsTree(volume)'
    BY DEF TypeOK, IsTree
  <2>3. walk = {}
    BY DEF Sources
  <2>4. QED
    BY <2>1, <2>2, <2>3 DEF TypeOK, IsTree
<1>2. Given'
  BY DEF Given, IsTree
<1>3. Sources'
  BY DEF Sources, PartOf, Leads
<1>4. TopFirst'
  BY DEF Sources, TopFirst
<1>5. Torn'
  BY DEF Sources, Torn
<1>6. Working'
  BY DEF Sources, Working, TypeOK
<1>7. Spared'
  <2>1. \A q \in Paths : Kept(q) => q # <<n>> /\ volume[q] = before[q] /\ q[1] # collision
    BY DEF Spared, Kept
  <2>2. \A q \in Paths : Kept(q)' => Kept(q)
    BY DEF Kept, Concerned, Regular
  <2>3. QED
    BY <2>1, <2>2 DEF Spared, TypeOK
<1>8. LeftBounded'
  <2>1. Left' \subseteq Left
    BY DEF Left, Strays, Concerned, TypeOK
  <2>2. QED
    BY <2>1, LeftKept DEF TypeOK
<1>9. InOrder'
  BY DEF Sources, InOrder, Smooth
<1>10. Specials'
  BY DEF Specials
<1>11. Merging'
  BY DEF Sources, Merging, Smooth
<1>12. QED
  BY <1>1, <1>2, <1>3, <1>4, <1>5, <1>6, <1>7, <1>8, <1>9, <1>10, <1>11

LEMMA RestorableTree ==
    ASSUME MergeInv, NEW tree \in Restorable
    PROVE  tree \in [Paths -> SourceKinds] /\ IsTree(tree) /\ PartOf(tree)
<1> USE MergeAssumption, Shapes DEF MergeInv
<1>1. CASE listed = "path"
  <2>1. tree = snapshot
    BY <1>1 DEF Restorable
  <2>2. QED
    BY <2>1 DEF TypeOK, Given, PartOf
<1>2. CASE listed = "none"
  <2>1. tree \in Leading
    BY <1>2 DEF Restorable
  <2>2. astray
    BY <1>2 DEF Sources
  <2>3. \A p \in Inner : p \in Absolute => Top(p) \in Absolute
    BY DEF Top
  <2>4. tree \in [Paths -> SourceKinds] /\ PartOf(tree)
    BY <2>1, <2>2 DEF Leading, PartOf, Leads, SourceKinds
  <2>5. IsTree(tree)
    BY <2>1, <2>3 DEF Leading, IsTree
  <2>6. QED
    BY <2>4, <2>5
<1>3. CASE listed = "error"
  <2>1. tree = [p \in Paths |-> "absent"]
    BY <1>3 DEF Restorable, Nothing
  <2>2. QED
    BY <2>1 DEF IsTree, SourceKinds, PartOf
<1>4. QED
  BY <1>1, <1>2, <1>3 DEF TypeOK

\* Restic leaves a part of what it restores, or all of it.
LEMMA ResticEndsInv ==
    ASSUME MergeInv, NEW r \in Results, ResticEnds(r)
    PROVE  MergeInv'
<1> USE MergeAssumption, Shapes DEF MergeInv, Active, givenVars, mergeVars,
      ResticEnds
<1>0. /\ dump' \in [Paths -> SourceKinds] /\ IsTree(dump')
      /\ PartOf(dump')
  <2>1. CASE dump' \in Restorable
    BY <2>1, RestorableTree
  <2>2. CASE dump' = Nothing
    BY <2>2 DEF Nothing, IsTree, SourceKinds, PartOf
  <2>3. ASSUME NEW tree \in Restorable, dump' \in Partial(tree)
        PROVE  /\ dump' \in [Paths -> SourceKinds] /\ IsTree(dump')
               /\ PartOf(dump')
    <3>1. tree \in [Paths -> SourceKinds] /\ IsTree(tree) /\ PartOf(tree)
      BY RestorableTree
    <3>2. /\ dump' \in [Paths -> SourceKinds] /\ IsTree(dump')
          /\ \A p \in Paths : dump'[p] \in {"absent", tree[p]}
      BY <2>3, <3>1 DEF Partial, SourceKinds
    <3>3. QED
      BY <3>1, <3>2 DEF PartOf
  <2>4. QED
    BY <2>1, <2>2, <2>3
<1>1. TypeOK'
  <2>1. IsTree(dump)'
    BY <1>0 DEF IsTree
  <2>2. walk = {}
    BY DEF Sources
  <2>3. QED
    BY <1>0, <2>1, <2>2 DEF TypeOK, IsTree, Working
<1>2. Given'
  BY DEF Given, IsTree
<1>3. Sources'
  <2>1. PartOf(dump)'
    BY <1>0 DEF PartOf
  <2>2. walk = {}
    BY DEF Sources
  <2>3. QED
    BY <2>1, <2>2 DEF Sources
<1>4. TopFirst'
  BY DEF Sources, TopFirst
<1>5. Torn'
  BY DEF Sources, Torn
<1>6. Working'
  BY DEF Sources, Working
<1>7. Spared'
  BY DEF Spared, Kept, Concerned, Regular
<1>8. LeftBounded'
  <2>1. Left' \subseteq Left
    BY DEF Left, Strays, Concerned
  <2>2. QED
    BY <2>1, LeftKept DEF TypeOK
<1>9. InOrder'
  <2>1. Smooth' => dump' = snapshot
    BY DEF Smooth, Restorable
  <2>2. QED
    BY <2>1 DEF InOrder, Working
<1>10. Specials'
  BY DEF Specials
<1>11. Merging'
  <2>1. Smooth' => dump' = snapshot
    BY DEF Smooth, Restorable
  <2>2. Smooth' => \A n \in Names \ files' : \A p \in Below(n) : snapshot[p] = "absent"
    <3>1. Smooth' => \A n \in Names \ files' : snapshot[<<n>>] = "absent"
      BY <2>1
    <3>2. \A p \in Paths : snapshot[<<p[1]>>] = "absent" => snapshot[p] = "absent"
      BY DEF Given, IsTree
    <3>3. QED
      BY <3>1, <3>2
  <2>3. walk' = {}
    BY DEF Sources
  <2>4. QED
    BY <2>2, <2>3 DEF Merging, Placed, Regular
<1>12. QED
  BY <1>1, <1>2, <1>3, <1>4, <1>5, <1>6, <1>7, <1>8, <1>9, <1>10, <1>11

\* An entry is looked at: what is in the way of a directory is removed.
LEMMA MergePathsInv ==
    ASSUME MergeInv, NEW n \in Names, MergePaths(n)
    PROVE  MergeInv'
<1> DEFINE t == IF Stat(<<n>>) = "dir" /\ ~IsDir(Target(n)[<<n>>])
                THEN Without(Target(n), <<n>>) ELSE Target(n)
<1>1. /\ phase = "merge" /\ Current(n) /\ walk = {} /\ walk' = Visited(n)
      /\ TargetBecomes(n, t) /\ collision' = IF n = work THEN n ELSE collision
      /\ UNCHANGED <<snapshot, link, before, phase, work, listed, result,
                     dump, files, writing, spoilt, astray, mishaps>>
  BY DEF MergePaths, Collides, givenVars
<1> USE Shapes DEF MergeInv
<1>2. /\ n = work => aside' = t /\ volume' = volume
      /\ n # work => volume' = t /\ aside' = aside
  BY <1>1 DEF TargetBecomes
<1>3. /\ t \in [Paths -> TargetKinds] /\ IsTree(t)
      /\ \A q \in Paths : t[q] = Target(n)[q] \/ (t[q] = "absent" /\ q[1] = n)
  <2>1. Target(n) \in [Paths -> TargetKinds] /\ IsTree(Target(n))
    BY Targets
  <2>2. QED
    BY <2>1, TreeWithout
<1> HIDE DEF t
<1>4. /\ n \in files /\ dump[<<n>>] # "absent" /\ Concerned(<<n>>)
      /\ \A q \in walk' : q \in Paths /\ q[1] = n /\ dump[q] # "absent"
  BY <1>1 DEF Current, Sources, PartOf, Leads, Visited, Concerned
<1>5. ~writing /\ (Active <=> Active')
  BY <1>1 DEF Torn, Active
<1>6. TypeOK'
  <2>1. /\ volume' \in [Paths -> TargetKinds] /\ aside' \in [Paths -> TargetKinds]
        /\ IsTree(volume)' /\ IsTree(aside)'
    <3>1. CASE n = work
      BY <1>2, <1>3, <3>1 DEF TypeOK, IsTree
    <3>2. CASE n # work
      BY <1>2, <1>3, <3>2 DEF TypeOK, IsTree
    <3>3. QED
      BY <3>1, <3>2
  <2>2. volume'[<<work>>] = "work"
    BY <1>1, <1>2, <1>3 DEF Working, Active, Target
  <2>3. QED
    BY <1>1, <1>4, <2>1, <2>2 DEF TypeOK, IsTree
<1>7. Given'
  BY <1>1 DEF Given, IsTree
<1>8. Sources'
  BY <1>1, <1>4 DEF Sources, PartOf, Leads, Current
<1>9. TopFirst'
  BY <1>1 DEF TopFirst, Visited
<1>10. Torn'
  BY <1>1, <1>5 DEF Torn
<1>11. Working'
  <2>1. volume'[<<work>>] = "work"
    BY <1>1, <1>2, <1>3 DEF Working, Active, Target
  <2>2. QED
    BY <1>1, <1>4, <2>1 DEF Working, Active, Concerned
<1>12. Spared'
  <2> SUFFICES ASSUME NEW q \in Paths, Kept(q)
               PROVE  volume'[q] = before[q] /\ q[1] # collision'
    BY <1>1 DEF Spared, Kept, Concerned, Regular
  <2>1. q[1] # work /\ q[1] # collision /\ volume[q] = before[q] /\ q # <<n>>
    BY <1>1, <1>4, NothingInWork DEF Spared, Active, Kept
  <2>2. q[1] = n => volume[<<n>>] = "dir"
    BY <2>1 DEF TypeOK, IsTree, Kept
  <2>3. n # work => t[q] = volume[q]
    BY <1>3, <2>2 DEF t, Target, IsDir
  <2>4. QED
    BY <1>1, <1>2, <2>1, <2>3
<1>13. LeftBounded'
  <2>1. Left' \subseteq Left
    BY <1>1, <1>2, <1>3, <1>5 DEF Left, Strays, Concerned, Target
  <2>2. QED
    BY <1>1, <2>1, LeftKept DEF TypeOK
<1>14. InOrder'
  BY <1>1 DEF InOrder, Smooth
<1>15. Specials'
  BY <1>1, <1>2, <1>3 DEF Specials, Target
<1>16. Merging'
  <2> SUFFICES ASSUME Smooth, NEW m \in Names, Whole(m), NEW q \in Below(m),
                      m \notin files \/ (Current(m) /\ q \notin walk')
               PROVE  Placed(q, Place(m)')
    BY <1>1 DEF Merging, Smooth, Whole, Broken, Below, Placed, Regular, Current
  <2>1. q \in Paths /\ q[1] = m
    OBVIOUS
  <2>2. CASE m = n
    <3>1. dump[q] = snapshot[q] /\ dump[<<n>>] = snapshot[<<n>>]
      BY <1>4, <2>1, <2>2 DEF InOrder
    <3>2. snapshot[q] = "absent"
      BY <1>1, <1>4, <2>1, <2>2, <3>1 DEF Visited, Given, IsTree
    <3>3. QED
      BY <3>2 DEF Placed, Regular
  <2>3. CASE m # n
    <3>1. m \notin files
      BY <1>1, <2>3, After
    <3>2. Placed(q, Place(m))
      BY <3>1 DEF Merging
    <3>3. Place(m)'[q] = Place(m)[q]
      BY <1>1, <1>2, <1>3, <2>1, <2>3 DEF Place, Target, Working
    <3>4. QED
      BY <3>2, <3>3 DEF Placed
  <2>4. QED
    BY <2>2, <2>3
<1>17. QED
  BY <1>6, <1>7, <1>8, <1>9, <1>10, <1>11, <1>12, <1>13, <1>14, <1>15, <1>16

\* An entry is given up.
LEMMA MergeFailsInv ==
    ASSUME MergeInv, NEW n \in Names, MergeFails(n)
    PROVE  MergeInv'
<1>1. /\ phase = "merge" /\ Current(n) /\ walk = {} /\ walk' = {}
      /\ files' = files \ {n} /\ \A p \in Paths : p[1] # n => dump'[p] = dump[p]
      /\ dump' \in {[p \in Paths |-> IF p \in Below(n) THEN "absent" ELSE dump[p]], dump}
      /\ spoilt' = (spoilt \/ Stat(<<n>>) # "absent")
      /\ collision' = IF n = work THEN n ELSE collision
      /\ UNCHANGED <<snapshot, link, before, volume, phase, work, listed, result,
                     aside, writing, astray, mishaps>>
  BY Shapes DEF MergeFails, Collides, SourceRemoved, givenVars, Below
<1> USE Shapes DEF MergeInv
<1>2. n \in files /\ Concerned(<<n>>)
  BY <1>1 DEF Current, Sources, PartOf, Leads, Concerned
<1>3. Active <=> Active'
  BY <1>1 DEF Active
<1>4. TypeOK'
  <2>1. dump' \in [Paths -> SourceKinds] /\ IsTree(dump)'
    BY <1>1 DEF TypeOK, IsTree, SourceKinds
  <2>2. spoilt' \in BOOLEAN
    BY <1>1 DEF TypeOK
  <2>3. QED
    BY <1>1, <2>1, <2>2 DEF TypeOK, IsTree
<1>5. Given'
  BY <1>1 DEF Given, IsTree
<1>6. Sources'
  <2>1. \A p \in Paths : dump'[p] \in {"absent", dump[p]}
    BY <1>1 DEF TypeOK
  <2>2. \A o \in files' : dump'[<<o>>] # "absent"
    BY <1>1 DEF Sources, TypeOK
  <2>3. QED
    BY <1>1, <2>1, <2>2 DEF Sources, PartOf, Leads
<1>7. TopFirst' /\ Torn'
  BY <1>1 DEF TopFirst, Torn
<1>8. Working'
  BY <1>1, <1>2 DEF Working, Active, Concerned
<1>9. Spared'
  <2> SUFFICES ASSUME NEW q \in Paths, Kept(q)
               PROVE  volume'[q] = before[q] /\ q[1] # collision'
    BY <1>1 DEF Spared, Kept, Concerned, Regular
  <2>1. q[1] # work /\ q[1] # collision /\ volume[q] = before[q]
    BY <1>1, NothingInWork DEF Spared, Active
  <2>2. QED
    BY <1>1, <2>1
<1>10. LeftBounded'
  <2>1. Left' \subseteq Left
    BY <1>1, <1>3 DEF Left, Strays, Concerned
  <2>2. QED
    BY <1>1, <2>1, LeftKept DEF TypeOK
<1>11. InOrder'
  <2>1. \A o \in files' : o \in files /\ n < o
    BY <1>1, After
  <2>2. \A m \in Names \ files' : m = n \/ m \in Names \ files
    BY <1>1
  <2>3. Smooth' => Smooth
    BY <1>1 DEF Smooth
  <2>4. QED
    BY <1>1, <2>1, <2>2, <2>3 DEF InOrder
<1>12. Specials'
  BY <1>1 DEF Specials
<1>13. Merging'
  <2> SUFFICES ASSUME Smooth, ~spoilt', NEW m \in Names, Whole(m), NEW q \in Below(m),
                      m \notin files'
               PROVE  Placed(q, Place(m)')
    <3>1. Smooth' => Smooth /\ ~spoilt'
      BY <1>1 DEF Smooth
    <3>2. QED
      BY <1>1, <3>1 DEF Merging, Whole, Broken, Below, Placed, Regular
  <2>1. m # n
    <3>1. dump[<<n>>] # "absent"
      BY <1>2 DEF Sources
    <3>2. QED
      BY <1>1, <1>2, <3>1, Found
  <2>2. Placed(q, Place(m))
    BY <1>1, <2>1 DEF Merging
  <2>3. Place(m)' = Place(m)
    BY <1>1, <2>1 DEF Place, Working
  <2>4. QED
    BY <2>2, <2>3
<1>14. QED
  BY <1>4, <1>5, <1>6, <1>7, <1>8, <1>9, <1>10, <1>11, <1>12, <1>13

\* A restore is killed, or is over and another one may begin.
LEMMA ForgottenInv ==
    ASSUME MergeInv, Forgotten, mishaps' \in 0..MaxMishaps, LeftBounded'
    PROVE  MergeInv'
<1> USE MergeAssumption, Shapes DEF MergeInv, Active, givenVars, Forgotten
<1>1. TypeOK'
  <2>1. dump' \in [Paths -> SourceKinds] /\ aside' \in [Paths -> TargetKinds]
    BY DEF Nothing, SourceKinds, TargetKinds
  <2>2. IsTree(dump)' /\ IsTree(aside)' /\ IsTree(volume)'
    BY DEF Nothing, IsTree, TypeOK
  <2>3. QED
    BY <2>1, <2>2 DEF TypeOK
<1>2. Given'
  BY DEF Given, IsTree
<1>3. Sources'
  <2>1. \A p \in Paths : dump'[p] = "absent"
    BY DEF Nothing
  <2>2. /\ phase' = "idle" /\ files' = {} /\ walk' = {} /\ collision' = NoName
        /\ listed' = "error"
    OBVIOUS
  <2>3. QED
    BY <2>1, <2>2 DEF Sources, PartOf, Leads
<1>4. TopFirst'
  BY DEF TopFirst
<1>5. Torn'
  BY DEF Torn
<1>6. Working'
  BY DEF Working
<1>7. Spared'
  <2>1. \A q \in Paths : Kept(q)' => Kept(q)
    BY DEF Kept, Concerned, Regular
  <2>2. QED
    BY <2>1 DEF Spared
<1>8. InOrder'
  BY DEF InOrder, Smooth
<1>9. Specials'
  BY DEF Specials, Nothing
<1>10. Merging'
  BY DEF Merging, Smooth
<1>11. QED
  BY <1>1, <1>2, <1>3, <1>4, <1>5, <1>6, <1>7, <1>8, <1>9, <1>10

\* A killed restore leaves its working directory.
LEMMA DieInv ==
    ASSUME MergeInv, Die
    PROVE  MergeInv'
<1>1. mishaps \in Nat /\ mishaps' = mishaps + 1 /\ mishaps' \in 0..MaxMishaps
  BY MergeAssumption DEF Die, MergeInv, TypeOK
<1>2. work \in Names
  BY DEF Die, MergeInv, Working, Active
<1>3. Left' \subseteq Left \union {work}
  BY DEF Die, Forgotten, givenVars, Left, Strays, Concerned, Active
<1>4. LeftBounded'
  BY <1>1, <1>2, <1>3, LeftOneMore DEF MergeInv
<1>5. QED
  BY <1>1, <1>4, ForgottenInv DEF Die

\* One that is over leaves nothing more.
LEMMA AgainInv ==
    ASSUME MergeInv, Again
    PROVE  MergeInv'
<1>1. mishaps \in Nat /\ mishaps' = mishaps /\ mishaps' \in 0..MaxMishaps
  BY MergeAssumption DEF Again, MergeInv, TypeOK
<1>2. Left' \subseteq Left
  BY DEF Again, Forgotten, givenVars, Left, Strays, Concerned, Active
<1>3. LeftBounded'
  BY <1>1, <1>2, LeftKept DEF MergeInv
<1>4. QED
  BY <1>1, <1>3, ForgottenInv DEF Again

\* The working directory gets a name that nothing has.
LEMMA RenameWorkInv ==
    ASSUME MergeInv, NEW n \in Names, RenameWork(n)
    PROVE  MergeInv'
<1> USE MergeAssumption, Shapes DEF MergeInv, Active, givenVars, mergeVars,
      RenameWork, Merged, GetRandomFileName
<1>1. TypeOK'
  <2>1. collision = work /\ work \in Names /\ volume[<<work>>] = "work" /\ n # work
    BY DEF Working
  <2>2. volume' \in [Paths -> TargetKinds]
    BY DEF TypeOK, TargetKinds
  <2>3. IsTree(volume)'
    <3>1. \A q \in Paths \ {<<n>>, <<work>>} : volume'[q] = volume[q]
      BY DEF TypeOK
    <3>2. \A q \in Inner : volume'[q] # "absent" => volume[Top(q)] = "dir"
      BY <3>1 DEF TypeOK, IsTree
    <3>3. \A q \in Inner : volume[Top(q)] = "dir" => volume'[Top(q)] = "dir"
      <4>1. volume[<<n>>] = "absent" /\ volume[<<work>>] = "work"
        BY <2>1
      <4>2. \A q \in Inner : Top(q) \in Paths
        OBVIOUS
      <4>3. QED
        BY <3>1, <4>1, <4>2
    <3>4. QED
      BY <3>2, <3>3 DEF IsTree
  <2>4. QED
    BY <2>2, <2>3 DEF TypeOK, IsTree
<1>2. Given'
  BY DEF Given, IsTree
<1>3. Sources'
  <2>1. files = {} /\ walk = {}
    BY DEF Sources, TypeOK
  <2>2. phase' = "rename" /\ UNCHANGED <<snapshot, listed, astray, dump, files, walk, collision>>
    OBVIOUS
  <2> HIDE DEF RenameWork
  <2>3. QED
    BY <2>1, <2>2 DEF Sources, PartOf, Leads
<1>4. TopFirst'
  BY DEF TypeOK, TopFirst
<1>5. Torn'
  BY DEF TypeOK, Torn
<1>6. Working'
  <2>1. collision = work /\ work \in Names /\ work # NoName /\ n \in Names /\ n # work
    BY DEF Working
  <2>2. walk = {}
    BY DEF Sources, TypeOK
  <2>3. volume'[<<work>>] = "absent" /\ volume'[<<n>>] = "work"
    BY <2>1 DEF TypeOK
  <2>4. /\ phase' = "rename" /\ work' = n /\ phase = "merge"
        /\ UNCHANGED <<snapshot, astray, walk, collision>>
    OBVIOUS
  <2> HIDE DEF RenameWork
  <2>5. QED
    BY <2>1, <2>2, <2>3, <2>4 DEF Working, Concerned
<1>7. Spared'
  <2>1. \A q \in Paths : Kept(q) => /\ q # <<n>> /\ volume[q] = before[q] /\ q[1] # collision
                                    /\ q[1] # work
    BY NothingInWork DEF Spared, Kept
  <2>2. \A q \in Paths : Kept(q)' => Kept(q)
    BY DEF Kept, Concerned, Regular
  <2>3. QED
    BY <2>1, <2>2 DEF Spared, TypeOK
<1>8. LeftBounded'
  <2>1. collision = work /\ work \in Names /\ n # work
    BY DEF Working
  <2>2. \A m \in Names : volume'[<<m>>] # "absent" =>
                            m = n \/ (m # work /\ volume[<<m>>] # "absent")
    BY <2>1 DEF TypeOK
  <2>3. Left' \subseteq Left
    BY <2>2 DEF Left, Strays, Concerned
  <2>4. QED
    BY <2>3, LeftKept DEF TypeOK
<1>9. InOrder'
  BY DEF Sources, InOrder, Smooth
<1>10. Specials'
  BY DEF TypeOK, Specials
<1>11. Merging'
  <2> SUFFICES ASSUME Smooth, NEW m \in Names, Whole(m), NEW q \in Below(m)
               PROVE  Placed(q, Place(m)')
    BY DEF Merging, Smooth, Whole, Broken, Below, Placed, Regular
  <2>1. collision = work
    BY DEF Working
  <2>2. Placed(q, Place(m))
    BY DEF Merging
  <2>3. q = <<n>> \/ Place(m)'[q] = Place(m)[q]
    BY <2>1 DEF Place, TypeOK
  <2>4. q = <<n>> /\ m # collision => Place(m)[q] = "absent"
    BY DEF Place
  <2>5. m = collision => Place(m)' = Place(m)
    BY DEF Place
  <2>6. QED
    BY <2>2, <2>3, <2>4, <2>5 DEF Placed
<1>12. QED
  BY <1>1, <1>2, <1>3, <1>4, <1>5, <1>6, <1>7, <1>8, <1>9, <1>10, <1>11

LEMMA EntryRenamed ==
    ASSUME MergeInv, RenameEntry
    PROVE  /\ volume' \in [Paths -> TargetKinds]
           /\ \A q \in Paths : volume'[q] = IF q[1] = collision THEN aside[q] ELSE volume[q]
           /\ collision \in Names /\ collision # work /\ Concerned(<<collision>>)
<1>1. volume' = [p \in Paths |-> IF p \in Below(collision) THEN aside[p] ELSE volume[p]]
  BY DEF RenameEntry
<1>2. collision \in Names /\ collision # work /\ Concerned(<<collision>>)
  BY DEF MergeInv, Working, TypeOK, RenameEntry
<1>3. volume' \in [Paths -> TargetKinds]
  BY <1>1 DEF MergeInv, TypeOK
<1>4. \A q \in Paths : q \in Below(collision) <=> q[1] = collision
  BY <1>2, Shapes
<1>5. QED
  BY <1>1, <1>2, <1>3, <1>4

\* The entry that was merged inside the working directory gets its own name.
LEMMA RenameEntryInv ==
    ASSUME MergeInv, RenameEntry
    PROVE  MergeInv'
<1> USE MergeAssumption, Shapes DEF MergeInv, Active, givenVars, mergeVars,
      RenameEntry
<1>1. TypeOK'
  <2>1. \A q \in Inner : volume'[q] # "absent" => volume'[Top(q)] = "dir"
    <3>1. \A q \in Inner : q \in Paths /\ Top(q) \in Paths /\ Top(q)[1] = q[1]
      OBVIOUS
    <3>2. QED
      BY <3>1, EntryRenamed DEF TypeOK, IsTree
  <2>2. QED
    BY <2>1, EntryRenamed DEF TypeOK, IsTree
<1>2. Given'
  BY DEF Given, IsTree
<1>3. Sources'
  BY DEF Sources, PartOf, Leads
<1>4. TopFirst'
  BY DEF Sources, TopFirst
<1>5. Torn'
  BY DEF Sources, Torn
<1>6. Working'
  BY EntryRenamed DEF Working, Concerned
<1>7. Spared'
  <2>1. \A q \in Paths : Kept(q)' => Kept(q)
    BY DEF Kept, Concerned, Regular
  <2>2. QED
    BY <2>1, EntryRenamed DEF Spared
<1>8. LeftBounded'
  <2>1. Left' \subseteq Left
    BY EntryRenamed DEF Left, Strays, Concerned
  <2>2. QED
    BY <2>1, LeftKept DEF TypeOK
<1>9. InOrder'
  BY DEF Sources, InOrder, Smooth
<1>10. Specials'
  BY EntryRenamed DEF Specials
<1>11. Merging'
  <2> SUFFICES ASSUME Smooth, NEW m \in Names, Whole(m), NEW q \in Below(m)
               PROVE  Placed(q, Place(m)')
    BY DEF Merging, Smooth, Whole, Broken, Below, Placed, Regular
  <2>1. Placed(q, Place(m))
    BY DEF Merging, Sources
  <2>2. Place(m) = (IF m = collision THEN aside ELSE volume) /\ Place(m)' = volume'
    BY DEF Place
  <2>3. q \in Paths /\ q[1] = m
    OBVIOUS
  <2>4. Place(m)'[q] = Place(m)[q]
    BY <2>2, <2>3, EntryRenamed
  <2>5. QED
    BY <2>1, <2>4 DEF Placed
<1>12. QED
  BY <1>1, <1>2, <1>3, <1>4, <1>5, <1>6, <1>7, <1>8, <1>9, <1>10, <1>11

\* It does not get it, and the restore goes on.
LEMMA RenameEntryFailsInv ==
    ASSUME MergeInv, RenameEntryFails
    PROVE  MergeInv'
<1> USE MergeAssumption, Shapes DEF MergeInv, Active, givenVars, mergeVars,
      RenameEntryFails
<1>1. TypeOK'
  BY DEF TypeOK, IsTree
<1>2. Given'
  BY DEF Given, IsTree
<1>3. Sources'
  BY DEF Sources, PartOf, Leads
<1>4. TopFirst'
  BY DEF Sources, TopFirst
<1>5. Torn'
  BY DEF Sources, Torn
<1>6. Working'
  BY DEF Working, Concerned
<1>7. Spared'
  BY DEF Spared, Kept, Concerned, Regular
<1>8. LeftBounded'
  <2>1. Left' \subseteq Left
    BY DEF Left, Strays, Concerned
  <2>2. QED
    BY <2>1, LeftKept DEF TypeOK
<1>9. InOrder'
  BY DEF InOrder, Smooth
<1>10. Specials'
  BY DEF Specials
<1>11. Merging'
  BY DEF Merging, Smooth
<1>12. QED
  BY <1>1, <1>2, <1>3, <1>4, <1>5, <1>6, <1>7, <1>8, <1>9, <1>10, <1>11

\* The restore is over.
LEMMA EndsInv ==
    ASSUME MergeInv, Ends, files = {}, Active,
           spoilt' \in BOOLEAN, mishaps' \in 0..MaxMishaps,
           volume' \in [Paths -> TargetKinds], IsTree(volume'),
           \A q \in Paths : volume'[q] # volume[q] => volume'[q] = "absent" /\ q[1] = work,
           LeftBounded', Merging'
    PROVE  MergeInv'
<1> USE MergeAssumption, Shapes DEF MergeInv, Active, givenVars, Ends
<1>1. walk = {} /\ walk' = {}
  BY DEF TypeOK
<1>2. TypeOK'
  <2>1. dump' \in [Paths -> SourceKinds] /\ aside' \in [Paths -> TargetKinds]
    BY DEF Nothing, SourceKinds, TargetKinds
  <2>2. IsTree(dump)' /\ IsTree(aside)' /\ IsTree(volume)'
    BY DEF Nothing, IsTree
  <2>3. QED
    BY <1>1, <2>1, <2>2 DEF TypeOK
<1>3. Given'
  BY DEF Given, IsTree
<1>4. Sources'
  <2>1. \A p \in Paths : dump'[p] = "absent"
    BY DEF Nothing
  <2>2. QED
    BY <1>1, <2>1 DEF Sources, PartOf, Leads
<1>5. TopFirst'
  BY <1>1 DEF TopFirst
<1>6. Torn'
  BY <1>1 DEF Torn
<1>7. Working'
  BY <1>1 DEF Working
<1>8. Spared'
  <2>1. \A q \in Paths : Kept(q) => volume[q] = before[q] /\ q[1] # work
    BY NothingInWork DEF Spared
  <2>2. \A q \in Paths : Kept(q)' => Kept(q)
    BY DEF Kept, Concerned, Regular
  <2>3. QED
    BY <2>1, <2>2 DEF Spared
<1>9. InOrder'
  BY DEF InOrder
<1>10. Specials'
  BY DEF Specials, Nothing
<1>11. QED
  BY <1>2, <1>3, <1>4, <1>5, <1>6, <1>7, <1>8, <1>9, <1>10

LEMMA WorkRemoved ==
    ASSUME MergeInv, RemoveWork
    PROVE  /\ volume' \in [Paths -> TargetKinds] /\ IsTree(volume')
           /\ \A q \in Paths : volume'[q] = IF q[1] = work THEN "absent" ELSE volume[q]
           /\ volume[<<work>>] = "work" /\ work \in Names /\ Active /\ files = {}
<1>1. volume' = Without(volume, <<work>>) /\ Active /\ files = {}
  BY DEF RemoveWork, Merged, Active, MergeInv, Sources
<1>2. volume[<<work>>] = "work" /\ work \in Names
  BY <1>1 DEF MergeInv, Working
<1>3. volume \in [Paths -> TargetKinds] /\ IsTree(volume)
  BY DEF MergeInv, TypeOK
<1>4. QED
  BY <1>1, <1>2, <1>3, TreeWithout

\* Its working directory is removed, and an entry with its name has been merged elsewhere.
LEMMA RemoveWorkInv ==
    ASSUME MergeInv, RemoveWork
    PROVE  MergeInv'
<1>1. LeftBounded'
  <2>1. \A n \in Names : volume'[<<n>>] # "absent" => n # work /\ volume[<<n>>] # "absent"
    BY WorkRemoved, Shapes
  <2>2. UNCHANGED <<before, snapshot, astray, work, mishaps>>
    BY DEF RemoveWork, Ends, givenVars
  <2>3. Left' \subseteq Left
    BY <2>1, <2>2 DEF Left, Strays, Concerned
  <2>4. QED
    BY <2>2, <2>3, LeftKept DEF MergeInv, TypeOK
<1>2. Merging'
  <2> USE Shapes DEF MergeInv, RemoveWork, Ends, Merged, givenVars
  <2> SUFFICES ASSUME Smooth, NEW m \in Names, Whole(m), NEW q \in Below(m)
               PROVE  Placed(q, volume')
    BY WorkRemoved DEF Merging, Smooth, Active, Whole, Broken, Below, Placed, Regular, Place
  <2>1. \A p \in Below(m) : Placed(p, volume)
    BY WorkRemoved DEF Merging, Place
  <2>2. CASE m # work
    BY <2>1, <2>2, WorkRemoved DEF Placed
  <2>3. CASE m = work
    <3>1. <<m>> \in Below(m) /\ volume[<<m>>] = "work"
      BY <2>3, WorkRemoved DEF Below
    <3>2. snapshot[<<m>>] # "dir" /\ (Regular(<<m>>) => before[<<m>>] = "special")
      BY <2>1, <3>1 DEF Placed
    <3>3. q # <<m>> => snapshot[q] = "absent"
      BY <3>2 DEF Given, IsTree
    <3>4. QED
      BY <3>2, <3>3 DEF Placed, Regular
  <2>4. QED
    BY <2>2, <2>3
<1>3. spoilt' \in BOOLEAN /\ mishaps' \in 0..MaxMishaps /\ Ends
  BY DEF RemoveWork, MergeInv, TypeOK
<1>4. QED
  BY <1>1, <1>2, <1>3, WorkRemoved, EndsInv

\* It stays, and so may the entry in it.
LEMMA WorkStaysInv ==
    ASSUME MergeInv, WorkStays
    PROVE  MergeInv'
<1>1. Ends /\ files = {} /\ Active /\ UNCHANGED volume /\ work \in Names
  BY DEF WorkStays, Merged, Active, MergeInv, Sources, Working
<1>2. /\ spoilt' = (spoilt \/ (Merged /\ collision # NoName)) /\ spoilt' \in BOOLEAN
      /\ mishaps \in Nat /\ mishaps' = mishaps + 1 /\ mishaps' \in 0..MaxMishaps
  BY MergeAssumption DEF WorkStays, MergeInv, TypeOK
<1>3. Left' \subseteq Left \union {work}
  BY <1>1 DEF Ends, givenVars, Left, Strays, Concerned
<1>4. LeftBounded'
  BY <1>1, <1>2, <1>3, LeftOneMore DEF MergeInv
<1>5. Merging'
  <2> USE Shapes DEF MergeInv, Ends, givenVars
  <2> SUFFICES ASSUME Smooth, ~spoilt', NEW m \in Names, Whole(m), NEW q \in Below(m)
               PROVE  Placed(q, volume)
    <3>1. Smooth' => Smooth /\ ~spoilt'
      <4>1. phase \notin {"idle", "restic"} /\ UNCHANGED <<result, listed>>
        BY DEF WorkStays, Merged
      <4>2. spoilt => spoilt'
        BY <1>2
      <4>3. QED
        BY <4>1, <4>2 DEF Smooth
    <3>2. \A m \in Names : Place(m)' = volume
      BY <1>1 DEF Place
    <3>3. QED
      BY <1>1, <3>1, <3>2 DEF Merging, Whole, Broken, Below, Placed, Regular
  <2>1. Place(m) = volume
    BY <1>1, <1>2 DEF WorkStays, Merged, Place
  <2>2. QED
    BY <1>1, <2>1 DEF Merging
<1>6. volume \in [Paths -> TargetKinds] /\ IsTree(volume)
  BY DEF MergeInv, TypeOK
<1>7. QED
  BY <1>1, <1>2, <1>4, <1>5, <1>6, EndsInv

-----------------------------------------------------------------------------
(* The invariant *)

LEMMA InitInv ==
    ASSUME Init
    PROVE  MergeInv
<1> USE MergeAssumption, Shapes DEF Init
<1>1. IsTree(snapshot) /\ IsTree(before) /\ IsTree(Nothing)
  BY DEF Trees, IsTree, Nothing
<1>2. snapshot \in [Paths -> SourceKinds] /\ before \in [Paths -> TargetKinds]
  BY DEF Trees, SourceKinds, TargetKinds
<1>3. link \in [Paths -> Paths \union {Nowhere}]
  BY DEF Links
<1>4. Nothing \in [Paths -> SourceKinds] /\ Nothing \in [Paths -> TargetKinds]
  BY DEF Nothing, SourceKinds, TargetKinds
<1>5. TypeOK
  <2>1. volume = before /\ IsTree(volume) /\ aside = Nothing /\ IsTree(aside)
    BY <1>1
  <2>2. dump = Nothing /\ IsTree(dump)
    BY <1>1
  <2>3. mishaps \in 0..MaxMishaps
    OBVIOUS
  <2>4. QED
    BY <1>2, <1>3, <1>4, <2>1, <2>2, <2>3 DEF TypeOK
<1>6. Given
  <2>1. \A p \in Paths : before[p] \in {"absent", "old", "dir", "special"}
    BY DEF Trees
  <2>2. \A p \in Paths : snapshot[p] = "link" /\ link[p] # Nowhere =>
                            snapshot[link[p]] \in {"file", "dir"}
    BY DEF Links
  <2>3. QED
    BY <1>1, <2>1, <2>2 DEF Given
<1>7. Sources /\ TopFirst /\ Torn /\ Working
  BY DEF Sources, PartOf, Leads, TopFirst, Torn, Working, Active, Nothing
<1>8. Spared
  BY DEF Spared, Kept
<1>9. LeftBounded
  <2>1. Left = {}
    BY DEF Left, Strays, Active
  <2>2. QED
    BY <2>1, FS_EmptySet DEF LeftBounded
<1>10. InOrder /\ Specials /\ Merging
  BY DEF InOrder, Specials, Merging, Smooth, Nothing
<1>11. QED
  BY <1>5, <1>6, <1>7, <1>8, <1>9, <1>10 DEF MergeInv

LEMMA StutterInv ==
    ASSUME MergeInv, UNCHANGED vars
    PROVE  MergeInv'
<1> USE DEF MergeInv, vars, givenVars, mergeVars
<1>1. TypeOK' /\ Given'
  BY DEF TypeOK, Given, IsTree
<1>2. Sources' /\ TopFirst' /\ Torn' /\ Working'
  BY DEF Sources, PartOf, Leads, TopFirst, Torn, Working, Current, First, Stat, Target, Active,
         Concerned
<1>3. Spared'
  BY DEF Spared, Kept, Concerned, Regular
<1>4. LeftBounded'
  BY DEF LeftBounded, Left, Strays, Concerned, Active
<1>5. InOrder' /\ Specials'
  BY DEF InOrder, Smooth, Specials
<1>6. Merging'
  BY DEF Merging, Smooth, Whole, Broken, Below, Placed, Regular, Place, Current
<1>7. QED
  BY <1>1, <1>2, <1>3, <1>4, <1>5, <1>6

LEMMA NextInv ==
    ASSUME MergeInv, [Next]_vars
    PROVE  MergeInv'
<1>1. ASSUME NEW n \in Names, NEW found \in {"path", "error", "none"}, Begin(n, found)
      PROVE  MergeInv'
  BY <1>1, BeginInv
<1>2. ASSUME NEW n \in Names, MergePaths(n) \/ MergeFails(n) \/ RenameWork(n) PROVE MergeInv'
  BY <1>2, MergePathsInv, MergeFailsInv, RenameWorkInv
<1>3. ASSUME NEW r \in Results, ResticEnds(r) PROVE MergeInv'
  BY <1>3, ResticEndsInv
<1>4. ASSUME NEW p \in Paths, Visit(p) PROVE MergeInv'
  <2>1. PICK t : VisitStep(p, t)
    BY <1>4, VisitSteps
  <2>2. QED
    BY <2>1, VisitInv
<1>5. CASE RenameEntry \/ RenameEntryFails
  BY <1>5, RenameEntryInv, RenameEntryFailsInv
<1>6. CASE RemoveWork \/ WorkStays
  BY <1>6, RemoveWorkInv, WorkStaysInv
<1>7. CASE Die \/ Again
  BY <1>7, DieInv, AgainInv
<1>8. CASE UNCHANGED vars
  BY <1>8, StutterInv
<1>9. QED
  BY <1>1, <1>2, <1>3, <1>4, <1>5, <1>6, <1>7, <1>8 DEF Next

LEMMA Invariance == Spec => []MergeInv
<1>1. Init => MergeInv
  BY InitInv
<1>2. MergeInv /\ [Next]_vars => MergeInv'
  BY NextInv
<1>3. QED
  BY <1>1, <1>2, PTL DEF Spec

-----------------------------------------------------------------------------
(* Theorems *)

\* Volume, working directory and what is left of the snapshot are trees; the working
\* directory of a restore under way is in the volume.
THEOREM MergeTypeCorrect == Spec => []TypeOK
<1>1. MergeInv => TypeOK
  BY DEF MergeInv
<1>2. QED
  BY <1>1, Invariance, PTL

\* Whatever fails, and wherever restores are killed, they only ever write to paths of the
\* snapshot, to what is below its files, and, once a restore has read no path from the
\* output of restic, to the directories that lead to the snapshot.
THEOREM NothingElseTouched == Spec => []Untouched
<1>1. MergeInv => Untouched
  BY DEF MergeInv, Spared, Kept, Untouched
<1>2. QED
  BY <1>1, Invariance, PTL

\* After a restore in which restic and every operation on files succeeded, and which read
\* the path of the snapshot, all files and directories of the entries without broken links
\* are in place, whatever befell the restores before it and whichever entry has the name
\* of its working directory.
THEOREM EntriesInPlace == Spec => []InPlace
<1>1. MergeInv => InPlace
  <2> SUFFICES ASSUME MergeInv, phase = "done", Smooth,
                      NEW n \in Names, Whole(n), NEW p \in Below(n)
               PROVE  Placed(p, volume)
    BY DEF InPlace, Smooth, Whole, Placed
  <2>1. files = {} /\ Place(n) = volume
    BY DEF MergeInv, Sources, Place
  <2>2. QED
    BY <2>1 DEF MergeInv, Merging
<1>2. QED
  BY <1>1, Invariance, PTL

\* Working directories are left behind only by restores that were killed or failed to
\* remove theirs, one by each.
THEOREM ResidueBounded == Spec => []Residue
<1>1. ASSUME MergeInv PROVE Residue
  <2>1. Strays \subseteq Names /\ IsFiniteSet(Strays) /\ IsFiniteSet(Left)
    BY MergeAssumption, FS_Subset DEF Left, Strays
  <2>2. Cardinality(Left) <= mishaps /\ Cardinality(Left) \in Nat /\ mishaps \in Nat
    BY <1>1, <2>1, FS_CardinalityType DEF MergeInv, TypeOK, LeftBounded
  <2>3. CASE ~Active
    BY <2>2, <2>3 DEF Residue, Left, Strays, Active
  <2>4. CASE Active
    <3>1. Strays \subseteq Left \union {work}
      BY <2>4 DEF Left
    <3>2. /\ IsFiniteSet(Left \union {work})
          /\ \/ Cardinality(Left \union {work}) = Cardinality(Left)
             \/ Cardinality(Left \union {work}) = Cardinality(Left) + 1
      BY <2>1, FS_AddElement
    <3>3. Cardinality(Strays) <= Cardinality(Left \union {work})
      BY <3>1, <3>2, FS_Subset
    <3>4. Cardinality(Strays) \in Nat
      BY <2>1, FS_CardinalityType
    <3>5. Cardinality(Strays) <= mishaps + 1
      BY <2>2, <3>2, <3>3, <3>4
    <3>6. QED
      BY <2>4, <3>5 DEF Residue, Strays, Active
  <2>5. QED
    BY <2>3, <2>4
<1>2. QED
  BY <1>1, Invariance, PTL
=============================================================================
