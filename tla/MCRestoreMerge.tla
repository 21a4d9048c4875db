---------------------------- MODULE MCRestoreMerge ----------------------------
(***************************************************************************)
(* Small instances of RestoreMerge for TLC. The snapshot has two entries   *)
(* and one below the first, the volume has one and another below it.       *)
(***************************************************************************)
EXTENDS RestoreMerge

BelowOne == {<<1, 1>>, <<1, 2>>}
SnapshotPaths == {<<1>>, <<2>>, <<1, 1>>}
VolumePaths == {<<1>>, <<1, 2>>}
LeadingPaths == {<<1>>, <<1, 1>>}
=============================================================================
