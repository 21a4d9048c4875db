-------------------------- MODULE MCBackupScheduler --------------------------
(***************************************************************************)
(* Small instances of BackupScheduler for TLC.                             *)
(***************************************************************************)
EXTENDS BackupScheduler, TLC

CONSTANTS v1, v2, h1

OneVolume == <<v1>>
TwoVolumes == <<v1, v2>>

WorkerSymmetry == Permutations(Workers)

SameHost == [v \in Volumes |-> h1]

\* With Hour = Interval the status of a volume decides nothing, and with UTCLag
\* beyond Interval every start date is long past: what is checked with this view
\* depends on neither, but for whether there is a start date.
AllButStatus ==
    <<refresherVars, queue, dispatcherVars, actorVars, wd, err,
      backingUp, lastBackup, [v \in Volumes |-> startDate[v] = NoDate], mux>>
=============================================================================
