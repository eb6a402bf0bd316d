--------------------------- MODULE ServicesProofs ---------------------------
(***************************************************************************)
(* What is proved of HeartbeatMonitor and of BackupRestore holds of        *)
(* MCServices, which runs one of them beside components that stand still:  *)
(* every behaviour of the composition is one of each part.                 *)
(***************************************************************************)
EXTENDS MCServices, TLAPS

MonitorProofs == INSTANCE HeartbeatMonitorProofs
BackupProofs == INSTANCE BackupRestoreProofs

(* The monitor moves by its own steps, or not at all.                       *)
LEMMA MonitorRuns == ServicesSpec => MonitorProofs!Spec
<1>1. ServicesInit => MonitorProofs!Init
  <2>1. Monitor!Init => MonitorProofs!Init
    BY DEF Monitor!Init, Monitor!Idle, MonitorProofs!Init, MonitorProofs!Idle
  <2> QED
    BY <2>1 DEF ServicesInit
<1>2. [ServicesNext /\ UNCHANGED part]_<<vars, monitorVars, backupVars, part>>
      => [MonitorProofs!Next]_MonitorProofs!vars
  <2>1. Monitor!Next => MonitorProofs!Next
    BY Zenon DEF Monitor!Next, Monitor!vars, Monitor!Beat, Monitor!Reading,
        Monitor!Served, Monitor!Idle, Monitor!Busy, Monitor!Calm,
        Monitor!Tick, Monitor!OtherRequest, Monitor!PlcRestart,
        Monitor!Snapshot, Monitor!Settle, Monitor!Same, Monitor!Stale,
        Monitor!MeetSame, Monitor!MeetOther, Monitor!AssignValue,
        Monitor!AssignChange, MonitorProofs!Next, MonitorProofs!vars,
        MonitorProofs!Beat, MonitorProofs!Reading, MonitorProofs!Served,
        MonitorProofs!Idle, MonitorProofs!Busy, MonitorProofs!Calm,
        MonitorProofs!Tick, MonitorProofs!OtherRequest,
        MonitorProofs!PlcRestart, MonitorProofs!Snapshot,
        MonitorProofs!Settle, MonitorProofs!Same, MonitorProofs!Stale,
        MonitorProofs!MeetSame, MonitorProofs!MeetOther,
        MonitorProofs!AssignValue, MonitorProofs!AssignChange
  <2>2. UNCHANGED monitorVars => UNCHANGED MonitorProofs!vars
    BY DEF monitorVars, MonitorProofs!vars
  <2> QED
    BY <2>1, <2>2 DEF ServicesNext
<1> QED
  BY <1>1, <1>2, PTL DEF ServicesSpec, MonitorProofs!Spec

(* So do the database and the admin command.                               *)
LEMMA BackupRuns == ServicesSpec => BackupProofs!Spec
<1>1. ServicesInit => BackupProofs!Init
  <2>1. Backup!Init => BackupProofs!Init
    BY DEF Backup!Init, Backup!Idle, Backup!Nothing, Backup!Names,
        Backup!Tables, BackupProofs!Init, BackupProofs!Idle,
        BackupProofs!Nothing, BackupProofs!Names, BackupProofs!Tables
  <2> QED
    BY <2>1 DEF ServicesInit
<1>2. [ServicesNext /\ UNCHANGED part]_<<vars, monitorVars, backupVars, part>>
      => [BackupProofs!Next]_BackupProofs!vars
  <2>1. Backup!Next => BackupProofs!Next
    BY Zenon DEF Backup!Next, Backup!vars, Backup!System, Backup!Tables,
        Backup!Names, Backup!DeleteOrder, Backup!Row, Backup!Nothing,
        Backup!IdsOf, Backup!RefersTo, Backup!Idle, Backup!Gone, Backup!Left,
        Backup!Write, Backup!CreateRun, Backup!UpdateRun, Backup!CreateRecord,
        Backup!BeginBackup, Backup!Select, Backup!WriteFile,
        Backup!BeginRestore, Backup!Deletable, Backup!Delete, Backup!Deleted,
        Backup!Insertable, Backup!Insert, Backup!Commit, Backup!Abort,
        Backup!End, BackupProofs!Next, BackupProofs!vars, BackupProofs!System,
        BackupProofs!Tables, BackupProofs!Names, BackupProofs!DeleteOrder,
        BackupProofs!Row, BackupProofs!Nothing, BackupProofs!IdsOf,
        BackupProofs!RefersTo, BackupProofs!Idle, BackupProofs!Gone,
        BackupProofs!Left, BackupProofs!Write, BackupProofs!CreateRun,
        BackupProofs!UpdateRun, BackupProofs!CreateRecord,
        BackupProofs!BeginBackup, BackupProofs!Select, BackupProofs!WriteFile,
        BackupProofs!BeginRestore, BackupProofs!Deletable,
        BackupProofs!Delete, BackupProofs!Deleted, BackupProofs!Insertable,
        BackupProofs!Insert, BackupProofs!Commit, BackupProofs!Abort,
        BackupProofs!End
  <2>2. UNCHANGED backupVars => UNCHANGED BackupProofs!vars
    BY DEF backupVars, BackupProofs!vars
  <2> QED
    BY <2>1, <2>2 DEF ServicesNext
<1> QED
  BY <1>1, <1>2, PTL DEF ServicesSpec, BackupProofs!Spec
-----------------------------------------------------------------------------
(* A frozen controller is noticed in the composition as well, for any      *)
(* threads, register and threshold (FrozenIsNoticed, controller_status).   *)
THEOREM FrozenNoticed ==
    ASSUME MonitorProofs!Sizes
    PROVE  ServicesSpec => FrozenIsNoticed
<1> DEFINE Notices == \A t \in Threads :
                /\ thread[t].pc # "idle" /\ thread'[t].pc = "idle"
                /\ settled # None /\ now - settled >= StaleAfter
                => ~answer'.ok
<1>1. MonitorProofs!Spec => [][Notices]_MonitorProofs!vars
  BY MonitorProofs!FrozenNoticed DEF MonitorProofs!FrozenIsNoticed
<1>2. [Notices]_MonitorProofs!vars => [Notices]_Monitor!vars
  BY DEF MonitorProofs!vars, Monitor!vars
<1>3. [][Notices]_Monitor!vars => FrozenIsNoticed
  BY DEF FrozenIsNoticed, Monitor!FrozenIsNoticed
<1> HIDE DEF Notices
<1>4. MonitorProofs!Spec => [][Notices]_Monitor!vars
  BY <1>1, <1>2, PTL
<1> QED
  BY <1>3, <1>4, MonitorRuns, PTL

(* A controller that counts is taken for lost only after a restart or a    *)
(* whole turn of its register (HealthyIsLeftAlone, controller_status).     *)
THEOREM HealthyLeftAlone ==
    ASSUME MonitorProofs!Sizes
    PROVE  ServicesSpec => []HealthyIsLeftAlone
<1>1. MonitorProofs!Spec => []MonitorProofs!HealthyIsLeftAlone
  BY MonitorProofs!HealthyLeftAlone
<1>2. MonitorProofs!HealthyIsLeftAlone => HealthyIsLeftAlone
  BY DEF MonitorProofs!HealthyIsLeftAlone, Monitor!HealthyIsLeftAlone,
         HealthyIsLeftAlone
<1> QED
  BY <1>1, <1>2, MonitorRuns, PTL

(* A restore that commits replaces the data, whatever the system writes    *)
(* meanwhile (RestoreReplacesTheData, restore_backup).                     *)
THEOREM RestoreReplaces ==
    ASSUME BackupProofs!Sensible
    PROVE  ServicesSpec => []RestoreReplacesTheData
<1>1. BackupProofs!Spec => []BackupProofs!RestoreReplacesTheData
  BY BackupProofs!RestoreReplaces
<1>2. BackupProofs!RestoreReplacesTheData => RestoreReplacesTheData
  BY Zenon DEF BackupProofs!RestoreReplacesTheData, BackupProofs!Names,
         BackupProofs!Tables, BackupProofs!IdsOf, RestoreReplacesTheData,
         Backup!RestoreReplacesTheData, Backup!Names, Backup!Tables, Backup!IdsOf
<1> QED
  BY <1>1, <1>2, BackupRuns, PTL

(* A backup taken while nothing was written restores while nothing is      *)
(* written (QuietBackupRestores, create_backup, restore_backup).           *)
THEOREM QuietBackups ==
    ASSUME BackupProofs!Sensible
    PROVE  ServicesSpec => []QuietBackupRestores
<1>1. BackupProofs!Spec => []BackupProofs!QuietBackupRestores
  BY BackupProofs!QuietBackups
<1>2. BackupProofs!QuietBackupRestores => QuietBackupRestores
  BY DEF BackupProofs!QuietBackupRestores, BackupProofs!Nothing,
         BackupProofs!Names, BackupProofs!Tables, QuietBackupRestores,
         Backup!QuietBackupRestores, Backup!Nothing, Backup!Names, Backup!Tables
<1> QED
  BY <1>1, <1>2, BackupRuns, PTL
=============================================================================
