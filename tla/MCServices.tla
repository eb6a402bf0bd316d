----------------------------- MODULE MCServices -----------------------------
(***************************************************************************)
(* Three small components that share no state, checked in one run: a       *)
(* behaviour is one of SolverPortfolio, of HeartbeatMonitor or of          *)
(* BackupRestore, and leaves the other two in an initial state.            *)
(***************************************************************************)
EXTENDS SolverPortfolio, TLC

CONSTANTS Threads, Modulus, StaleAfter, MaxTime, MaxServed, MaxRestarts
VARIABLES plc, now, last, lastChange, thread, answer, settled
Monitor == INSTANCE HeartbeatMonitor
monitorVars == <<plc, now, last, lastChange, thread, answer, settled>>

CONSTANTS Ids, Written, MaxVersion, MaxWrites
VARIABLES db, writes, job, file, torn, since
Backup == INSTANCE BackupRestore
backupVars == <<db, writes, job, file, torn, since>>

VARIABLE part

(* Four plans: p1 and p4 serve best, p4 with less slack (but by less than  *)
(* the gap of the last stage) and at more cost; p2 is within the tolerance *)
(* in service; p3 is cheap and serves worst.                               *)
ServiceOf == "p1" :> 0 @@ "p2" :> 1 @@ "p3" :> 2 @@ "p4" :> 0
SlackOf == "p1" :> 9 @@ "p2" :> 1 @@ "p3" :> 0 @@ "p4" :> 7
CostOf == "p1" :> 4 @@ "p2" :> 9 @@ "p3" :> -6 @@ "p4" :> 5

ServicesInit ==
    /\ part \in {"solvers", "monitor", "backup"}
    /\ Init /\ Monitor!Init /\ Backup!Init
    /\ part # "solvers" => kind = "nominal" /\ feasible = {} /\ available = {}
    /\ part # "monitor" => plc.enabled

ServicesNext ==
    \/ part = "solvers" /\ Next /\ UNCHANGED <<monitorVars, backupVars>>
    \/ part = "monitor" /\ Monitor!Next /\ UNCHANGED <<vars, backupVars>>
    \/ part = "backup" /\ Backup!Next /\ UNCHANGED <<vars, monitorVars>>

ServicesSpec ==
    ServicesInit /\ [][ServicesNext /\ UNCHANGED part]_<<
                        vars, monitorVars, backupVars, part>>

(* A frozen controller is noticed (HeartbeatMonitor, controller_status). *)
FrozenIsNoticed == Monitor!FrozenIsNoticed

(* A controller that counts is lost only after a restart or a whole turn   *)
(* of its register (HeartbeatMonitor, controller_status).                  *)
HealthyIsLeftAlone == Monitor!HealthyIsLeftAlone

(* A restore replaces the data (BackupRestore, restore_backup). *)
RestoreReplacesTheData == Backup!RestoreReplacesTheData

(* A quiet backup restores (BackupRestore, create_backup, restore_backup). *)
QuietBackupRestores == Backup!QuietBackupRestores
=============================================================================
