--------------------------- MODULE BackupRestore ---------------------------
(***************************************************************************)
(* The admin commands backup and restore (admin.py) next to the running    *)
(* API and worker.  A backup selects one table after another, each select  *)
(* sees what is committed by then; a restore deletes every table and       *)
(* inserts the backup's rows in one transaction.                           *)
(*                                                                         *)
(* A row is an identifier, the run it refers to (None where it refers to   *)
(* none) and, for the rows of runs, a version that every update raises.    *)
(***************************************************************************)
EXTENDS Naturals, Sequences

CONSTANTS
    Ids,          \* identifiers of rows
    Written,      \* tables the system writes besides that of the runs
    MaxVersion,   \* bound: updates of one run
    MaxWrites,    \* bound: rows inserted or updated by the system
    None

VARIABLES
    db,      \* per table, the committed rows
    writes,  \* rows written by the system, ever
    job,     \* the admin command that is running
    file,    \* per table, the rows of the last backup, or None
    torn,    \* whether the system wrote while that backup was taken
    since    \* the tables' rows written since the restore began

vars == <<db, writes, job, file, torn, since>>

(* _MODELS *)
Tables == <<"runs", "notices", "approvals", "controls", "attempts", "events">>
Names == {Tables[i] : i \in DOMAIN Tables}

(* _DELETE_MODELS; wrong, as mutants, when the list is not reversed, or    *)
(* when the last table is forgotten.                                       *)
DeleteOrderAsListed == Tables
DeleteOrderOfFive == [i \in 1 .. Len(Tables) - 1 |-> Tables[Len(Tables) - i]]
DeleteOrder == [i \in DOMAIN Tables |-> Tables[Len(Tables) + 1 - i]]

Row == [id : Ids, run : Ids \cup {None}, version : 0 .. MaxVersion]
Content == [Names -> SUBSET Row]
Nothing == [t \in Names |-> {}]

IdsOf(rows) == {r.id : r \in rows}
RefersTo(rows, runs) == \A r \in rows : r.run # None => r.run \in IdsOf(runs)

(* Foreign keys of a whole database. *)
Consistent(content) == \A t \in Names : RefersTo(content[t], content["runs"])

Idle == [pc |-> "idle"]

(* What the restore has deleted is not to be seen by it, and locked for    *)
(* everybody else.                                                         *)
Gone(t) == IF job.pc \in {"delete", "insert"} THEN job.gone[t] ELSE {}
Left(t) == db[t] \ Gone(t)

-----------------------------------------------------------------------------
(* The system. *)

Write(t, old, row) ==
    /\ writes < MaxWrites
    /\ db' = [db EXCEPT ![t] = (@ \ old) \cup {row}]
    /\ writes' = writes + 1
    /\ torn' = (torn \/ job.pc = "select")
    /\ since' = [since EXCEPT ![t] = @ \cup {row}]
    /\ UNCHANGED <<job, file>>

(* A run is created (its transaction commits on its own). *)
CreateRun(id) ==
    /\ id \notin IdsOf(db["runs"])
    /\ Write("runs", {}, [id |-> id, run |-> None, version |-> 0])

(* A run is claimed, finished or cancelled; one deleted by the restore is  *)
(* waited for and then gone.                                               *)
UpdateRun(row) ==
    /\ row \in Left("runs")
    /\ row.version < MaxVersion
    /\ Write("runs", {row}, [row EXCEPT !.version = @ + 1])

(* A notice, a decision or a piece of evidence about a run, or an event    *)
(* about none.                                                             *)
CreateRecord(t, id, run) ==
    /\ t # "runs"
    /\ id \notin IdsOf(db[t])
    /\ run = None <=> t = "events"
    /\ run # None => run \in IdsOf(Left("runs"))
    /\ Write(t, {}, [id |-> id, run |-> run, version |-> 0])

-----------------------------------------------------------------------------
(* create_backup and write_backup. *)

BeginBackup ==
    /\ job = Idle
    /\ job' = [pc |-> "select", next |-> 1, rows |-> Nothing]
    /\ torn' = FALSE
    /\ file' = None
    /\ UNCHANGED <<db, writes, since>>

Select ==
    /\ job.pc = "select"
    /\ job.next <= Len(Tables)
    /\ job' = [job EXCEPT !.next = @ + 1,
                          !.rows[Tables[job.next]] = db[Tables[job.next]]]
    /\ UNCHANGED <<db, writes, file, torn, since>>

(* The digest is added and the file put in place in one step. *)
WriteFile ==
    /\ job.pc = "select"
    /\ job.next > Len(Tables)
    /\ file' = job.rows
    /\ job' = Idle
    /\ UNCHANGED <<db, writes, torn, since>>

-----------------------------------------------------------------------------
(* restore_backup, of a file whose digest, tables and columns are right. *)

BeginRestore ==
    /\ job = Idle
    /\ file # None
    /\ job' = [pc |-> "delete", next |-> 1, gone |-> Nothing]
    /\ since' = Nothing
    /\ UNCHANGED <<db, writes, file, torn>>

(* A run another table still refers to cannot be deleted. *)
Deletable(t) == t = "runs" => \A u \in Names : \A r \in Left(u) : r.run = None

Delete ==
    /\ job.pc = "delete"
    /\ job.next <= Len(DeleteOrder)
    /\ LET t == DeleteOrder[job.next]
       IN  /\ Deletable(t)
           /\ job' = [job EXCEPT !.next = @ + 1, !.gone[t] = db[t]]
    /\ UNCHANGED <<db, writes, file, torn, since>>

Deleted ==
    /\ job.pc = "delete"
    /\ job.next > Len(DeleteOrder)
    /\ job' = [pc |-> "insert", next |-> 1, gone |-> job.gone]
    /\ UNCHANGED <<db, writes, file, torn, since>>

(* A row can be inserted when no committed row has its identifier and the  *)
(* run it refers to is there.                                              *)
Insertable(t) ==
    LET runs == Left("runs") \cup (IF t = "runs" THEN {} ELSE file["runs"])
    IN  /\ IdsOf(file[t]) \cap IdsOf(Left(t)) = {}
        /\ RefersTo(file[t], runs)

Insert ==
    /\ job.pc = "insert"
    /\ job.next <= Len(Tables)
    /\ Insertable(Tables[job.next])
    /\ job' = [job EXCEPT !.next = @ + 1]
    /\ UNCHANGED <<db, writes, file, torn, since>>

Commit ==
    /\ job.pc = "insert"
    /\ job.next > Len(Tables)
    /\ db' = [t \in Names |-> Left(t) \cup file[t]]
    /\ job' = [pc |-> "restored"]
    /\ UNCHANGED <<writes, file, torn, since>>

(* An integrity error rolls the transaction back. *)
Abort ==
    /\ \/ /\ job.pc = "delete"
          /\ job.next <= Len(DeleteOrder)
          /\ ~Deletable(DeleteOrder[job.next])
       \/ /\ job.pc = "insert"
          /\ job.next <= Len(Tables)
          /\ ~Insertable(Tables[job.next])
    /\ job' = [pc |-> "aborted"]
    /\ UNCHANGED <<db, writes, file, torn, since>>

(* The command ends or is killed. *)
End ==
    /\ job # Idle
    /\ job' = Idle
    /\ UNCHANGED <<db, writes, file, torn, since>>

Init ==
    /\ db = Nothing
    /\ writes = 0
    /\ job = Idle
    /\ file = None
    /\ torn = FALSE
    /\ since = Nothing

System ==
    \/ \E id \in Ids : CreateRun(id)
    \/ \E row \in db["runs"] : UpdateRun(row)
    \/ \E t \in Written, id \in Ids, run \in Ids \cup {None} : CreateRecord(t, id, run)

Next ==
    \/ System
    \/ BeginBackup \/ Select \/ WriteFile
    \/ BeginRestore \/ Delete \/ Deleted \/ Insert \/ Commit \/ Abort
    \/ End

Spec == Init /\ [][Next]_vars

-----------------------------------------------------------------------------
Jobs ==
    {Idle, [pc |-> "restored"], [pc |-> "aborted"]}
    \cup [pc : {"select"}, next : 1 .. Len(Tables) + 1, rows : Content]
    \cup [pc : {"delete", "insert"}, next : 1 .. Len(Tables) + 1, gone : Content]

TypeOK ==
    /\ db \in Content
    /\ writes \in 0 .. MaxWrites
    /\ job \in Jobs
    /\ file \in Content \cup {None}
    /\ torn \in BOOLEAN
    /\ since \in Content

(* A restore replaces the data: afterwards every row is the backup's or    *)
(* was written since the restore began, and a row of the backup is only    *)
(* missing because it was updated since (restore_backup).                  *)
RestoreReplacesTheData ==
    job.pc = "restored" =>
        \A t \in Names :
            /\ db[t] \subseteq file[t] \cup since[t]
            /\ IdsOf(file[t] \ db[t]) \subseteq IdsOf(since[t])

(* A backup taken while nothing was written can be restored, whatever the  *)
(* system did between the two, as long as it writes nothing meanwhile: the *)
(* orders in which tables are deleted and inserted respect the references  *)
(* (create_backup, restore_backup).                                        *)
QuietBackupRestores ==
    job.pc = "aborted" => torn \/ since # Nothing
=============================================================================
