------------------------ MODULE BackupRestoreProofs ------------------------
(***************************************************************************)
(* Theorems about BackupRestore, for any identifiers, tables written, and  *)
(* bounds: whatever the system writes meanwhile, and wherever a restore    *)
(* fails or is killed, no row ever refers to a run that is not there, and  *)
(* a restore that commits leaves nothing older than itself but the backup. *)
(***************************************************************************)
EXTENDS BackupRestore, TLAPS

(* The bounds are numbers, the tables written have names, and None is      *)
(* neither an identifier nor the content of a database.                    *)
Sensible ==
    /\ MaxVersion \in Nat
    /\ MaxWrites \in Nat
    /\ Written \subseteq Names
    /\ None \notin Ids
    /\ None \notin Content

(* The tables by number. *)
LEMMA ElementsOfTables ==
    /\ DOMAIN Tables = 1 .. 6 /\ Len(Tables) = 6
    /\ DOMAIN DeleteOrder = 1 .. 6 /\ Len(DeleteOrder) = 6
    /\ \A i \in 1 .. 6 : Tables[i] \in Names /\ DeleteOrder[i] = Tables[7 - i]
    /\ Tables[1] = "runs"
    /\ \A t \in Names : \E i \in 1 .. 6 : Tables[i] = t
    /\ \A i \in 2 .. 6 : Tables[i] # "runs"
    /\ "runs" \in Names
<1>1. /\ DOMAIN Tables = 1 .. 6 /\ Len(Tables) = 6
      /\ \A t \in Names : \E i \in 1 .. 6 : Tables[i] = t
      /\ \A i \in 1 .. 6 : Tables[i] \in Names
      /\ Tables[1] = "runs"
      /\ \A i \in 2 .. 6 : Tables[i] # "runs"
  BY DEF Tables, Names
<1>2. DeleteOrder = [i \in 1 .. 6 |-> Tables[7 - i]]
  <2>1. \A i \in 1 .. 6 : Len(Tables) + 1 - i = 7 - i
    BY <1>1
  <2> QED
    BY <2>1, <1>1, Zenon DEF DeleteOrder
<1>3. DOMAIN DeleteOrder = 1 .. 6 /\ Len(DeleteOrder) = 6
  <2>1. \A i \in 1 .. 6 : Tables[7 - i] \in Names
    BY <1>1
  <2>2. DeleteOrder \in [1 .. 6 -> Names]
    BY <2>1, <1>2
  <2> QED
    BY <2>2
<1>4. \A i \in 1 .. 6 : DeleteOrder[i] = Tables[7 - i]
  BY <1>2
<1> QED
  BY <1>1, <1>3, <1>4

(* What a job in progress is made of. *)
Selecting == [pc : {"select"}, next : 1 .. 7, rows : Content]
Restoring == [pc : {"delete", "insert"}, next : 1 .. 7, gone : Content]

LEMMA JobsByPlace ==
    /\ Jobs = {Idle, [pc |-> "restored"], [pc |-> "aborted"]}
              \cup Selecting \cup Restoring
    /\ \A j \in Jobs : j.pc = "select" => j \in Selecting
    /\ \A j \in Jobs : j.pc \in {"delete", "insert"} => j \in Restoring
<1>1. Len(Tables) + 1 = 7
  BY ElementsOfTables
<1>2. Jobs = {Idle, [pc |-> "restored"], [pc |-> "aborted"]}
              \cup Selecting \cup Restoring
  BY <1>1 DEF Jobs, Selecting, Restoring
<1>3. \A j \in Selecting : j.pc = "select"
  BY DEF Selecting
<1>4. \A j \in Restoring : j.pc \in {"delete", "insert"}
  BY DEF Restoring
<1> QED
  BY <1>2, <1>3, <1>4 DEF Idle

(* Whoever restores has a file. *)
TypeInv ==
    /\ TypeOK
    /\ job.pc \in {"delete", "insert"} => file \in Content

LEMMA WriteKeepsTypes ==
    ASSUME Sensible, TypeInv, NEW t \in Names, NEW old, NEW row \in Row,
           Write(t, old, row)
    PROVE  TypeInv'
<1>1. db' \in Content /\ since' \in Content
  BY DEF Write, TypeInv, TypeOK, Content
<1>2. writes' \in 0 .. MaxWrites /\ torn' \in BOOLEAN
  BY DEF Write, TypeInv, TypeOK, Sensible
<1> QED
  BY <1>1, <1>2 DEF Write, TypeInv, TypeOK

(* The rows the system writes. *)
LEMMA RowsWritten ==
    ASSUME Sensible, TypeOK
    PROVE  /\ \A id \in Ids : [id |-> id, run |-> None, version |-> 0] \in Row
           /\ \A t \in Written, id \in Ids, run \in Ids \cup {None} :
                 [id |-> id, run |-> run, version |-> 0] \in Row
           /\ \A row \in Left("runs") : row.version < MaxVersion =>
                 /\ row \in Row
                 /\ [row EXCEPT !.version = @ + 1] \in Row
                 /\ [row EXCEPT !.version = @ + 1].id = row.id
                 /\ [row EXCEPT !.version = @ + 1].run = row.run
<1>1. 0 \in 0 .. MaxVersion
  BY DEF Sensible
<1>2. \A row \in Left("runs") : row \in Row
  BY ElementsOfTables DEF Left, TypeOK, Content
<1>3. ASSUME NEW row \in Row, row.version < MaxVersion
      PROVE  /\ [row EXCEPT !.version = @ + 1] \in Row
             /\ [row EXCEPT !.version = @ + 1].id = row.id
             /\ [row EXCEPT !.version = @ + 1].run = row.run
  BY <1>3 DEF Row, Sensible
<1> QED
  BY <1>1, <1>2, <1>3 DEF Row

LEMMA SystemKeepsTypes ==
    ASSUME Sensible, TypeInv, System
    PROVE  TypeInv'
<1> USE DEF TypeInv
<1>1. ASSUME NEW id \in Ids, CreateRun(id) PROVE TypeInv'
  BY <1>1, WriteKeepsTypes, RowsWritten, ElementsOfTables DEF CreateRun
<1>2. ASSUME NEW row \in db["runs"], UpdateRun(row) PROVE TypeInv'
  <2>1. PICK new \in Row : Write("runs", {row}, new)
    BY <1>2, RowsWritten DEF UpdateRun
  <2> QED
    BY <2>1, WriteKeepsTypes, ElementsOfTables
<1>3. ASSUME NEW t \in Written, NEW id \in Ids, NEW run \in Ids \cup {None},
             CreateRecord(t, id, run)
      PROVE  TypeInv'
  BY <1>3, WriteKeepsTypes, RowsWritten DEF CreateRecord, Sensible
<1> QED
  BY <1>1, <1>2, <1>3 DEF System

(* The tables the steps of a job go through. *)
LEMMA DeleteStep ==
    ASSUME TypeInv, Delete
    PROVE  \E t \in Names :
               /\ t = DeleteOrder[job.next]
               /\ Deletable(t)
               /\ job.pc = "delete"
               /\ job.next \in 1 .. 6
               /\ job \in Restoring
               /\ job' = [pc |-> "delete", next |-> job.next + 1,
                          gone |-> [job.gone EXCEPT ![t] = db[t]]]
<1>1. job \in Restoring /\ job.pc = "delete"
  BY JobsByPlace DEF TypeInv, TypeOK, Delete
<1>2. job.next \in 1 .. 6
  BY <1>1, ElementsOfTables DEF Restoring, Delete
<1>3. DeleteOrder[job.next] \in Names
  <2>1. 7 - job.next \in 1 .. 6
    BY <1>2
  <2> QED
    BY <2>1, <1>2, ElementsOfTables
<1>4. PICK t \in Names : t = DeleteOrder[job.next]
  BY <1>3
<1>5. job' = [job EXCEPT !.next = @ + 1, !.gone[t] = db[t]] /\ Deletable(t)
  BY <1>4 DEF Delete
<1>6. job' = [pc |-> "delete", next |-> job.next + 1,
              gone |-> [job.gone EXCEPT ![t] = db[t]]]
  BY <1>1, <1>5 DEF Restoring
<1> QED
  BY <1>1, <1>2, <1>4, <1>5, <1>6

LEMMA InsertStep ==
    ASSUME TypeInv, Insert
    PROVE  /\ job.pc = "insert"
           /\ job.next \in 1 .. 6
           /\ job \in Restoring
           /\ Insertable(Tables[job.next])
           /\ job' = [job EXCEPT !.next = @ + 1]
           /\ job' \in Restoring
<1>1. job \in Restoring /\ job.pc = "insert"
  BY JobsByPlace DEF TypeInv, TypeOK, Insert
<1>2. job.next \in 1 .. 6
  BY <1>1, ElementsOfTables DEF Restoring, Insert
<1>3. job' = [job EXCEPT !.next = @ + 1]
  BY DEF Insert
<1> QED
  BY <1>1, <1>2, <1>3 DEF Restoring, Insert

LEMMA NextKeepsTypes ==
    ASSUME Sensible, TypeInv, [Next]_vars
    PROVE  TypeInv'
<1>n. Nothing \in Content
  BY DEF Nothing, Content
<1>t. /\ db \in Content /\ writes \in 0 .. MaxWrites /\ job \in Jobs
      /\ file \in Content \cup {None} /\ torn \in BOOLEAN /\ since \in Content
      /\ job.pc \in {"delete", "insert"} => file \in Content
  BY DEF TypeInv, TypeOK
<1>j. \A j \in Selecting \cup Restoring
            \cup {Idle, [pc |-> "restored"], [pc |-> "aborted"]} : j \in Jobs
  BY JobsByPlace
<1>p. \A j \in Selecting \cup {Idle, [pc |-> "restored"], [pc |-> "aborted"]} :
          j.pc \notin {"delete", "insert"}
  BY DEF Selecting, Idle
<1> HIDE DEF Jobs, Idle
<1>1. CASE System
  BY <1>1, SystemKeepsTypes
<1>2. CASE BeginBackup
  <2>1. job' \in Selecting
    BY <1>2, <1>n DEF BeginBackup, Selecting
  <2> QED
    BY <1>2, <1>t, <1>j, <1>p, <2>1 DEF BeginBackup, TypeInv, TypeOK
<1>3. CASE Select
  <2>1. job \in Selecting
    BY <1>3, <1>t, JobsByPlace DEF Select
  <2>2. job.next + 1 \in 1 .. 7 /\ Tables[job.next] \in Names
    BY <1>3, <2>1, ElementsOfTables DEF Select, Selecting
  <2>3. PICK t \in Names : job' = [job EXCEPT !.next = @ + 1, !.rows[t] = db[t]]
    BY <1>3, <2>2 DEF Select
  <2>4. job' \in Selecting
    BY <2>1, <2>2, <2>3, <1>t DEF Selecting, Content
  <2> QED
    BY <1>3, <1>t, <1>j, <1>p, <2>4 DEF Select, TypeInv, TypeOK
<1>4. CASE WriteFile
  <2>1. job.rows \in Content
    BY <1>4, <1>t, JobsByPlace DEF WriteFile, Selecting
  <2> QED
    BY <1>4, <1>t, <1>j, <1>p, <2>1 DEF WriteFile, TypeInv, TypeOK
<1>5. CASE BeginRestore
  <2>1. job' \in Restoring
    BY <1>5, <1>n DEF BeginRestore, Restoring
  <2> QED
    BY <1>5, <1>n, <1>t, <1>j, <2>1 DEF BeginRestore, TypeInv, TypeOK
<1>6. CASE Delete
  <2>1. PICK t \in Names :
          /\ job \in Restoring /\ job.next \in 1 .. 6
          /\ job.pc = "delete"
          /\ job' = [pc |-> "delete", next |-> job.next + 1,
                     gone |-> [job.gone EXCEPT ![t] = db[t]]]
    BY <1>6, DeleteStep
  <2>2. job' \in Restoring
    BY <2>1, <1>t DEF Restoring, Content
  <2> QED
    BY <1>6, <1>t, <1>j, <2>1, <2>2 DEF Delete, TypeInv, TypeOK
<1>7. CASE Deleted
  <2>1. job' \in Restoring
    BY <1>7, <1>t, JobsByPlace DEF Deleted, Restoring
  <2> QED
    BY <1>7, <1>t, <1>j, <2>1 DEF Deleted, TypeInv, TypeOK
<1>8. CASE Insert
  BY <1>8, <1>t, <1>j, InsertStep DEF Insert, TypeInv, TypeOK
<1>9. CASE Commit
  <2>1. file \in Content
    BY <1>9, <1>t DEF Commit
  <2>2. db' \in Content
    BY <1>9, <1>t, <2>1 DEF Commit, Content, Left
  <2> QED
    BY <1>9, <1>t, <1>j, <1>p, <2>2 DEF Commit, TypeInv, TypeOK
<1>10. CASE Abort
  BY <1>10, <1>t, <1>j, <1>p DEF Abort, TypeInv, TypeOK
<1>11. CASE End
  BY <1>11, <1>t, <1>j, <1>p DEF End, TypeInv, TypeOK
<1>12. CASE UNCHANGED vars
  BY <1>12, <1>t DEF vars, TypeInv, TypeOK
<1> QED
  BY <1>1, <1>2, <1>3, <1>4, <1>5, <1>6, <1>7, <1>8, <1>9, <1>10, <1>11, <1>12
  DEF Next

(* Tables, types and bounds hold in every reachable state (TypeOK).        *)
THEOREM TypeCorrect ==
    ASSUME Sensible
    PROVE  Spec => []TypeOK
<1>1. Init => TypeInv
  <2>1. Nothing \in Content /\ 0 \in 0 .. MaxWrites
    BY DEF Nothing, Content, Sensible
  <2>2. Idle \in Jobs
    BY JobsByPlace
  <2>3. Idle.pc = "idle"
    BY DEF Idle
  <2> QED
    BY <2>1, <2>2, <2>3 DEF Init, TypeInv, TypeOK
<1>2. TypeInv /\ [Next]_vars => TypeInv'
  BY NextKeepsTypes
<1>3. TypeInv => TypeOK
  BY DEF TypeInv
<1> QED
  BY <1>1, <1>2, <1>3, PTL DEF Spec
-----------------------------------------------------------------------------
(* What is gone was there; no row left refers to a run that is gone.       *)
References ==
    /\ \A t \in Names : Gone(t) \subseteq db[t]
    /\ IdsOf(Gone("runs")) \cap IdsOf(Left("runs")) = {}
    /\ \A t \in Names : RefersTo(Left(t), Left("runs"))
    /\ Consistent(db)

(* What a deleted table holds was written since; what was inserted refers  *)
(* to runs that will be there.                                             *)
Replacing ==
    /\ job.pc = "delete" =>
           \A i \in 1 .. 6 : i < job.next =>
               Left(DeleteOrder[i]) \subseteq since[DeleteOrder[i]]
    /\ job.pc = "insert" =>
           /\ \A t \in Names : Left(t) \subseteq since[t]
           /\ \A i \in 1 .. 6 : i < job.next =>
                 RefersTo(file[Tables[i]], Left("runs") \cup file["runs"])

Inv == TypeInv /\ References /\ Replacing /\ RestoreReplacesTheData

(* Outside a restore nothing is gone. *)
LEMMA NothingGone ==
    ASSUME job.pc \notin {"delete", "insert"}
    PROVE  \A t : Gone(t) = {} /\ Left(t) = db[t]
BY DEF Gone, Left

(* More runs satisfy as many references. *)
LEMMA RefersToMore ==
    ASSUME NEW rows, NEW more, NEW runs, NEW others,
           RefersTo(more, runs), rows \subseteq more,
           IdsOf(runs) \subseteq IdsOf(others)
    PROVE  RefersTo(rows, others)
BY DEF RefersTo

(* A write that lets identifiers stand keeps everything.                   *)
LEMMA WriteKeeps ==
    ASSUME Inv, NEW t \in Names, NEW old, NEW row, Write(t, old, row),
           old \subseteq Left(t), \A r \in old : r.id = row.id,
           row.id \notin IdsOf(Gone(t)),
           row.run # None => row.run \in IdsOf(Left("runs"))
    PROVE  References' /\ Replacing' /\ RestoreReplacesTheData'
<1>1. /\ db \in Content /\ since \in Content
      /\ db' = [db EXCEPT ![t] = (@ \ old) \cup {row}]
      /\ since' = [since EXCEPT ![t] = @ \cup {row}]
      /\ job' = job /\ file' = file
  BY DEF Inv, TypeInv, TypeOK, Write
<1>2. \A u : Gone(u)' = Gone(u)
  BY <1>1 DEF Gone
<1>3. row \notin Gone(t)
  BY DEF IdsOf
<1>4. /\ \A u \in Names : u # t => db'[u] = db[u] /\ since'[u] = since[u]
      /\ db'[t] = (db[t] \ old) \cup {row}
      /\ since'[t] = since[t] \cup {row}
      /\ \A u \in Names : since[u] \subseteq since'[u]
  BY <1>1 DEF Content
<1>5. /\ \A u \in Names : u # t => Left(u)' = Left(u)
      /\ Left(t)' = (Left(t) \ old) \cup {row}
  BY <1>2, <1>3, <1>4 DEF Left
<1>6. \A u \in Names : Left(u)' \subseteq Left(u) \cup (IF u = t THEN {row} ELSE {})
  BY <1>5
<1>r. "runs" \in Names
  BY ElementsOfTables
<1>7. /\ IdsOf(Left("runs")) \subseteq IdsOf(Left("runs")')
      /\ IdsOf(db["runs"]) \subseteq IdsOf(db'["runs"])
  BY <1>4, <1>5, <1>r DEF IdsOf
<1>8. IdsOf(Left("runs")) \subseteq IdsOf(db["runs"])
  BY DEF IdsOf, Left
<1>9. References'
  <2>1. \A u \in Names : Gone(u)' \subseteq db'[u]
    BY <1>2, <1>4 DEF Inv, References, Left
  <2>2. IdsOf(Gone("runs")') \cap IdsOf(Left("runs")') = {}
    BY <1>2, <1>5, <1>r DEF Inv, References, IdsOf
  <2>3. \A u \in Names : RefersTo(Left(u)', Left("runs")')
    BY <1>6, <1>7 DEF Inv, References, RefersTo
  <2>4. \A u \in Names : RefersTo(db'[u], db'["runs"])
    BY <1>4, <1>7, <1>8 DEF Inv, References, Consistent, RefersTo
  <2> QED
    BY <2>1, <2>2, <2>3, <2>4 DEF References, Consistent
<1>10. Replacing'
  <2>1. \A u \in Names : Left(u) \subseteq since[u] => Left(u)' \subseteq since'[u]
    BY <1>4, <1>5
  <2>2. \A i \in 1 .. 6 : DeleteOrder[i] \in Names
    BY ElementsOfTables
  <2>3. IdsOf(Left("runs") \cup file["runs"])
            \subseteq IdsOf(Left("runs")' \cup file'["runs"])
    BY <1>1, <1>7 DEF IdsOf
  <2>4. ASSUME NEW i \in 1 .. 6,
               RefersTo(file[Tables[i]], Left("runs") \cup file["runs"])
        PROVE  RefersTo(file'[Tables[i]], Left("runs")' \cup file'["runs"])
    BY <1>1, <2>3, <2>4 DEF RefersTo
  <2>5. job.pc = "delete" =>
            \A i \in 1 .. 6 : i < job.next =>
                Left(DeleteOrder[i])' \subseteq since'[DeleteOrder[i]]
    BY <2>1, <2>2 DEF Inv, Replacing
  <2>6. job.pc = "insert" =>
            /\ \A u \in Names : Left(u)' \subseteq since'[u]
            /\ \A i \in 1 .. 6 : i < job.next =>
                  RefersTo(file'[Tables[i]], Left("runs")' \cup file'["runs"])
    BY <2>1, <2>4 DEF Inv, Replacing
  <2> QED
    BY <2>5, <2>6, <1>1 DEF Replacing
<1>11. RestoreReplacesTheData'
  <2>1. SUFFICES ASSUME job.pc = "restored", NEW u \in Names
                 PROVE  /\ db'[u] \subseteq file[u] \cup since'[u]
                        /\ IdsOf(file[u] \ db'[u]) \subseteq IdsOf(since'[u])
    BY <1>1 DEF RestoreReplacesTheData
  <2>2. /\ db[u] \subseteq file[u] \cup since[u]
        /\ IdsOf(file[u] \ db[u]) \subseteq IdsOf(since[u])
    BY <2>1 DEF Inv, RestoreReplacesTheData
  <2>3. db'[u] \subseteq file[u] \cup since'[u]
    BY <2>2, <1>4
  <2>4. IdsOf(file[u] \ db'[u]) \subseteq IdsOf(since'[u])
    BY <2>2, <1>4 DEF IdsOf
  <2> QED
    BY <2>3, <2>4
<1> QED
  BY <1>9, <1>10, <1>11

LEMMA SystemKeeps ==
    ASSUME Sensible, Inv, System
    PROVE  References' /\ Replacing' /\ RestoreReplacesTheData'
<1>g. \A t \in Names : IdsOf(Gone(t)) \subseteq IdsOf(db[t])
  BY DEF Inv, References, IdsOf
<1>r. "runs" \in Names /\ TypeOK
  BY ElementsOfTables DEF Inv, TypeInv
<1>1. ASSUME NEW id \in Ids, CreateRun(id)
      PROVE  References' /\ Replacing' /\ RestoreReplacesTheData'
  <2>1. PICK row : row = [id |-> id, run |-> None, version |-> 0]
    OBVIOUS
  <2>2. row.id = id /\ row.run = None /\ Write("runs", {}, row)
    BY <1>1, <2>1 DEF CreateRun
  <2> QED
    BY <1>1, <2>2, <1>g, <1>r, WriteKeeps DEF CreateRun
<1>2. ASSUME NEW row \in db["runs"], UpdateRun(row)
      PROVE  References' /\ Replacing' /\ RestoreReplacesTheData'
  <2>1. PICK new : new = [row EXCEPT !.version = @ + 1]
    OBVIOUS
  <2>2. /\ Write("runs", {row}, new) /\ row \in Left("runs")
        /\ new.id = row.id /\ new.run = row.run
    BY <1>2, <2>1, <1>r, RowsWritten DEF UpdateRun
  <2>3. new.id \notin IdsOf(Gone("runs"))
    BY <2>2 DEF Inv, References, IdsOf
  <2>4. new.run # None => new.run \in IdsOf(Left("runs"))
    BY <2>2, <1>r DEF Inv, References, RefersTo
  <2> QED
    BY <2>2, <2>3, <2>4, <1>r, WriteKeeps
<1>3. ASSUME NEW t \in Written, NEW id \in Ids, NEW run \in Ids \cup {None},
             CreateRecord(t, id, run)
      PROVE  References' /\ Replacing' /\ RestoreReplacesTheData'
  <2>1. PICK row : row = [id |-> id, run |-> run, version |-> 0]
    OBVIOUS
  <2>2. row.id = id /\ row.run = run /\ Write(t, {}, row) /\ t \in Names
    BY <1>3, <2>1 DEF CreateRecord, Sensible
  <2> QED
    BY <1>3, <2>2, <1>g, WriteKeeps DEF CreateRecord
<1> QED
  BY <1>1, <1>2, <1>3 DEF System

(* A step of a job that leaves the tables alone and ends outside a restore *)
(* that committed.                                                         *)
LEMMA OutsideKeeps ==
    ASSUME Inv, db' = db, job'.pc \notin {"delete", "insert", "restored"}
    PROVE  References' /\ Replacing' /\ RestoreReplacesTheData'
<1>1. \A t : Gone(t)' = {} /\ Left(t)' = db'[t]
  BY DEF Gone, Left
<1>2. Consistent(db')
  BY DEF Inv, References
<1>3. References'
  BY <1>1, <1>2, ElementsOfTables DEF References, Consistent, IdsOf
<1> QED
  BY <1>3 DEF Replacing, RestoreReplacesTheData

LEMMA BeginKeeps ==
    ASSUME Inv, BeginRestore
    PROVE  References' /\ Replacing' /\ RestoreReplacesTheData'
<1>1. /\ job' = [pc |-> "delete", next |-> 1, gone |-> Nothing]
      /\ db' = db /\ job'.pc = "delete" /\ job'.next = 1 /\ job'.gone = Nothing
  BY DEF BeginRestore
<1>2. \A t \in Names : Gone(t)' = {} /\ Left(t)' = db'[t]
  BY <1>1 DEF Gone, Left, Nothing
<1>3. References'
  BY <1>1, <1>2, ElementsOfTables DEF Inv, References, Consistent, IdsOf
<1> QED
  BY <1>1, <1>3 DEF Replacing, RestoreReplacesTheData

LEMMA DeleteKeeps ==
    ASSUME Inv, Delete
    PROVE  References' /\ Replacing' /\ RestoreReplacesTheData'
<1>1. PICK t \in Names :
        /\ t = DeleteOrder[job.next] /\ Deletable(t) /\ job.pc = "delete"
        /\ job.next \in 1 .. 6 /\ job \in Restoring
        /\ job' = [pc |-> "delete", next |-> job.next + 1,
                   gone |-> [job.gone EXCEPT ![t] = db[t]]]
  BY DeleteStep DEF Inv
<1>2. db' = db /\ since' = since
  BY DEF Delete
<1>3. /\ job'.pc = "delete" /\ job'.next = job.next + 1
      /\ \A u \in Names : job'.gone[u] = IF u = t THEN db[u] ELSE job.gone[u]
  BY <1>1 DEF Restoring, Content
<1>4. \A u \in Names : Gone(u)' = IF u = t THEN db[u] ELSE Gone(u)
  BY <1>1, <1>3 DEF Gone
<1>5. \A u \in Names : Left(u)' = IF u = t THEN {} ELSE Left(u)
  BY <1>2, <1>4 DEF Left
<1>r. "runs" \in Names
  BY ElementsOfTables
<1>6. \A u \in Names : RefersTo(Left(u)', Left("runs")')
  <2>1. CASE t = "runs"
    BY <2>1, <1>1, <1>5 DEF Deletable, RefersTo
  <2>2. CASE t # "runs"
    BY <2>2, <1>5, <1>r DEF Inv, References, RefersTo
  <2> QED
    BY <2>1, <2>2
<1>7. IdsOf(Gone("runs")') \cap IdsOf(Left("runs")') = {}
  BY <1>4, <1>5, <1>r DEF Inv, References, IdsOf
<1>8. References'
  BY <1>2, <1>4, <1>6, <1>7 DEF Inv, References
<1>9. \A i \in 1 .. 6 : i < job.next + 1 =>
          Left(DeleteOrder[i])' \subseteq since'[DeleteOrder[i]]
  <2>1. ASSUME NEW i \in 1 .. 6, i < job.next + 1
        PROVE  Left(DeleteOrder[i])' \subseteq since'[DeleteOrder[i]]
    <3>1. CASE DeleteOrder[i] = t
      BY <3>1, <1>5
    <3>2. CASE DeleteOrder[i] # t
      <4>1. i < job.next /\ DeleteOrder[i] \in Names
        BY <3>2, <2>1, <1>1, ElementsOfTables
      <4>2. Left(DeleteOrder[i]) \subseteq since[DeleteOrder[i]]
        BY <4>1, <1>1 DEF Inv, Replacing
      <4> QED
        BY <4>1, <4>2, <3>2, <1>2, <1>5
    <3> QED
      BY <3>1, <3>2
  <2> QED
    BY <2>1
<1> QED
  BY <1>3, <1>8, <1>9 DEF Replacing, RestoreReplacesTheData

LEMMA DeletedKeeps ==
    ASSUME Inv, Deleted
    PROVE  References' /\ Replacing' /\ RestoreReplacesTheData'
<1>1. /\ job'.pc = "insert" /\ job'.next = 1 /\ job'.gone = job.gone
      /\ db' = db /\ since' = since /\ job.pc = "delete"
  BY DEF Deleted
<1>2. job.next \in 1 .. 7 /\ job.next > 6
  BY <1>1, JobsByPlace, ElementsOfTables
  DEF Inv, TypeInv, TypeOK, Restoring, Deleted
<1>3. \A t \in Names : Left(t) \subseteq since[t]
  <2>1. SUFFICES ASSUME NEW t \in Names PROVE Left(t) \subseteq since[t]
    OBVIOUS
  <2>2. PICK i \in 1 .. 6 : Tables[i] = t
    BY ElementsOfTables
  <2>3. 7 - i \in 1 .. 6 /\ 7 - (7 - i) = i /\ 7 - i < job.next
    BY <1>2
  <2>4. DeleteOrder[7 - i] = t
    BY <2>2, <2>3, ElementsOfTables
  <2> QED
    BY <2>3, <2>4, <1>1 DEF Inv, Replacing
<1>4. \A t : Gone(t)' = Gone(t) /\ Left(t)' = Left(t)
  BY <1>1 DEF Gone, Left
<1>5. References'
  BY <1>1, <1>4 DEF Inv, References
<1> QED
  BY <1>1, <1>3, <1>4, <1>5 DEF Replacing, RestoreReplacesTheData

LEMMA InsertKeeps ==
    ASSUME Inv, Insert
    PROVE  References' /\ Replacing' /\ RestoreReplacesTheData'
<1>1. /\ job.pc = "insert" /\ job.next \in 1 .. 6 /\ job \in Restoring
      /\ Insertable(Tables[job.next])
      /\ job' = [job EXCEPT !.next = @ + 1]
  BY InsertStep DEF Inv
<1>2. /\ job'.pc = "insert" /\ job'.next = job.next + 1 /\ job'.gone = job.gone
      /\ db' = db /\ since' = since /\ file' = file
  BY <1>1 DEF Insert, Restoring
<1>3. \A t : Gone(t)' = Gone(t) /\ Left(t)' = Left(t)
  BY <1>1, <1>2 DEF Gone, Left
<1>4. References'
  BY <1>2, <1>3 DEF Inv, References
<1>5. RefersTo(file[Tables[job.next]], Left("runs") \cup file["runs"])
  <2>1. PICK runs : /\ RefersTo(file[Tables[job.next]], runs)
                    /\ runs \subseteq Left("runs") \cup file["runs"]
    BY <1>1 DEF Insertable
  <2> QED
    BY <2>1 DEF RefersTo, IdsOf
<1>6. \A i \in 1 .. 6 : i < job.next + 1 =>
          RefersTo(file[Tables[i]], Left("runs") \cup file["runs"])
  <2>1. ASSUME NEW i \in 1 .. 6, i < job.next + 1
        PROVE  RefersTo(file[Tables[i]], Left("runs") \cup file["runs"])
    <3>1. i = job.next \/ i < job.next
      BY <2>1, <1>1
    <3> QED
      BY <3>1, <1>1, <1>5 DEF Inv, Replacing
  <2> QED
    BY <2>1
<1>7. \A t \in Names : Left(t) \subseteq since[t]
  BY <1>1 DEF Inv, Replacing
<1> QED
  BY <1>2, <1>3, <1>4, <1>6, <1>7 DEF Replacing, RestoreReplacesTheData

LEMMA CommitKeeps ==
    ASSUME Inv, Commit
    PROVE  References' /\ Replacing' /\ RestoreReplacesTheData'
<1>1. /\ job'.pc = "restored" /\ job.pc = "insert"
      /\ \A t \in Names : db'[t] = Left(t) \cup file[t]
      /\ since' = since /\ file' = file
  BY DEF Commit
<1>2. job.next \in 1 .. 7 /\ job.next > 6
  BY <1>1, JobsByPlace, ElementsOfTables
  DEF Inv, TypeInv, TypeOK, Restoring, Commit
<1>3. \A t \in Names : RefersTo(file[t], Left("runs") \cup file["runs"])
  <2>1. SUFFICES ASSUME NEW t \in Names
                 PROVE  RefersTo(file[t], Left("runs") \cup file["runs"])
    OBVIOUS
  <2>2. PICK i \in 1 .. 6 : Tables[i] = t
    BY ElementsOfTables
  <2> QED
    BY <2>2, <1>1, <1>2 DEF Inv, Replacing
<1>4. \A t \in Names : RefersTo(db'[t], db'["runs"])
  BY <1>1, <1>3, ElementsOfTables DEF Inv, References, RefersTo, IdsOf
<1>5. \A t : Gone(t)' = {} /\ Left(t)' = db'[t]
  BY <1>1 DEF Gone, Left
<1>6. References'
  BY <1>4, <1>5, ElementsOfTables DEF References, Consistent, IdsOf
<1>7. \A t \in Names : /\ db'[t] \subseteq file'[t] \cup since'[t]
                       /\ IdsOf(file'[t] \ db'[t]) \subseteq IdsOf(since'[t])
  BY <1>1 DEF Inv, Replacing, IdsOf
<1> QED
  BY <1>1, <1>6, <1>7 DEF Replacing, RestoreReplacesTheData

LEMMA NextKeeps ==
    ASSUME Sensible, Inv, [Next]_vars
    PROVE  Inv'
<1>1. ASSUME System PROVE References' /\ Replacing' /\ RestoreReplacesTheData'
  BY <1>1, SystemKeeps
<1>2. ASSUME BeginBackup \/ Select \/ WriteFile \/ Abort \/ End
      PROVE  References' /\ Replacing' /\ RestoreReplacesTheData'
  <2>1. db' = db
    BY <1>2 DEF BeginBackup, Select, WriteFile, Abort, End
  <2>2. job'.pc \notin {"delete", "insert", "restored"}
    <3>1. ASSUME Select PROVE job'.pc \notin {"delete", "insert", "restored"}
      <4>1. job \in Selecting
        BY <3>1, JobsByPlace DEF Inv, TypeInv, TypeOK, Select
      <4>2. PICK t : job' = [job EXCEPT !.next = @ + 1, !.rows[t] = db[t]]
        BY <3>1 DEF Select
      <4> QED
        BY <4>1, <4>2 DEF Selecting
    <3> QED
      BY <3>1, <1>2 DEF BeginBackup, WriteFile, Abort, End, Idle
  <2> QED
    BY <2>1, <2>2, OutsideKeeps
<1>3. ASSUME UNCHANGED vars
      PROVE  References' /\ Replacing' /\ RestoreReplacesTheData'
  <2>1. db' = db /\ job' = job /\ file' = file /\ since' = since
    BY <1>3 DEF vars
  <2>2. \A t : Gone(t)' = Gone(t) /\ Left(t)' = Left(t)
    BY <2>1 DEF Gone, Left
  <2> QED
    BY <2>1, <2>2 DEF Inv, References, Replacing, RestoreReplacesTheData
<1>4. TypeInv'
  BY NextKeepsTypes DEF Inv
<1> QED
  BY <1>1, <1>2, <1>3, <1>4, BeginKeeps, DeleteKeeps, DeletedKeeps, InsertKeeps,
     CommitKeeps DEF Next, Inv

LEMMA InvHolds ==
    ASSUME Sensible
    PROVE  Spec => []Inv
<1>1. Init => Inv
  <2> SUFFICES ASSUME Init PROVE Inv
    OBVIOUS
  <2>1. Nothing \in Content /\ 0 \in 0 .. MaxWrites /\ Idle \in Jobs
    BY JobsByPlace DEF Nothing, Content, Sensible
  <2>2. job.pc = "idle"
    BY DEF Init, Idle
  <2>3. TypeInv
    BY <2>1, <2>2 DEF Init, TypeInv, TypeOK
  <2>4. \A t \in Names : db[t] = {} /\ Gone(t) = {} /\ Left(t) = {}
    BY <2>2 DEF Init, Nothing, Gone, Left
  <2>5. References
    BY <2>4, ElementsOfTables DEF References, Consistent, RefersTo, IdsOf
  <2> QED
    BY <2>2, <2>3, <2>5 DEF Inv, Replacing, RestoreReplacesTheData
<1>2. Inv /\ [Next]_vars => Inv'
  BY NextKeeps
<1> QED
  BY <1>1, <1>2, PTL DEF Spec

(* No committed row ever refers to a run that is not there, at any moment  *)
(* of a backup or a restore, of one that fails or of one that is killed    *)
(* (restore_backup deletes and inserts in one transaction, and in an order *)
(* the references allow).                                                  *)
THEOREM ReferencesHold ==
    ASSUME Sensible
    PROVE  Spec => []Consistent(db)
<1>1. Inv => Consistent(db)
  BY DEF Inv, References
<1> QED
  BY <1>1, InvHolds, PTL

(* A restore that commits leaves the backup and what was written since it  *)
(* began, and loses a row of the backup only to an update of it            *)
(* (RestoreReplacesTheData, restore_backup).                               *)
THEOREM RestoreReplaces ==
    ASSUME Sensible
    PROVE  Spec => []RestoreReplacesTheData
<1>1. Inv => RestoreReplacesTheData
  BY DEF Inv
<1> QED
  BY <1>1, InvHolds, PTL
-----------------------------------------------------------------------------
(* Runs refer to nothing.  While a backup is taken with nothing written,   *)
(* what it has selected is what the tables hold; so its file keeps the     *)
(* references.                                                             *)
NoRun(rows) == \A r \in rows : r.run = None

Snapshot ==
    /\ NoRun(db["runs"])
    /\ file # None => NoRun(file["runs"]) /\ (~torn => Consistent(file))
    /\ job.pc = "select" =>
           /\ NoRun(job.rows["runs"])
           /\ ~torn => \A i \in 1 .. 6 :
                  i < job.next => job.rows[Tables[i]] = db[Tables[i]]

QuietInv == Inv /\ Snapshot /\ QuietBackupRestores

LEMMA WriteKeepsSnapshot ==
    ASSUME QuietInv, NEW t \in Names, NEW old, NEW row, Write(t, old, row),
           t = "runs" => row.run = None
    PROVE  Snapshot' /\ QuietBackupRestores'
<1>1. /\ db \in Content /\ since \in Content
      /\ db' = [db EXCEPT ![t] = (@ \ old) \cup {row}]
      /\ since' = [since EXCEPT ![t] = @ \cup {row}]
      /\ job' = job /\ file' = file
      /\ torn' = (torn \/ job.pc = "select")
  BY DEF QuietInv, Inv, TypeInv, TypeOK, Write
<1>2. NoRun(db'["runs"])
  BY <1>1, ElementsOfTables DEF QuietInv, Snapshot, NoRun, Content
<1>3. row \in since'[t]
  BY <1>1 DEF Content
<1>4. since' # Nothing
  BY <1>3 DEF Nothing
<1>5. torn => torn'
  BY <1>1
<1>6. job.pc = "select" => torn'
  BY <1>1
<1> QED
  BY <1>1, <1>2, <1>4, <1>5, <1>6 DEF QuietInv, Snapshot, QuietBackupRestores

LEMMA SystemKeepsSnapshot ==
    ASSUME Sensible, QuietInv, System
    PROVE  Snapshot' /\ QuietBackupRestores'
<1>r. "runs" \in Names
  BY ElementsOfTables
<1>1. ASSUME NEW id \in Ids, CreateRun(id)
      PROVE  Snapshot' /\ QuietBackupRestores'
  BY <1>1, <1>r, WriteKeepsSnapshot DEF CreateRun
<1>2. ASSUME NEW row \in db["runs"], UpdateRun(row)
      PROVE  Snapshot' /\ QuietBackupRestores'
  <2>1. PICK new : /\ new.run = row.run
                   /\ Write("runs", {row}, new)
    BY <1>2, RowsWritten DEF UpdateRun, QuietInv, Inv, TypeInv
  <2> QED
    BY <2>1, <1>r, WriteKeepsSnapshot DEF QuietInv, Snapshot, NoRun
<1>3. ASSUME NEW t \in Written, NEW id \in Ids, NEW run \in Ids \cup {None},
             CreateRecord(t, id, run)
      PROVE  Snapshot' /\ QuietBackupRestores'
  BY <1>3, WriteKeepsSnapshot DEF CreateRecord, Sensible
<1> QED
  BY <1>1, <1>2, <1>3 DEF System

(* A restore of a quiet backup meets no obstacle while nothing is written. *)
LEMMA QuietAborts ==
    ASSUME Sensible, QuietInv, Abort, ~torn, since = Nothing
    PROVE  FALSE
<1>1. /\ job \in Restoring /\ file \in Content /\ file # None
      /\ job.pc \in {"delete", "insert"}
  BY JobsByPlace DEF QuietInv, Inv, TypeInv, TypeOK, Abort, Sensible
<1>2. \A t \in Names : since[t] = {}
  BY DEF Nothing
<1>3. NoRun(db["runs"]) /\ NoRun(file["runs"]) /\ Consistent(file)
  BY <1>1 DEF QuietInv, Snapshot
<1>4. CASE job.pc = "delete"
  <2>1. job.next \in 1 .. 6 /\ ~Deletable(DeleteOrder[job.next])
    BY <1>1, <1>4, ElementsOfTables DEF Abort, Restoring
  <2>2. DeleteOrder[job.next] = "runs"
    BY <2>1 DEF Deletable
  <2>3. job.next = 6
    <3>1. 7 - job.next \in 1 .. 6 /\ Tables[7 - job.next] = "runs"
      BY <2>1, <2>2, ElementsOfTables
    <3>2. 7 - job.next \notin 2 .. 6
      BY <3>1, ElementsOfTables
    <3> QED
      BY <3>1, <3>2, <2>1
  <2>4. ASSUME NEW t \in Names PROVE NoRun(Left(t))
    <3>1. PICK i \in 1 .. 6 : Tables[i] = t
      BY ElementsOfTables
    <3>2. CASE i = 1
      BY <3>1, <3>2, <1>3, ElementsOfTables DEF Left, NoRun
    <3>3. CASE i # 1
      <4>1. 7 - i \in 1 .. 6 /\ 7 - (7 - i) = i /\ 7 - i < job.next
        BY <3>3, <2>3
      <4>2. DeleteOrder[7 - i] = t
        BY <4>1, <3>1, ElementsOfTables
      <4>3. Left(t) \subseteq since[t]
        BY <4>1, <4>2, <1>4 DEF QuietInv, Inv, Replacing
      <4> QED
        BY <4>3, <1>2 DEF NoRun
    <3> QED
      BY <3>2, <3>3
  <2> QED
    BY <2>1, <2>4 DEF Deletable, NoRun
<1>5. CASE job.pc = "insert"
  <2>1. job.next \in 1 .. 6 /\ ~Insertable(Tables[job.next])
    BY <1>1, <1>5, ElementsOfTables DEF Abort, Restoring
  <2>2. PICK t \in Names : t = Tables[job.next]
    BY <2>1, ElementsOfTables
  <2>3. IdsOf(file[t]) \cap IdsOf(Left(t)) = {}
    BY <1>2, <1>5 DEF QuietInv, Inv, Replacing, IdsOf
  <2>4. CASE t = "runs"
    BY <2>1, <2>2, <2>3, <2>4, <1>3 DEF Insertable, RefersTo, NoRun
  <2>5. CASE t # "runs"
    <3>1. RefersTo(file[t], file["runs"])
      BY <1>3 DEF Consistent
    <3>2. RefersTo(file[t], Left("runs") \cup file["runs"])
      BY <3>1 DEF RefersTo, IdsOf
    <3> QED
      BY <2>1, <2>2, <2>3, <2>5, <3>2 DEF Insertable
  <2> QED
    BY <2>4, <2>5
<1> QED
  BY <1>1, <1>4, <1>5

LEMMA SelectKeepsSnapshot ==
    ASSUME QuietInv, Select
    PROVE  Snapshot' /\ QuietBackupRestores'
<1>1. job \in Selecting /\ job.pc = "select"
  BY JobsByPlace DEF QuietInv, Inv, TypeInv, TypeOK, Select
<1>2. job.next \in 1 .. 6 /\ Tables[job.next] \in Names
  BY <1>1, ElementsOfTables DEF Selecting, Select
<1>3. PICK t \in Names :
        t = Tables[job.next] /\ job' = [job EXCEPT !.next = @ + 1, !.rows[t] = db[t]]
  BY <1>2 DEF Select
<1>4. /\ job'.pc = "select" /\ job'.next = job.next + 1
      /\ \A u \in Names : job'.rows[u] = IF u = t THEN db[u] ELSE job.rows[u]
  BY <1>1, <1>3 DEF Selecting, Content
<1>5. db' = db /\ file' = file /\ torn' = torn
  BY DEF Select
<1>6. NoRun(job'.rows["runs"])
  BY <1>1, <1>4, ElementsOfTables DEF QuietInv, Snapshot, NoRun
<1>7. ASSUME ~torn, NEW i \in 1 .. 6, i < job.next + 1
      PROVE  job'.rows[Tables[i]] = db[Tables[i]]
  <2>1. Tables[i] \in Names /\ (i = job.next \/ i < job.next)
    BY <1>2, <1>7, ElementsOfTables
  <2> QED
    BY <2>1, <1>1, <1>3, <1>4, <1>7 DEF QuietInv, Snapshot
<1> QED
  BY <1>4, <1>5, <1>6, <1>7 DEF QuietInv, Snapshot, QuietBackupRestores

LEMMA WriteFileKeepsSnapshot ==
    ASSUME QuietInv, WriteFile
    PROVE  Snapshot' /\ QuietBackupRestores'
<1>1. job \in Selecting /\ job.pc = "select" /\ job.next > 6
  BY JobsByPlace, ElementsOfTables DEF QuietInv, Inv, TypeInv, TypeOK, WriteFile
<1>2. job'.pc = "idle" /\ db' = db /\ file' = job.rows /\ torn' = torn
  BY DEF WriteFile, Idle
<1>3. ASSUME ~torn PROVE Consistent(job.rows)
  <2>1. \A i \in 1 .. 6 : job.rows[Tables[i]] = db[Tables[i]]
    BY <1>1, <1>3 DEF QuietInv, Snapshot, Selecting
  <2>2. \A t \in Names : job.rows[t] = db[t]
    BY <2>1, ElementsOfTables
  <2>3. Consistent(db)
    BY DEF QuietInv, Inv, References
  <2> QED
    BY <2>2, <2>3, ElementsOfTables DEF Consistent
<1> QED
  BY <1>1, <1>2, <1>3 DEF QuietInv, Snapshot, QuietBackupRestores

(* A backup taken while nothing is written restores, as long as nothing is *)
(* written meanwhile (QuietBackupRestores, create_backup, restore_backup). *)
THEOREM QuietBackups ==
    ASSUME Sensible
    PROVE  Spec => []QuietBackupRestores
<1>1. Init /\ Inv => QuietInv
  <2> SUFFICES ASSUME Init, Inv PROVE QuietInv
    OBVIOUS
  <2>1. job.pc = "idle"
    BY DEF Init, Idle
  <2> QED
    BY <2>1, ElementsOfTables
    DEF Init, Nothing, NoRun, QuietInv, Snapshot, QuietBackupRestores
<1>2. QuietInv /\ Inv' /\ [Next]_vars => QuietInv'
  <2> SUFFICES ASSUME QuietInv, Inv', [Next]_vars
               PROVE  Snapshot' /\ QuietBackupRestores'
    BY DEF QuietInv
  <2>1. CASE System
    BY <2>1, SystemKeepsSnapshot
  <2>2. CASE BeginBackup
    <3>1. /\ job' = [pc |-> "select", next |-> 1, rows |-> Nothing]
          /\ file' = None /\ db' = db
      BY <2>2 DEF BeginBackup
    <3>2. /\ job'.pc = "select" /\ job'.next = 1 /\ job'.rows = Nothing
      BY <3>1
    <3>3. NoRun(job'.rows["runs"])
      BY <3>2, ElementsOfTables DEF Nothing, NoRun
    <3> QED
      BY <3>1, <3>2, <3>3 DEF QuietInv, Snapshot, QuietBackupRestores
  <2>3. CASE BeginRestore \/ Deleted \/ Commit \/ End
    <3>1. file' = file /\ torn' = torn /\ job'.pc \notin {"select", "aborted"}
      BY <2>3 DEF BeginRestore, Deleted, Commit, End, Idle
    <3>2. NoRun(db'["runs"])
      <4>1. CASE Commit
        <5>1. file # None /\ db'["runs"] = Left("runs") \cup file["runs"]
          BY <4>1, ElementsOfTables
          DEF QuietInv, Inv, TypeInv, Commit, Sensible
        <5> QED
          BY <5>1 DEF QuietInv, Snapshot, NoRun, Left
      <4>2. CASE db' = db
        BY <4>2 DEF QuietInv, Snapshot
      <4> QED
        BY <2>3, <4>1, <4>2 DEF BeginRestore, Deleted, End
    <3> QED
      BY <3>1, <3>2 DEF QuietInv, Snapshot, QuietBackupRestores
  <2>4. CASE Delete
    <3>1. job'.pc = "delete"
      BY <2>4, DeleteStep DEF QuietInv, Inv
    <3> QED
      BY <2>4, <3>1 DEF Delete, QuietInv, Snapshot, QuietBackupRestores
  <2>5. CASE Insert
    <3>1. job'.pc = "insert"
      BY <2>5, InsertStep DEF QuietInv, Inv, Restoring
    <3> QED
      BY <2>5, <3>1 DEF Insert, QuietInv, Snapshot, QuietBackupRestores
  <2>6. CASE Abort
    <3>1. /\ job'.pc = "aborted" /\ db' = db /\ file' = file
          /\ torn' = torn /\ since' = since
      BY <2>6 DEF Abort
    <3>2. torn \/ since # Nothing
      BY <2>6, QuietAborts
    <3> QED
      BY <3>1, <3>2 DEF QuietInv, Snapshot, QuietBackupRestores
  <2>7. CASE UNCHANGED vars
    BY <2>7 DEF vars, QuietInv, Snapshot, QuietBackupRestores
  <2> QED
    BY <2>1, <2>2, <2>3, <2>4, <2>5, <2>6, <2>7,
       SelectKeepsSnapshot, WriteFileKeepsSnapshot DEF Next
<1>3. QuietInv => QuietBackupRestores
  BY DEF QuietInv
<1> QED
  BY <1>1, <1>2, <1>3, InvHolds, PTL DEF Spec

=============================================================================
