--------------------------- MODULE RunQueueProofs ---------------------------
(* Theorems about RunQueue, for every set of workers, request threads, runs *)
(* and results, and any interleaving of their reads and commits.           *)
EXTENDS RunQueue, TLAPS

(* A worker past its select step works on a run, and what it read for a    *)
(* recovery can be recovered within the bound.                             *)
WellPlaced(s) ==
    /\ s.pc \in {"claim", "solve", "complete", "fail", "commit"} => s.run \in Runs
    /\ s.pc = "recover" => \A r \in Runs : s.seen[r].status = "running"
                                => s.seen[r].recoveries < MaxRecoveries

(* A request thread past its read has the operands of its write, and a     *)
(* stale claim can be recovered within the bound.                          *)
PlaceInv ==
    /\ \A w \in Workers : WellPlaced(worker[w])
    /\ \A c \in Clients : /\ client[c].pc = "cancel" => client[c].run \in Runs
                          /\ client[c].pc = "insert" /\ client[c].key # None
                                 => client[c].body \in Bodies
    /\ \A r \in stale : row[r].status = "running"
                            => row[r].recoveries < MaxRecoveries

TypeInv == TypeOK /\ PlaceInv
-----------------------------------------------------------------------------
(* What a flush, a recovery, an outcome and a cancellation make of a row is *)
(* a row.                                                                  *)
LEMMA FlushType ==
    ASSUME NEW now \in Row, NEW loaded \in Row, NEW set \in Row
    PROVE  Flush(now, loaded, set) \in Row
<1>1. /\ Column(now.status, loaded.status, set.status) \in Status
      /\ Column(now.worker, loaded.worker, set.worker) \in Workers \cup {None}
      /\ Column(now.result, loaded.result, set.result) \in Payloads \cup {None}
      /\ Column(now.code, loaded.code, set.code) \in Codes
      /\ Column(now.recoveries, loaded.recoveries, set.recoveries)
            \in 0..MaxRecoveries
  BY DEF Column, Row
<1> QED
  BY <1>1 DEF Flush, Row

LEMMA AbsentType == Absent \in Row
BY ConstantsAssumption DEF Absent, Row, Status, Codes

LEMMA RecoveredType ==
    ASSUME NEW old \in Row,
           old.status = "running" => old.recoveries < MaxRecoveries
    PROVE  Recovered(old) \in Row
<1>1. CASE old.status = "running"
  <2>1. old.recoveries + 1 \in 0..MaxRecoveries
    BY <1>1, ConstantsAssumption DEF Row
  <2>2. Recovered(old) = [old EXCEPT !.status = "queued", !.worker = None,
                                     !.recoveries = old.recoveries + 1]
    BY <1>1 DEF Recovered
  <2>3. "queued" \in Status
    BY DEF Status
  <2> QED
    BY <2>1, <2>2, <2>3 DEF Row
<1>2. CASE old.status = "cancel_requested"
  BY <1>2 DEF Recovered, Row, Status, Terminal, Codes
<1>3. CASE old.status \notin {"running", "cancel_requested"}
  BY <1>3 DEF Recovered
<1> QED
  BY <1>1, <1>2, <1>3

LEMMA FinishedType ==
    ASSUME NEW old \in Row, NEW out \in Solved \cup Failures,
           NEW payload \in Payloads \cup {None}
    PROVE  Finished(old, out, payload) \in Row
<1>1. out.status \in Status /\ out.code \in Codes
  BY DEF Solved, Failures, Unexpected, Status, Terminal, Codes
<1>2. "cancelled" \in Status /\ "operator_cancelled" \in Codes
  BY DEF Status, Terminal, Codes
<1> QED
  BY <1>1, <1>2 DEF Finished, Row

LEMMA CancelledType ==
    ASSUME NEW old \in Row
    PROVE  Cancelled(old) \in Row
BY DEF Cancelled, Row, Status, Terminal, Codes

LEMMA LoadedType ==
    ASSUME row \in [Runs -> Row], NEW S
    PROVE  Loaded(S) \in [Runs -> Row] /\ Unread \in [Runs -> Row]
BY AbsentType DEF Loaded, Unread

LEMMA IdleType == Idle \in WorkerState /\ Free \in ClientState
BY AbsentType, ConstantsAssumption
   DEF Idle, Free, Unread, WorkerState, ClientState, WorkerPC, Failures
-----------------------------------------------------------------------------
(* Every reachable state is well typed: the schema's columns hold what the *)
(* status, owner, result and failure-code vocabularies allow.              *)
LEMMA TypeInit == Init => TypeInv
<1> SUFFICES ASSUME Init PROVE TypeInv
  OBVIOUS
<1>1. row \in [Runs -> Row]
  BY AbsentType DEF Init, Unread
<1>2. worker \in [Workers -> WorkerState] /\ client \in [Clients -> ClientState]
  BY IdleType DEF Init
<1>3. PlaceInv
  BY DEF Init, PlaceInv, WellPlaced, Idle, Free
<1> QED
  BY <1>1, <1>2, <1>3, ConstantsAssumption DEF Init, TypeInv, TypeOK

(* A step that only moves a worker to a well placed state. *)
LEMMA WorkerMoves ==
    ASSUME TypeInv, NEW w \in Workers, NEW s \in WorkerState, WellPlaced(s),
           Goes(w, s), UNCHANGED <<row, stale, client, served>>,
           crashes' \in 0..MaxCrashes
    PROVE  TypeInv'
<1>1. worker' \in [Workers -> WorkerState]
  BY DEF Goes, TypeInv, TypeOK
<1>2. \A v \in Workers : WellPlaced(worker'[v])
  BY DEF Goes, TypeInv, TypeOK, PlaceInv
<1>3. PlaceInv'
  BY <1>2 DEF TypeInv, PlaceInv, WellPlaced
<1> QED
  BY <1>1, <1>3 DEF TypeInv, TypeOK

(* The same step when it also writes rows: the rows must stay well typed,  *)
(* no run may become stale, and none may start to run unless it is fresh.  *)
LEMMA WorkerWrites ==
    ASSUME TypeInv, NEW w \in Workers, NEW s \in WorkerState, WellPlaced(s),
           Goes(w, s), UNCHANGED <<client, served, crashes>>,
           row' \in [Runs -> Row], stale' \subseteq stale,
           \A r \in stale' : row'[r].status = "running"
                                => row[r].status = "running" /\
                                   row'[r].recoveries = row[r].recoveries
    PROVE  TypeInv'
<1>1. worker' \in [Workers -> WorkerState]
  BY DEF Goes, TypeInv, TypeOK
<1>2. \A v \in Workers : WellPlaced(worker'[v])
  BY DEF Goes, TypeInv, TypeOK, PlaceInv
<1>3. \A r \in stale' : row'[r].status = "running"
                            => row'[r].recoveries < MaxRecoveries
  BY DEF TypeInv, PlaceInv
<1>4. PlaceInv'
  BY <1>2, <1>3 DEF TypeInv, PlaceInv, WellPlaced
<1> QED
  BY <1>1, <1>4 DEF TypeInv, TypeOK

(* Steps that only read, by action. *)
LEMMA WorkerReadsType ==
    ASSUME TypeInv, NEW w \in Workers,
           RecoverRead(w) \/ SelectOldest(w) \/ Solve(w) \/ CompleteRead(w)
               \/ FailRead(w) \/ Crash(w)
    PROVE  TypeInv'
<1> DEFINE me == worker[w]
<1>0. /\ me \in WorkerState
      /\ me.pc \in {"claim", "solve", "complete", "fail", "commit"}
            => me.run \in Runs
      /\ crashes \in 0..MaxCrashes
      /\ row \in [Runs -> Row]
  BY DEF TypeInv, TypeOK, PlaceInv, WellPlaced
<1>1. CASE RecoverRead(w)
  <2>1. WellPlaced([Idle EXCEPT !.pc = "select"]) /\
        [Idle EXCEPT !.pc = "select"] \in WorkerState
    BY IdleType DEF WellPlaced, Idle, WorkerState, WorkerPC
  <2>2. \A r \in Runs : Loaded(Due)[r].status = "running"
                            => Loaded(Due)[r].recoveries < MaxRecoveries
    BY DEF Loaded, Due, PlaceInv, TypeInv, Absent
  <2>3. LET s == [Idle EXCEPT !.pc = "recover", !.seen = Loaded(Due)]
        IN  WellPlaced(s) /\ s \in WorkerState
    BY <2>2, <1>0, LoadedType, IdleType DEF WellPlaced, Idle, WorkerState, WorkerPC
  <2> QED
    BY <1>1, <1>0, <2>1, <2>3, WorkerMoves DEF RecoverRead
<1>2. CASE SelectOldest(w)
  <2>1. WellPlaced(Idle) /\ Idle \in WorkerState
    BY IdleType DEF WellPlaced, Idle
  <2>2. ASSUME NEW r \in Runs
        PROVE  LET s == [Idle EXCEPT !.pc = "claim", !.run = r]
               IN  WellPlaced(s) /\ s \in WorkerState
    BY IdleType DEF WellPlaced, Idle, WorkerState, WorkerPC
  <2> QED
    BY <1>2, <1>0, <2>1, <2>2, WorkerMoves DEF SelectOldest, Queued
<1>3. CASE Solve(w)
  <2>1. ASSUME NEW o \in Solved, NEW p \in Payloads, me.pc = "solve"
        PROVE  LET s == [me EXCEPT !.pc = "complete", !.out = o, !.payload = p]
               IN  WellPlaced(s) /\ s \in WorkerState
    BY <2>1, <1>0 DEF WellPlaced, WorkerState, WorkerPC
  <2>2. ASSUME NEW o \in Failures, me.pc = "solve"
        PROVE  LET s == [me EXCEPT !.pc = "fail", !.out = o]
               IN  WellPlaced(s) /\ s \in WorkerState
    BY <2>2, <1>0 DEF WellPlaced, WorkerState, WorkerPC
  <2> QED
    BY <1>3, <1>0, <2>1, <2>2, WorkerMoves DEF Solve
<1>4. ASSUME me.pc \in {"complete", "fail"}
      PROVE  LET s == [me EXCEPT !.pc = "commit", !.seen = Loaded({me.run})]
             IN  WellPlaced(s) /\ s \in WorkerState
  BY <1>4, <1>0, LoadedType DEF WellPlaced, WorkerState, WorkerPC
<1>5. CASE CompleteRead(w)
  <2>1. ASSUME me.pc = "complete"
        PROVE  LET s == [me EXCEPT !.pc = "fail", !.out = Unexpected,
                                   !.payload = None]
               IN  WellPlaced(s) /\ s \in WorkerState
    BY <2>1, <1>0 DEF WellPlaced, WorkerState, WorkerPC, Failures
  <2> QED
    BY <1>5, <1>0, <1>4, <2>1, WorkerMoves DEF CompleteRead
<1>6. WellPlaced(Idle) /\ Idle \in WorkerState
  BY IdleType DEF WellPlaced, Idle
<1>7. CASE FailRead(w)
  BY <1>7, <1>0, <1>4, <1>6, WorkerMoves DEF FailRead
<1>8. CASE Crash(w)
  BY <1>8, <1>0, <1>6, WorkerMoves, ConstantsAssumption DEF Crash
<1> QED
  BY <1>1, <1>2, <1>3, <1>5, <1>7, <1>8

(* Steps of a worker that write rows, by action. *)
LEMMA RecoverCommitType ==
    ASSUME TypeInv, NEW w \in Workers, RecoverCommit(w) PROVE TypeInv'
<1> DEFINE s(r) == worker[w].seen[r]
<1>1. ASSUME NEW r \in Runs
      PROVE  s(r) \in Row /\ Recovered(s(r)) \in Row
  <2>1. s(r) \in Row
    BY DEF TypeInv, TypeOK, WorkerState
  <2>2. s(r).status = "running" => s(r).recoveries < MaxRecoveries
    BY DEF RecoverCommit, TypeInv, PlaceInv, WellPlaced
  <2> QED
    BY <2>1, <2>2, RecoveredType
<1>2. row' \in [Runs -> Row]
  BY <1>1, FlushType DEF RecoverCommit, TypeInv, TypeOK
<1>3. stale' \subseteq stale
  BY DEF RecoverCommit
<1>4. ASSUME NEW r \in stale', row'[r].status = "running"
      PROVE  row[r].status = "running" /\ row'[r].recoveries = row[r].recoveries
  <2>1. r \in Runs /\ s(r).status # "running"
    BY <1>4, <1>3 DEF RecoverCommit, TypeInv, TypeOK
  <2>2. Recovered(s(r)).recoveries = s(r).recoveries
    BY <2>1, <1>1 DEF Recovered, Row
  <2>3. Recovered(s(r)).status # "running"
    BY <2>1, <1>1 DEF Recovered, Row
  <2> QED
    BY <1>4, <2>1, <2>2, <2>3 DEF RecoverCommit, Flush, Column
<1>5. WellPlaced([Idle EXCEPT !.pc = "select"]) /\
      [Idle EXCEPT !.pc = "select"] \in WorkerState
  BY IdleType DEF WellPlaced, Idle, WorkerState, WorkerPC
<1> QED
  BY <1>2, <1>3, <1>4, <1>5, WorkerWrites DEF RecoverCommit

LEMMA ClaimType ==
    ASSUME TypeInv, NEW w \in Workers, Claim(w) PROVE TypeInv'
<1> DEFINE me == worker[w]
<1>0. /\ me \in WorkerState /\ me.run \in Runs /\ me.pc = "claim"
      /\ row \in [Runs -> Row] /\ row[me.run] \in Row
  BY DEF Claim, TypeInv, TypeOK, PlaceInv, WellPlaced
<1>1. CASE row[me.run].status = "queued"
  <2> DEFINE next == [me EXCEPT !.pc = "solve"]
  <2>1. WellPlaced(next) /\ next \in WorkerState
    <3>1. next \in WorkerState
      BY <1>0 DEF WorkerState, WorkerPC
    <3>2. next.pc = "solve" /\ next.run = me.run
      BY <1>0 DEF WorkerState
    <3> HIDE DEF next
    <3> QED
      BY <1>0, <3>1, <3>2 DEF WellPlaced
  <2>2. [row[me.run] EXCEPT !.status = "running", !.worker = w] \in Row
    BY <1>0 DEF Row, Status
  <2>3. row' = [row EXCEPT ![me.run] =
                   [row[me.run] EXCEPT !.status = "running", !.worker = w]]
    BY <1>0, <1>1 DEF Claim
  <2>4. row' \in [Runs -> Row]
    BY <1>0, <2>2, <2>3
  <2>5. /\ Goes(w, next) /\ UNCHANGED <<client, served, crashes>>
        /\ stale' = stale \ {me.run}
    BY <1>1 DEF Claim
  <2>6. \A q \in stale' : row'[q] = row[q]
    <3>1. \A q \in stale' : q \in Runs /\ q # me.run
      BY <2>5 DEF TypeInv, TypeOK
    <3> QED
      BY <1>0, <2>3, <3>1
  <2> HIDE DEF next
  <2> QED
    BY <2>1, <2>4, <2>5, <2>6, WorkerWrites
<1>2. CASE row[me.run].status # "queued"
  <2>1. ASSUME NEW pc \in {"select", "idle"}
        PROVE  LET s == [Idle EXCEPT !.pc = pc]
               IN  WellPlaced(s) /\ s \in WorkerState
    BY IdleType DEF WellPlaced, Idle, WorkerState, WorkerPC
  <2>2. PICK pc \in {"select", "idle"} : Goes(w, [Idle EXCEPT !.pc = pc])
    BY <1>2 DEF Claim
  <2>3. UNCHANGED <<row, stale, client, served, crashes>>
    BY <1>2 DEF Claim
  <2>4. crashes' \in 0..MaxCrashes
    BY <2>3 DEF TypeInv, TypeOK
  <2>5. PICK s : s = [Idle EXCEPT !.pc = pc]
    OBVIOUS
  <2>6. WellPlaced(s) /\ s \in WorkerState /\ Goes(w, s)
    BY <2>1, <2>2, <2>5, Zenon
  <2> QED
    BY <2>3, <2>4, <2>6, WorkerMoves
<1> QED
  BY <1>1, <1>2

LEMMA CommitType ==
    ASSUME TypeInv, NEW w \in Workers, Commit(w) PROVE TypeInv'
<1> DEFINE me == worker[w]
           r == me.run
           next == Flush(row[r], me.seen[r],
                         Finished(me.seen[r], me.out, me.payload))
<1>1. /\ r \in Runs /\ me.seen[r] \in Row
      /\ row \in [Runs -> Row] /\ row[r] \in Row
      /\ me.out \in Solved \cup Failures /\ me.payload \in Payloads \cup {None}
  BY DEF Commit, TypeInv, TypeOK, PlaceInv, WellPlaced, WorkerState
<1>2. next \in Row
  BY <1>1, FinishedType, FlushType
<1>3. row' = [row EXCEPT ![r] = next]
  BY DEF Commit
<1>4. row' \in [Runs -> Row]
  BY <1>1, <1>2, <1>3
<1>5. WellPlaced(Idle) /\ Idle \in WorkerState
  BY IdleType DEF WellPlaced, Idle
<1>6. Goes(w, Idle) /\ UNCHANGED <<client, served, crashes>> /\ stale' = stale \ {r}
  BY DEF Commit
<1>7. \A q \in stale' : row'[q] = row[q]
  <2> HIDE DEF next
  <2>1. \A q \in stale' : q \in Runs /\ q # r
    BY <1>6 DEF TypeInv, TypeOK
  <2> QED
    BY <1>1, <1>3, <2>1
<1> QED
  BY <1>4, <1>5, <1>6, <1>7, WorkerWrites

(* Steps of the request threads, by action. *)
LEMMA CreateFindType ==
    ASSUME TypeInv, NEW c \in Clients, NEW k \in Keys \cup {None},
           NEW b \in Bodies \cup {None}, k # None => b \in Bodies, CreateFind(c, k, b)
    PROVE  TypeInv'
<1>1. CASE HasKey(k) # {}
  <2>1. k \in Keys /\ k # None /\ b \in Bodies
    BY <1>1 DEF HasKey
  <2>2. served' \subseteq [key : Keys, body : Bodies, run : Runs]
    BY <1>1, <2>1 DEF CreateFind, Resolve, HasKey, TypeInv, TypeOK
  <2> QED
    BY <1>1, <2>2 DEF CreateFind, TypeInv, TypeOK, PlaceInv, WellPlaced
<1>2. CASE HasKey(k) = {}
  <2> DEFINE next == [Free EXCEPT !.pc = "insert", !.key = k, !.body = b]
  <2>1. next \in ClientState
    BY IdleType DEF ClientState, Free
  <2>2. client' = [client EXCEPT ![c] = next] /\ UNCHANGED served
    BY <1>2 DEF CreateFind
  <2>3. next.pc = "insert" /\ (next.key # None => next.body \in Bodies)
    BY DEF Free
  <2> QED
    BY <2>1, <2>2, <2>3 DEF CreateFind, TypeInv, TypeOK, PlaceInv, WellPlaced
<1> QED
  BY <1>1, <1>2

LEMMA CreateCommitType ==
    ASSUME TypeInv, NEW c \in Clients, CreateCommit(c) PROVE TypeInv'
<1> DEFINE k == client[c].key
           b == client[c].body
<1>0. k \in Keys \cup {None} /\ b \in Bodies \cup {None} /\ (k # None => b \in Bodies)
  BY DEF CreateCommit, TypeInv, TypeOK, PlaceInv, ClientState
<1>1. client' \in [Clients -> ClientState]
  BY IdleType DEF CreateCommit, TypeInv, TypeOK
<1>2. \A d \in Clients : /\ client'[d].pc = "cancel" => client'[d].run \in Runs
                         /\ client'[d].pc = "insert" /\ client'[d].key # None
                                => client'[d].body \in Bodies
  BY DEF CreateCommit, TypeInv, TypeOK, PlaceInv, Free
<1>3. CASE HasKey(k) # {}
  <2>1. served' \subseteq [key : Keys, body : Bodies, run : Runs]
    BY <1>0, <1>3 DEF CreateCommit, Resolve, HasKey, TypeInv, TypeOK
  <2> QED
    BY <1>1, <1>2, <1>3, <2>1
       DEF CreateCommit, TypeInv, TypeOK, PlaceInv, WellPlaced
<1>4. CASE HasKey(k) = {}
  <2>1. PICK r \in Runs : /\ row' = [row EXCEPT ![r] = NewRow(k, b)]
                          /\ served' = IF k = None THEN served
                                ELSE served \cup {[key |-> k, body |-> b, run |-> r]}
    BY <1>4 DEF CreateCommit, Insert
  <2>2. NewRow(k, b) \in Row /\ NewRow(k, b).status # "running"
    BY <1>0, AbsentType DEF NewRow, Absent, Row, Status
  <2>3. row' \in [Runs -> Row] /\ served' \subseteq [key : Keys, body : Bodies, run : Runs]
    BY <1>0, <2>1, <2>2 DEF TypeInv, TypeOK
  <2>4. \A q \in stale : row'[q].status = "running"
                             => row'[q].recoveries < MaxRecoveries
    BY <2>1, <2>2 DEF TypeInv, TypeOK, PlaceInv
  <2> QED
    BY <1>1, <1>2, <2>3, <2>4
       DEF CreateCommit, TypeInv, TypeOK, PlaceInv, WellPlaced
<1> QED
  BY <1>3, <1>4

LEMMA CancelReadType ==
    ASSUME TypeInv, NEW c \in Clients, NEW r \in Runs, CancelRead(c, r)
    PROVE  TypeInv'
<1> DEFINE next == [Free EXCEPT !.pc = "cancel", !.run = r, !.seen = row[r]]
<1>1. next \in ClientState /\ next.pc = "cancel" /\ next.run \in Runs
  BY IdleType DEF ClientState, Free, TypeInv, TypeOK
<1> QED
  BY <1>1 DEF CancelRead, TypeInv, TypeOK, PlaceInv, WellPlaced

LEMMA CancelCommitType ==
    ASSUME TypeInv, NEW c \in Clients, CancelCommit(c) PROVE TypeInv'
<1> DEFINE r == client[c].run
           old == client[c].seen
           next == Flush(row[r], old, Cancelled(old))
<1>1. /\ r \in Runs /\ old \in Row /\ row \in [Runs -> Row] /\ row[r] \in Row
      /\ row' = [row EXCEPT ![r] = next]
  BY DEF CancelCommit, TypeInv, TypeOK, PlaceInv, ClientState
<1>2. next \in Row
  BY <1>1, CancelledType, FlushType
<1>3. next.recoveries = row[r].recoveries
  BY <1>1 DEF Flush, Column, Cancelled, Row
<1>4. next.status = "running" => row[r].status = "running"
  BY <1>1 DEF Flush, Column, Cancelled, Row
<1>5. \A q \in stale' : row'[q].status = "running"
                            => row'[q].recoveries < MaxRecoveries
  BY <1>1, <1>2, <1>3, <1>4 DEF CancelCommit, TypeInv, TypeOK, PlaceInv
<1>6. client' \in [Clients -> ClientState]
  BY IdleType DEF CancelCommit, TypeInv, TypeOK
<1>7. \A d \in Clients : /\ client'[d].pc = "cancel" => client'[d].run \in Runs
                         /\ client'[d].pc = "insert" /\ client'[d].key # None
                                => client'[d].body \in Bodies
  BY DEF CancelCommit, TypeInv, TypeOK, PlaceInv, Free
<1>8. row' \in [Runs -> Row]
  BY <1>1, <1>2
<1>9. stale' \subseteq stale /\ UNCHANGED <<worker, served, crashes>>
  BY DEF CancelCommit
<1>10. TypeOK'
  BY <1>6, <1>8, <1>9 DEF TypeInv, TypeOK
<1>11. PlaceInv'
  BY <1>5, <1>7, <1>9 DEF TypeInv, PlaceInv, WellPlaced
<1> QED
  BY <1>10, <1>11 DEF TypeInv

LEMMA TypeStep == TypeInv /\ [Next]_vars => TypeInv'
<1> SUFFICES ASSUME TypeInv, [Next]_vars PROVE TypeInv'
  OBVIOUS
<1>1. ASSUME NEW w \in Workers, WorkerStep(w) \/ Crash(w) PROVE TypeInv'
  BY <1>1, WorkerReadsType, RecoverCommitType, ClaimType, CommitType DEF WorkerStep
<1>2. ASSUME NEW c \in Clients, ClientStep(c) PROVE TypeInv'
  BY <1>2, CreateFindType, CreateCommitType, CancelReadType, CancelCommitType
     DEF ClientStep
<1>3. ASSUME NEW r \in Runs, Age(r) PROVE TypeInv'
  BY <1>3 DEF Age, TypeInv, TypeOK, PlaceInv, WellPlaced
<1>4. CASE UNCHANGED vars
  BY <1>4 DEF vars, TypeInv, TypeOK, PlaceInv, WellPlaced
<1> QED
  BY <1>1, <1>2, <1>3, <1>4 DEF Next

LEMMA TypeInvariant == Spec => []TypeInv
BY TypeInit, TypeStep, PTL DEF Spec

(* Type correctness of every reachable state, for all constants. *)
THEOREM TypeCorrect == Spec => []TypeOK
BY TypeInvariant, PTL DEF TypeInv
-----------------------------------------------------------------------------
(* What no unguarded write can break, whatever was read before it.         *)

Reported == {"succeeded", "degraded"}

OwnedRow(x) == /\ x.status = "queued" => x.worker = None
               /\ x.status = "running" => x.worker # None
               /\ x.status = "absent" => x = Absent
               /\ x.status \in Reported => x.result # None

(* What a process read of a run whose row is now `now': an owned row, of a  *)
(* run that still exists and, if it had a result, still has one.           *)
ReadOf(seen, now) == /\ OwnedRow(seen)
                     /\ seen.status # "absent" => now.status # "absent"
                     /\ seen.result # None => now.result # None

WorkerInv(s, rows) ==
    /\ \A r \in Runs : ReadOf(s.seen[r], rows[r])
    /\ s.out.status \in Reported => s.payload # None
    /\ s.pc = "commit" => s.seen[s.run].status # "absent"

WriteInv ==
    /\ \A r \in Runs : OwnedRow(row[r])
    /\ \A w \in Workers : WorkerInv(worker[w], row)
    /\ \A c \in Clients :
          client[c].pc = "cancel" => row[client[c].run].status # "absent"

(* A run no recovery has requeued is worked on by at most one worker, and  *)
(* not while it is queued.                                                 *)
ClaimInv ==
    \A r \in Runs : row[r].recoveries = 0 =>
        /\ \A v, w \in Workers : Holds(v, r) /\ Holds(w, r) => v = w
        /\ \A w \in Workers : Holds(w, r) =>
              row[r].status \notin {"queued", "absent"}

(* How one write changes a row: it keeps the row owned, never loses a      *)
(* result, never forgets a recovery, and queues a run only by recovering.  *)
SafeWrite(now, next) ==
    /\ OwnedRow(next)
    /\ next.status # "absent"
    /\ next.result = None => now.result = None
    /\ next.recoveries = 0 => /\ now.recoveries = 0
                              /\ next.status = "queued"
                                    => now.status \in {"queued", "absent"}
    /\ now.status # "absent" => next.key = now.key /\ next.body = now.body
    /\ now.worker # None /\ next.worker # None => next.worker = now.worker

LEMMA RecoveredWrite ==
    ASSUME NEW now \in Row, NEW seen \in Row, OwnedRow(now), OwnedRow(seen),
           now.status # "absent"
    PROVE  SafeWrite(now, Flush(now, seen, Recovered(seen)))
<1> DEFINE next == Flush(now, seen, Recovered(seen))
<1>1. CASE seen.status = "running"
  <2>1. Recovered(seen) = [seen EXCEPT !.status = "queued", !.worker = None,
                                       !.recoveries = seen.recoveries + 1]
    BY <1>1 DEF Recovered
  <2>2. /\ next.status = "queued" /\ next.worker = None
        /\ next.result = now.result /\ next.recoveries = seen.recoveries + 1
    BY <1>1, <2>1 DEF Flush, Column, OwnedRow, Row
  <2>3. seen.recoveries + 1 # 0
    BY ConstantsAssumption DEF Row
  <2> QED
    BY <2>2, <2>3 DEF SafeWrite, OwnedRow, Flush, Reported
<1>2. CASE seen.status = "cancel_requested"
  <2>1. Recovered(seen) = [seen EXCEPT !.status = "cancelled",
                                       !.code = "operator_cancelled"]
    BY <1>2 DEF Recovered
  <2>2. /\ next.status = "cancelled" /\ next.result = now.result
        /\ next.recoveries = now.recoveries /\ next.worker = now.worker
    BY <1>2, <2>1 DEF Flush, Column, Row
  <2> QED
    BY <2>2 DEF SafeWrite, OwnedRow, Flush, Reported
<1>3. CASE seen.status \notin {"running", "cancel_requested"}
  <2>1. next = now
    BY <1>3 DEF Recovered, Flush, Column, Row
  <2> QED
    BY <2>1 DEF SafeWrite
<1> QED
  BY <1>1, <1>2, <1>3

LEMMA FinishedWrite ==
    ASSUME NEW now \in Row, NEW seen \in Row, OwnedRow(now), OwnedRow(seen),
           now.status # "absent", seen.result # None => now.result # None,
           NEW out \in Solved \cup Failures, NEW payload \in Payloads \cup {None},
           out.status \in Reported => payload # None
    PROVE  SafeWrite(now, Flush(now, seen, Finished(seen, out, payload)))
<1> DEFINE set == Finished(seen, out, payload)
           next == Flush(now, seen, set)
<1>1. out.status \notin {"queued", "running", "absent"}
  BY DEF Solved, Failures, Unexpected
<1>2. set.worker = seen.worker /\ set.recoveries = seen.recoveries
  BY DEF Finished, Row
<1>3. set.status \notin {"queued", "running", "absent"}
  BY <1>1 DEF Finished, Row
<1>4. set.result = seen.result \/ set.result # None
  BY DEF Finished, Row
<1>5. set.status \in Reported => set.result # None
  BY DEF Finished, Row, Reported
<1>6. /\ next.worker = now.worker /\ next.recoveries = now.recoveries
      /\ next.status = now.status \/ next.status = set.status
      /\ next.result = now.result \/ (next.result = set.result /\ set.result # None)
  BY <1>2, <1>4 DEF Flush, Column
<1>7. next.status = set.status /\ set.status \in Reported => next.result # None
  <2>1. CASE set.result = seen.result
    BY <2>1, <1>5 DEF Flush, Column
  <2>2. CASE set.result # seen.result
    BY <2>2, <1>5 DEF Flush, Column
  <2> QED
    BY <2>1, <2>2
<1> QED
  BY <1>3, <1>6, <1>7 DEF SafeWrite, OwnedRow, Flush

LEMMA CancelledWrite ==
    ASSUME NEW now \in Row, NEW seen \in Row, OwnedRow(now),
           now.status # "absent"
    PROVE  SafeWrite(now, Flush(now, seen, Cancelled(seen)))
<1> DEFINE next == Flush(now, seen, Cancelled(seen))
<1>1. /\ next.worker = now.worker /\ next.result = now.result
      /\ next.recoveries = now.recoveries
      /\ next.status \in {now.status, "cancelled", "cancel_requested"}
  BY DEF Flush, Column, Cancelled, Row
<1> QED
  BY <1>1 DEF SafeWrite, OwnedRow, Flush, Reported

(* Every step leaves a row as it is or writes it safely. *)
LEMMA StepWrites ==
    ASSUME TypeInv, WriteInv, [Next]_vars, NEW r \in Runs
    PROVE  row'[r] = row[r] \/ SafeWrite(row[r], row'[r])
<1>0. row \in [Runs -> Row] /\ row[r] \in Row /\ OwnedRow(row[r])
  BY DEF TypeInv, TypeOK, WriteInv
<1>1. ASSUME NEW w \in Workers, RecoverCommit(w)
      PROVE  row'[r] = row[r] \/ SafeWrite(row[r], row'[r])
  <2> DEFINE seen == worker[w].seen[r]
  <2>1. /\ seen \in Row /\ ReadOf(seen, row[r])
        /\ row'[r] = Flush(row[r], seen, Recovered(seen))
    BY <1>1 DEF RecoverCommit, TypeInv, TypeOK, WorkerState, WriteInv, WorkerInv
  <2>2. CASE row[r].status # "absent"
    BY <1>0, <2>1, <2>2, RecoveredWrite DEF ReadOf
  <2>3. CASE row[r].status = "absent"
    <3>1. seen.status = "absent"
      BY <2>1, <2>3 DEF ReadOf
    <3>2. Recovered(seen) = seen
      BY <3>1 DEF Recovered
    <3> QED
      BY <1>0, <2>1, <3>2 DEF Flush, Column, Row
  <2> QED
    BY <2>2, <2>3
<1>2. ASSUME NEW w \in Workers, Claim(w)
      PROVE  row'[r] = row[r] \/ SafeWrite(row[r], row'[r])
  <2>1. CASE row'[r] # row[r]
    <3>1. /\ row[r].status = "queued"
          /\ row'[r] = [row[r] EXCEPT !.status = "running", !.worker = w]
      BY <1>0, <1>2, <2>1 DEF Claim, TypeInv, PlaceInv, WellPlaced
    <3>2. w # None
      BY ConstantsAssumption
    <3> QED
      BY <1>0, <3>1, <3>2 DEF SafeWrite, OwnedRow, Row, Reported
  <2> QED
    BY <2>1
<1>3. ASSUME NEW w \in Workers, Commit(w)
      PROVE  row'[r] = row[r] \/ SafeWrite(row[r], row'[r])
  <2> DEFINE me == worker[w]
  <2>1. /\ me \in WorkerState /\ me.run \in Runs
        /\ WorkerInv(me, row) /\ me.seen[me.run].status # "absent"
    BY <1>3 DEF Commit, TypeInv, TypeOK, PlaceInv, WellPlaced, WriteInv, WorkerInv
  <2>2. CASE r = me.run
    <3>1. row'[r] = Flush(row[r], me.seen[r], Finished(me.seen[r], me.out, me.payload))
      BY <1>0, <1>3, <2>2 DEF Commit
    <3>2. /\ me.seen[r] \in Row /\ ReadOf(me.seen[r], row[r])
          /\ row[r].status # "absent"
          /\ me.out \in Solved \cup Failures /\ me.payload \in Payloads \cup {None}
          /\ me.out.status \in Reported => me.payload # None
      BY <2>1, <2>2 DEF WorkerInv, WorkerState, ReadOf
    <3> QED
      BY <1>0, <3>1, <3>2, FinishedWrite DEF ReadOf
  <2>3. CASE r # me.run
    BY <1>0, <1>3, <2>3 DEF Commit
  <2> QED
    BY <2>2, <2>3
<1>4. ASSUME NEW c \in Clients, CreateCommit(c)
      PROVE  row'[r] = row[r] \/ SafeWrite(row[r], row'[r])
  <2>1. CASE row'[r] # row[r]
    <3>1. /\ row[r].status = "absent"
          /\ row'[r] = NewRow(client[c].key, client[c].body)
      BY <1>0, <1>4, <2>1 DEF CreateCommit, Insert, Exists
    <3>2. row[r] = Absent
      BY <1>0, <3>1 DEF OwnedRow
    <3> QED
      BY <3>1, <3>2 DEF NewRow, Absent, SafeWrite, OwnedRow, Reported
  <2> QED
    BY <2>1
<1>5. ASSUME NEW c \in Clients, CancelCommit(c)
      PROVE  row'[r] = row[r] \/ SafeWrite(row[r], row'[r])
  <2>1. client[c].seen \in Row /\ row[client[c].run].status # "absent"
    BY <1>5 DEF CancelCommit, TypeInv, TypeOK, ClientState, WriteInv
  <2>2. CASE r = client[c].run
    BY <1>0, <1>5, <2>1, <2>2, CancelledWrite DEF CancelCommit
  <2>3. CASE r # client[c].run
    BY <1>0, <1>5, <2>3 DEF CancelCommit
  <2> QED
    BY <2>2, <2>3
<1>6. ASSUME UNCHANGED row
      PROVE  row'[r] = row[r] \/ SafeWrite(row[r], row'[r])
  BY <1>6
<1> QED
  BY <1>1, <1>2, <1>3, <1>4, <1>5, <1>6
     DEF Next, WorkerStep, ClientStep, RecoverRead, SelectOldest, Solve,
         CompleteRead, FailRead, Crash, CreateFind, CancelRead, Age, vars

(* What was read stays a read, and a step keeps WriteInv. *)
LEMMA WriteStep == TypeInv /\ WriteInv /\ [Next]_vars => WriteInv'
<1> SUFFICES ASSUME TypeInv, WriteInv, [Next]_vars PROVE WriteInv'
  OBVIOUS
<1>0. row \in [Runs -> Row] /\ worker \in [Workers -> WorkerState]
      /\ client \in [Clients -> ClientState]
  BY DEF TypeInv, TypeOK
<1>1. ASSUME NEW r \in Runs
      PROVE  /\ OwnedRow(row'[r])
             /\ row[r].status # "absent" => row'[r].status # "absent"
             /\ row[r].result # None => row'[r].result # None
  BY StepWrites DEF SafeWrite, WriteInv
<1>2. ASSUME NEW s \in WorkerState, WorkerInv(s, row)
      PROVE  WorkerInv(s, row')
  BY <1>1, <1>2 DEF WorkerInv, ReadOf
<1>3. WorkerInv(Idle, row')
  BY DEF WorkerInv, ReadOf, OwnedRow, Idle, Unread, Absent, Unexpected, Reported
<1>4. ASSUME NEW w \in Workers PROVE WorkerInv(worker'[w], row')
  <2> DEFINE me == worker[w]
  <2>0. me \in WorkerState /\ WorkerInv(me, row) /\ WorkerInv(me, row')
    BY <1>0, <1>2 DEF WriteInv
  <2>1. CASE UNCHANGED worker
    BY <2>0, <2>1
  <2>2. ASSUME NEW v \in Workers, v # w, WorkerStep(v) \/ Crash(v)
        PROVE  worker'[w] = me
    BY <1>0, <2>2 DEF WorkerStep, RecoverRead, RecoverCommit, SelectOldest, Claim,
                      Solve, CompleteRead, FailRead, Commit, Crash, Goes
  <2>3. ASSUME NEW s \in WorkerState, Goes(w, s), WorkerInv(s, row')
        PROVE  WorkerInv(worker'[w], row')
    BY <1>0, <2>3 DEF Goes
  <2>4. ASSUME NEW S, UNCHANGED row
        PROVE  /\ Loaded(S) \in [Runs -> Row]
               /\ \A r \in Runs : ReadOf(Loaded(S)[r], row'[r])
    <3>1. OwnedRow(Absent)
      BY DEF OwnedRow, Absent, Reported
    <3> QED
      BY <1>0, <2>4, <3>1, LoadedType DEF Loaded, ReadOf, WriteInv, Absent
  <2>5. CASE RecoverRead(w)
    <3> DEFINE next == [Idle EXCEPT !.pc = "recover", !.seen = Loaded(Due)]
    <3>1. UNCHANGED row
      BY <2>5 DEF RecoverRead
    <3>2. next \in WorkerState /\ WorkerInv(next, row')
      BY <2>4, <3>1, IdleType
         DEF WorkerInv, WorkerState, WorkerPC, Idle, Unexpected, Reported
    <3>3. LET s == [Idle EXCEPT !.pc = "select"]
          IN  s \in WorkerState /\ WorkerInv(s, row')
      BY <1>3, IdleType DEF WorkerInv, WorkerState, WorkerPC, Idle
    <3> QED
      BY <2>3, <2>5, <3>2, <3>3 DEF RecoverRead
  <2>6. CASE RecoverCommit(w) \/ SelectOldest(w) \/ Crash(w)
    <3>1. LET s == [Idle EXCEPT !.pc = "select"]
          IN  s \in WorkerState /\ WorkerInv(s, row')
      BY <1>3, IdleType DEF WorkerInv, WorkerState, WorkerPC, Idle
    <3>2. ASSUME NEW r \in Runs
          PROVE LET s == [Idle EXCEPT !.pc = "claim", !.run = r]
                IN  s \in WorkerState /\ WorkerInv(s, row')
      BY <1>3, IdleType DEF WorkerInv, WorkerState, WorkerPC, Idle
    <3> QED
      BY <1>3, IdleType, <2>3, <2>6, <3>1, <3>2
         DEF RecoverCommit, SelectOldest, Crash, Queued
  <2>7. CASE Claim(w)
    <3>1. LET s == [me EXCEPT !.pc = "solve"]
          IN  s \in WorkerState /\ WorkerInv(s, row')
      BY <2>0 DEF WorkerInv, WorkerState, WorkerPC
    <3>2. ASSUME NEW pc \in {"select", "idle"}
          PROVE LET s == [Idle EXCEPT !.pc = pc]
                IN  s \in WorkerState /\ WorkerInv(s, row')
      BY <1>3, IdleType DEF WorkerInv, WorkerState, WorkerPC, Idle
    <3> QED
      BY <2>3, <2>7, <3>1, <3>2 DEF Claim
  <2>8. CASE Solve(w)
    <3>1. ASSUME NEW o \in Solved, NEW p \in Payloads
          PROVE LET s == [me EXCEPT !.pc = "complete", !.out = o, !.payload = p]
                IN  s \in WorkerState /\ WorkerInv(s, row')
      BY <2>0, ConstantsAssumption DEF WorkerInv, WorkerState, WorkerPC
    <3>2. ASSUME NEW o \in Failures
          PROVE LET s == [me EXCEPT !.pc = "fail", !.out = o]
                IN  s \in WorkerState /\ WorkerInv(s, row')
      <4>1. o.status \notin Reported
        BY DEF Failures, Unexpected, Reported
      <4> QED
        BY <2>0, <4>1 DEF WorkerInv, WorkerState, WorkerPC
    <3> QED
      BY <2>3, <2>8, <3>1, <3>2 DEF Solve
  <2>9. ASSUME me.pc \in {"complete", "fail"}, UNCHANGED row,
               row[me.run].status # "absent"
        PROVE  LET s == [me EXCEPT !.pc = "commit", !.seen = Loaded({me.run})]
               IN  s \in WorkerState /\ WorkerInv(s, row')
    <3> DEFINE s == [me EXCEPT !.pc = "commit", !.seen = Loaded({me.run})]
    <3>1. me.run \in Runs /\ Loaded({me.run})[me.run] = row[me.run]
      BY <2>9 DEF TypeInv, PlaceInv, WellPlaced, Loaded
    <3>2. s \in WorkerState
      BY <2>0, <2>4, <2>9 DEF WorkerState, WorkerPC
    <3> QED
      BY <2>0, <2>4, <2>9, <3>1, <3>2 DEF WorkerInv, WorkerState
  <2>10. CASE CompleteRead(w)
    <3>1. LET s == [me EXCEPT !.pc = "fail", !.out = Unexpected, !.payload = None]
          IN  s \in WorkerState /\ WorkerInv(s, row')
      BY <2>0 DEF WorkerInv, WorkerState, WorkerPC, Failures, Unexpected, Reported
    <3> QED
      BY <2>3, <2>9, <2>10, <3>1 DEF CompleteRead
  <2>11. CASE FailRead(w)
    <3>1. Allowed["absent"] = {}
      BY DEF Allowed, Status
    <3>2. row[me.run].status # "cancel_requested" \/ row[me.run].status # "absent"
      OBVIOUS
    <3> QED
      BY <1>3, IdleType, <2>3, <2>9, <2>11, <3>1 DEF FailRead
  <2>12. CASE Commit(w)
    BY <1>3, IdleType, <2>3, <2>12 DEF Commit
  <2> QED
    BY <2>0, <2>1, <2>2, <2>5, <2>6, <2>7, <2>8, <2>10, <2>11, <2>12
       DEF Next, WorkerStep, ClientStep, CreateFind, CreateCommit, CancelRead,
           CancelCommit, Age, vars
<1>5. ASSUME NEW c \in Clients, client'[c].pc = "cancel"
      PROVE  row'[client'[c].run].status # "absent"
  <2>1. CASE client'[c] = client[c]
    BY <1>1, <1>5, <2>1 DEF WriteInv, TypeInv, PlaceInv
  <2>2. CASE client'[c] # client[c]
    <3>1. ASSUME NEW w \in Workers, WorkerStep(w) \/ Crash(w)
          PROVE  FALSE
      BY <2>2, <3>1 DEF WorkerStep, RecoverRead, RecoverCommit, SelectOldest,
                        Claim, Solve, CompleteRead, FailRead, Commit, Crash
    <3>2. ASSUME NEW d \in Clients, NEW k \in Keys \cup {None}, NEW b \in Bodies \cup {None},
                 CreateFind(d, k, b)
          PROVE  FALSE
      BY <1>0, <1>5, <2>2, <3>2 DEF CreateFind, Free
    <3>3. ASSUME NEW d \in Clients, CreateCommit(d) \/ CancelCommit(d)
          PROVE  FALSE
      BY <1>0, <1>5, <2>2, <3>3 DEF CreateCommit, CancelCommit, Free
    <3>4. ASSUME NEW d \in Clients, NEW r \in Runs, CancelRead(d, r)
          PROVE  row'[client'[c].run].status # "absent"
      BY <1>0, <1>5, <2>2, <3>4 DEF CancelRead, Free
    <3>5. CASE UNCHANGED client
      BY <2>2, <3>5
    <3> QED
      BY <3>1, <3>2, <3>3, <3>4, <3>5 DEF Next, ClientStep, Age, vars
  <2> QED
    BY <2>1, <2>2
<1> QED
  BY <1>1, <1>4, <1>5 DEF WriteInv

(* A step keeps ClaimInv: only a claim makes a worker hold a run, and the  *)
(* run it claims is queued, so that nobody held it unless it was requeued. *)
LEMMA ClaimStep == TypeInv /\ WriteInv /\ ClaimInv /\ [Next]_vars => ClaimInv'
<1> SUFFICES ASSUME TypeInv, WriteInv, ClaimInv, [Next]_vars,
                    NEW r \in Runs, row'[r].recoveries = 0
             PROVE  /\ \A v, w \in Workers : Holds(v, r)' /\ Holds(w, r)' => v = w
                    /\ \A w \in Workers : Holds(w, r)' =>
                          row'[r].status \notin {"queued", "absent"}
  BY DEF ClaimInv
<1>0. row \in [Runs -> Row] /\ worker \in [Workers -> WorkerState]
  BY DEF TypeInv, TypeOK
<1>1. /\ row[r].recoveries = 0
      /\ row'[r].status \in {"queued", "absent"}
            => row[r].status \in {"queued", "absent"}
  BY StepWrites DEF SafeWrite
<1>2. /\ \A v, w \in Workers : Holds(v, r) /\ Holds(w, r) => v = w
      /\ \A w \in Workers : Holds(w, r) => row[r].status \notin {"queued", "absent"}
  BY <1>1 DEF ClaimInv
<1>3. ASSUME NEW w \in Workers, NEW v \in Workers, v # w,
             WorkerStep(w) \/ Crash(w), Holds(v, r)'
      PROVE  Holds(v, r)
  BY <1>0, <1>3 DEF Holds, Goes, WorkerStep, RecoverRead, RecoverCommit,
         SelectOldest, Claim, Solve, CompleteRead, FailRead, Commit, Crash
<1>4. ASSUME NEW w \in Workers, Claim(w)
      PROVE  \/ \A v \in Workers : Holds(v, r)' => Holds(v, r)
             \/ /\ row[r].status = "queued" /\ row'[r].status = "running"
                /\ \A v \in Workers : Holds(v, r)' => v = w
  <2>1. CASE Holds(w, r)'
    <3>1. worker[w].run = r /\ row[r].status = "queued" /\ row'[r].status = "running"
      <4>1. worker'[w].pc \notin {"select", "idle"} /\ worker'[w].run = r
        BY <2>1 DEF Holds
      <4>2. /\ row[worker[w].run].status = "queued"
            /\ row' = [row EXCEPT ![worker[w].run].status = "running",
                                  ![worker[w].run].worker = w]
            /\ worker'[w] = [worker[w] EXCEPT !.pc = "solve"]
        BY <1>0, <1>4, <4>1 DEF Claim, Goes, Idle
      <4>3. worker[w].run = r
        BY <1>0, <4>1, <4>2 DEF WorkerState
      <4> QED
        BY <1>0, <4>2, <4>3 DEF Row
    <3> QED
      BY <3>1, <1>2, <1>3, <1>4 DEF WorkerStep
  <2>2. CASE ~Holds(w, r)'
    BY <2>2, <1>3, <1>4 DEF WorkerStep
  <2> QED
    BY <2>1, <2>2
<1>5. ASSUME NEW w \in Workers, WorkerStep(w) \/ Crash(w), ~Claim(w),
             Holds(w, r)'
      PROVE  Holds(w, r)
  <2> DEFINE now == worker'[w]
             me == worker[w]
  <2>1. now.pc \in {"solve", "complete", "fail", "commit"} /\ now.run = r
    BY <1>5 DEF Holds
  <2>2. /\ me.pc \in {"solve", "complete", "fail"}
        /\ now.run = me.run
    <3>0. \A s : Goes(w, s) => now = s
      BY <1>0 DEF Goes
    <3>. now.pc \notin {"idle", "select", "recover", "claim"}
      BY <2>1
    <3>1. ASSUME NEW s, Goes(w, s), s.pc \in {"idle", "select", "recover", "claim"}
          PROVE  FALSE
      BY <3>0, <3>1
    <3>5. CASE RecoverRead(w)
      <4>1. /\ [Idle EXCEPT !.pc = "select"].pc = "select"
            /\ [Idle EXCEPT !.pc = "recover", !.seen = Loaded(Due)].pc = "recover"
        BY DEF Idle
      <4> QED
        BY <3>1, <3>5, <4>1 DEF RecoverRead
    <3>6. CASE SelectOldest(w)
      <4>1. Idle.pc = "idle"
        BY DEF Idle
      <4>2. ASSUME NEW q \in Queued
            PROVE  [Idle EXCEPT !.pc = "claim", !.run = q].pc = "claim"
        BY DEF Idle
      <4> QED
        BY <3>1, <3>6, <4>1, <4>2 DEF SelectOldest
    <3>7. CASE RecoverCommit(w) \/ Commit(w) \/ Crash(w)
      <4>1. Idle.pc = "idle" /\ [Idle EXCEPT !.pc = "select"].pc = "select"
        BY DEF Idle
      <4> QED
        BY <3>1, <3>7, <4>1 DEF RecoverCommit, Commit, Crash
    <3>2. CASE Solve(w)
      <4>1. /\ \A o, p : [me EXCEPT !.pc = "complete", !.out = o,
                                    !.payload = p].run = me.run
            /\ \A o : [me EXCEPT !.pc = "fail", !.out = o].run = me.run
        BY <1>0 DEF WorkerState
      <4>2. \/ \E o, p : now = [me EXCEPT !.pc = "complete", !.out = o, !.payload = p]
            \/ \E o : now = [me EXCEPT !.pc = "fail", !.out = o]
        BY <3>0, <3>2 DEF Solve
      <4>3. me.pc = "solve"
        BY <3>2 DEF Solve
      <4> HIDE DEF now, me
      <4>4. CASE \E o, p : now = [me EXCEPT !.pc = "complete", !.out = o, !.payload = p]
        BY <4>1, <4>3, <4>4
      <4>5. CASE \E o : now = [me EXCEPT !.pc = "fail", !.out = o]
        BY <4>1, <4>3, <4>5
      <4> QED
        BY <4>2, <4>4, <4>5
    <3>3. CASE CompleteRead(w)
      <4>1. /\ \A S : [me EXCEPT !.pc = "commit", !.seen = S].run = me.run
            /\ [me EXCEPT !.pc = "fail", !.out = Unexpected,
                          !.payload = None].run = me.run
        BY <1>0 DEF WorkerState
      <4>2. \/ \E S : now = [me EXCEPT !.pc = "commit", !.seen = S]
            \/ now = [me EXCEPT !.pc = "fail", !.out = Unexpected, !.payload = None]
        BY <3>0, <3>3 DEF CompleteRead
      <4>3. me.pc = "complete"
        BY <3>3 DEF CompleteRead
      <4> HIDE DEF now, me
      <4>4. CASE \E S : now = [me EXCEPT !.pc = "commit", !.seen = S]
        BY <4>1, <4>3, <4>4
      <4>5. CASE now = [me EXCEPT !.pc = "fail", !.out = Unexpected, !.payload = None]
        BY <4>1, <4>3, <4>5
      <4> QED
        BY <4>2, <4>4, <4>5
    <3>4. CASE FailRead(w)
      <4>1. Idle.pc = "idle" /\ me.pc = "fail"
        BY <3>4 DEF Idle, FailRead
      <4>2. [me EXCEPT !.pc = "commit", !.seen = Loaded({me.run})].run = me.run
        BY <1>0 DEF WorkerState
      <4>3. Goes(w, [me EXCEPT !.pc = "commit", !.seen = Loaded({me.run})])
        BY <3>1, <3>4, <4>1 DEF FailRead
      <4> QED
        BY <3>0, <4>1, <4>2, <4>3
    <3> QED
      BY <1>5, <3>2, <3>3, <3>4, <3>5, <3>6, <3>7 DEF WorkerStep
  <2> QED
    BY <2>1, <2>2 DEF Holds
<1>6. ASSUME UNCHANGED worker
      PROVE  \A v \in Workers : Holds(v, r)' => Holds(v, r)
  BY <1>6 DEF Holds
<1>7. CASE \A v \in Workers : Holds(v, r)' => Holds(v, r)
  BY <1>1, <1>2, <1>7
<1>8. ASSUME NEW w \in Workers, WorkerStep(w) \/ Crash(w)
      PROVE  \/ \A v \in Workers : Holds(v, r)' => Holds(v, r)
             \/ /\ row[r].status = "queued" /\ row'[r].status = "running"
                /\ \A v \in Workers : Holds(v, r)' => v = w
  BY <1>3, <1>4, <1>5, <1>8
<1> QED
  BY <1>2, <1>6, <1>7, <1>8
     DEF Next, ClientStep, CreateFind, CreateCommit, CancelRead, CancelCommit,
         Age, vars

IInv == TypeInv /\ WriteInv /\ ClaimInv

LEMMA Invariant == Spec => []IInv
<1>1. Init => IInv
  <2> SUFFICES ASSUME Init PROVE WriteInv /\ ClaimInv
    BY TypeInit DEF IInv
  <2>1. OwnedRow(Absent) /\ WorkerInv(Idle, row)
    BY DEF Init, OwnedRow, Absent, WorkerInv, ReadOf, Idle, Unread, Unexpected,
           Reported
  <2> QED
    BY <2>1 DEF Init, WriteInv, ClaimInv, Holds, Idle, Free, Unread
<1>2. IInv /\ [Next]_vars => IInv'
  BY TypeStep, WriteStep, ClaimStep DEF IInv
<1> QED
  BY <1>1, <1>2, PTL DEF Spec

(* A queued run has no owner and a running one has, although recovery,     *)
(* completion and cancellation write rows they read before.                *)
THEOREM OwnershipHolds == Spec => []OwnershipAgrees
<1>1. IInv => OwnershipAgrees
  BY DEF IInv, WriteInv, OwnedRow, OwnershipAgrees
<1> QED
  BY <1>1, Invariant, PTL

(* A run reported as succeeded or degraded has a result, whichever of two  *)
(* late writes came last.                                                  *)
THEOREM ReportedResultHolds == Spec => []ReportedResultExists
<1>1. IInv => ReportedResultExists
  BY DEF IInv, WriteInv, OwnedRow, ReportedResultExists, Reported
<1> QED
  BY <1>1, Invariant, PTL

(* claim_next hands a run to one worker each time it is queued: two workers *)
(* on one run imply that recover_stale requeued it.                        *)
THEOREM OneClaimHolds == Spec => []OneClaimPerQueueing
<1>1. IInv => OneClaimPerQueueing
  <2> SUFFICES ASSUME IInv, NEW r \in Runs, NEW v \in Workers, NEW w \in Workers,
                      v # w, Holds(v, r), Holds(w, r)
               PROVE  row[r].recoveries > 0
    BY DEF OneClaimPerQueueing
  <2>1. row[r].recoveries # 0
    BY DEF IInv, ClaimInv
  <2>2. row[r].recoveries \in Nat
    BY ConstantsAssumption DEF IInv, TypeInv, TypeOK, Row
  <2> QED
    BY <2>1, <2>2
<1> QED
  BY <1>1, Invariant, PTL

(* No step replaces one owner of a run by another: ownership passes only   *)
(* through the queue.                                                      *)
THEOREM OwnerChangeHolds == Spec => OwnerChangesThroughQueue
<1>1. IInv /\ [Next]_vars =>
        [\A r \in Runs : row[r].worker # None /\ row'[r].worker # None
             => row'[r].worker = row[r].worker]_vars
  BY StepWrites DEF IInv, SafeWrite
<1> QED
  BY <1>1, Invariant, PTL DEF Spec, OwnerChangesThroughQueue

(* What recovery, completion, cancellation and a crash may never do to a   *)
(* run's row, however many workers write what they read before: lose the   *)
(* row, its idempotency key or its request, lose a committed result, or    *)
(* count back its recoveries to none.                                      *)
NothingIsLost ==
    [][\A r \in Runs :
          /\ row[r].status # "absent" =>
                /\ row'[r].status # "absent"
                /\ row'[r].key = row[r].key /\ row'[r].body = row[r].body
          /\ row[r].result # None => row'[r].result # None
          /\ row[r].recoveries > 0 => row'[r].recoveries > 0]_vars

(* Submitted runs and committed results never vanish, for any number of    *)
(* workers, crashes and recoveries.                                        *)
THEOREM RunsAndResultsStay == Spec => NothingIsLost
<1>1. IInv /\ [Next]_vars =>
        [\A r \in Runs :
            /\ row[r].status # "absent" =>
                  /\ row'[r].status # "absent"
                  /\ row'[r].key = row[r].key /\ row'[r].body = row[r].body
            /\ row[r].result # None => row'[r].result # None
            /\ row[r].recoveries > 0 => row'[r].recoveries > 0]_vars
  <2> SUFFICES ASSUME IInv, [Next]_vars, NEW r \in Runs
               PROVE  /\ row[r].status # "absent" =>
                            /\ row'[r].status # "absent"
                            /\ row'[r].key = row[r].key /\ row'[r].body = row[r].body
                      /\ row[r].result # None => row'[r].result # None
                      /\ row[r].recoveries > 0 => row'[r].recoveries > 0
    OBVIOUS
  <2>1. row[r] \in Row /\ row'[r] \in Row
    <3>1. TypeInv /\ TypeInv'
      BY TypeStep DEF IInv
    <3> QED
      BY <3>1 DEF TypeInv, TypeOK
  <2>2. row[r].recoveries \in Nat /\ row'[r].recoveries \in Nat
    BY <2>1, ConstantsAssumption DEF Row
  <2>3. row'[r] = row[r] \/ SafeWrite(row[r], row'[r])
    BY StepWrites DEF IInv
  <2>4. CASE row'[r] = row[r]
    BY <2>4
  <2>5. CASE SafeWrite(row[r], row'[r])
    BY <2>2, <2>5 DEF SafeWrite
  <2> QED
    BY <2>3, <2>4, <2>5
<1> QED
  BY <1>1, Invariant, PTL DEF Spec, NothingIsLost
-----------------------------------------------------------------------------
(* Idempotent submission. *)

(* A key names one row, and every answered request is the row's.           *)
KeyInv ==
    /\ \A r, q \in Runs : row[r].key = row[q].key /\ row[r].key # None => r = q
    /\ \A a \in served : row[a.run].key = a.key /\ row[a.run].body = a.body

LEMMA KeyStep == IInv /\ KeyInv /\ [Next]_vars => KeyInv'
<1> SUFFICES ASSUME IInv, KeyInv, [Next]_vars PROVE KeyInv'
  OBVIOUS
<1>0. /\ row \in [Runs -> Row]
      /\ served \subseteq [key : Keys, body : Bodies, run : Runs]
      /\ \A r \in Runs : row[r].status = "absent" => row[r] = Absent
      /\ Absent.key = None /\ None \notin Keys
  BY ConstantsAssumption DEF IInv, TypeInv, TypeOK, WriteInv, OwnedRow, Absent
<1>1. ASSUME NEW a \in served
      PROVE  a.run \in Runs /\ row[a.run].status # "absent"
  BY <1>0 DEF KeyInv
<1>2. ASSUME NEW r \in Runs, row[r].status # "absent" \/ row'[r] = row[r]
      PROVE  row'[r].key = row[r].key /\ row'[r].body = row[r].body
  BY <1>2, StepWrites DEF IInv, SafeWrite
<1>3. \A a \in served : row'[a.run].key = a.key /\ row'[a.run].body = a.body
  BY <1>1, <1>2 DEF KeyInv
<1>4. ASSUME NEW k, NEW b, Resolve(k, b), UNCHANGED row
      PROVE  KeyInv'
  <2>1. ASSUME NEW a \in served' PROVE row[a.run].key = a.key /\ row[a.run].body = a.body
    <3>1. CASE a \in served
      BY <3>1 DEF KeyInv
    <3>2. CASE a \notin served
      BY <1>4, <3>2 DEF Resolve, HasKey
    <3> QED
      BY <3>1, <3>2
  <2> QED
    BY <1>4, <2>1 DEF KeyInv
<1>5. ASSUME NEW c \in Clients, CreateCommit(c) PROVE KeyInv'
  <2> DEFINE k == client[c].key
             b == client[c].body
  <2>1. CASE HasKey(k) # {}
    BY <1>4, <1>5, <2>1 DEF CreateCommit
  <2>2. CASE HasKey(k) = {}
    <3>1. PICK r \in Runs : /\ row[r].status = "absent"
                            /\ row' = [row EXCEPT ![r] = NewRow(k, b)]
                            /\ served' = IF k = None THEN served
                                  ELSE served \cup {[key |-> k, body |-> b, run |-> r]}
      BY <1>5, <2>2 DEF CreateCommit, Insert, Exists
    <3>2. NewRow(k, b).key = k /\ NewRow(k, b).body = b
      BY DEF NewRow, Absent
    <3>3. \A q \in Runs : row[q].key = k => k = None
      BY <1>0, <2>2 DEF HasKey, Exists
    <3>4. \A q \in Runs, p \in Runs :
             row'[p].key = row'[q].key /\ row'[p].key # None => p = q
      BY <1>0, <3>1, <3>2, <3>3 DEF KeyInv
    <3>5. \A a \in served' : row'[a.run].key = a.key /\ row'[a.run].body = a.body
      BY <1>0, <1>3, <3>1, <3>2
    <3> QED
      BY <3>4, <3>5 DEF KeyInv
  <2> QED
    BY <2>1, <2>2
<1>6. ASSUME NEW c \in Clients, NEW k \in Keys \cup {None}, NEW b \in Bodies \cup {None},
             CreateFind(c, k, b)
      PROVE  KeyInv'
  <2>1. CASE HasKey(k) # {}
    BY <1>4, <1>6, <2>1 DEF CreateFind
  <2>2. CASE HasKey(k) = {}
    BY <1>6, <2>2 DEF CreateFind, KeyInv
  <2> QED
    BY <2>1, <2>2
<1>7. ASSUME UNCHANGED served,
             \A r \in Runs : row'[r].key = row[r].key /\ row'[r].body = row[r].body
      PROVE  KeyInv'
  BY <1>0, <1>7, <1>3 DEF KeyInv
<1>8. ASSUME NEW w \in Workers, WorkerStep(w) \/ Crash(w) PROVE KeyInv'
  <2>1. UNCHANGED served
    BY <1>8 DEF WorkerStep, RecoverRead, RecoverCommit, SelectOldest, Claim,
                Solve, CompleteRead, FailRead, Commit, Crash
  <2>2. ASSUME NEW r \in Runs
        PROVE  row'[r].key = row[r].key /\ row'[r].body = row[r].body
    <3>1. CASE RecoverCommit(w)
      BY <1>0, <3>1 DEF RecoverCommit, Flush
    <3>2. CASE Claim(w)
      BY <1>0, <3>2 DEF Claim, Row
    <3>3. CASE Commit(w)
      BY <1>0, <3>3 DEF Commit, Flush
    <3>4. CASE UNCHANGED row
      BY <3>4
    <3> QED
      BY <1>8, <3>1, <3>2, <3>3, <3>4
         DEF WorkerStep, RecoverRead, SelectOldest, Solve, CompleteRead,
             FailRead, Crash
  <2> QED
    BY <1>7, <2>1, <2>2
<1>9. ASSUME NEW c \in Clients, CancelCommit(c) PROVE KeyInv'
  <2>1. \A r \in Runs : row'[r].key = row[r].key /\ row'[r].body = row[r].body
    BY <1>0, <1>9 DEF CancelCommit, Flush
  <2> QED
    BY <1>7, <1>9, <2>1 DEF CancelCommit
<1>10. CASE UNCHANGED <<row, served>>
  BY <1>7, <1>10
<1> QED
  BY <1>5, <1>6, <1>8, <1>9, <1>10
     DEF Next, ClientStep, CancelRead, Age, vars

(* Create requests that carry one idempotency key are answered with one    *)
(* run, also when two of them race from the look-up to the INSERT.         *)
THEOREM AnswersAgreeHolds == Spec => []AnswersAgree
<1>1. Init => KeyInv
  BY DEF Init, KeyInv, Unread, Absent
<1>2. IInv /\ KeyInv => AnswersAgree
  <2> SUFFICES ASSUME IInv, KeyInv, NEW a \in served, NEW b \in served,
                      a.key = b.key
               PROVE  a.run = b.run /\ a.body = b.body
    BY DEF AnswersAgree
  <2>1. /\ a.run \in Runs /\ b.run \in Runs /\ a.key # None
    BY ConstantsAssumption DEF IInv, TypeInv, TypeOK
  <2> QED
    BY <2>1 DEF KeyInv
<1> QED
  BY <1>1, <1>2, KeyStep, Invariant, PTL DEF Spec
-----------------------------------------------------------------------------
(* The queue implements what RunLifecycle promises to the other tables.    *)

(* Only a worker that solved its run carries a result to be written.       *)
PaidInv ==
    \A w \in Workers : worker[w].payload # None =>
        /\ worker[w].pc \in {"complete", "commit"}
        /\ worker[w].out.status \in Reported

(* Only a run that was not reported yet is ended.                          *)
OpenInv ==
    \A w \in Workers : worker[w].pc = "commit" =>
        worker[w].seen[worker[w].run].status \notin Reported

LEMMA PaidStep == TypeInv /\ PaidInv /\ [Next]_vars => PaidInv'
<1> SUFFICES ASSUME TypeInv, PaidInv, [Next]_vars, NEW w \in Workers,
                    worker'[w].payload # None
             PROVE  /\ worker'[w].pc \in {"complete", "commit"}
                    /\ worker'[w].out.status \in Reported
  BY DEF PaidInv
<1>0. /\ worker \in [Workers -> WorkerState]
      /\ worker[w] \in WorkerState
      /\ worker[w].payload # None =>
            /\ worker[w].pc \in {"complete", "commit"}
            /\ worker[w].out.status \in Reported
  BY DEF TypeInv, TypeOK, PaidInv
<1>1. CASE worker'[w] = worker[w]
  BY <1>0, <1>1
<1>2. ASSUME NEW s, Goes(w, s) PROVE worker'[w] = s
  BY <1>0, <1>2 DEF Goes
<1>3. CASE RecoverRead(w) \/ RecoverCommit(w) \/ SelectOldest(w) \/ Crash(w)
              \/ Commit(w)
  <2>1. Idle.payload = None /\ [Idle EXCEPT !.pc = "select"].payload = None
    BY DEF Idle
  <2>2. \A S : [Idle EXCEPT !.pc = "recover", !.seen = S].payload = None
    BY DEF Idle
  <2>3. \A r : [Idle EXCEPT !.pc = "claim", !.run = r].payload = None
    BY DEF Idle
  <2> QED
    BY <1>2, <1>3, <2>1, <2>2, <2>3
       DEF RecoverRead, RecoverCommit, SelectOldest, Crash, Commit
<1>4. CASE Claim(w)
  <2>1. worker[w].payload = None
    BY <1>0, <1>4 DEF Claim
  <2>2. [worker[w] EXCEPT !.pc = "solve"].payload = None
    BY <1>0, <2>1 DEF WorkerState
  <2>3. \A pc : [Idle EXCEPT !.pc = pc].payload = None
    BY DEF Idle
  <2> QED
    BY <1>2, <1>4, <2>2, <2>3 DEF Claim
<1>7. CASE Solve(w)
  <2>1. worker[w].payload = None
    BY <1>0, <1>7 DEF Solve
  <2>2. ASSUME NEW o \in Solved, NEW p \in Payloads
        PROVE  LET s == [worker[w] EXCEPT !.pc = "complete", !.out = o, !.payload = p]
               IN  s.pc = "complete" /\ s.out.status \in Reported
    BY <1>0 DEF WorkerState, Solved, Reported
  <2>3. \A o : [worker[w] EXCEPT !.pc = "fail", !.out = o].payload = None
    BY <1>0, <2>1 DEF WorkerState
  <2>4. \/ \E o \in Solved, p \in Payloads :
             worker'[w] = [worker[w] EXCEPT !.pc = "complete", !.out = o, !.payload = p]
        \/ \E o : worker'[w] = [worker[w] EXCEPT !.pc = "fail", !.out = o]
    BY <1>2, <1>7 DEF Solve
  <2>5. CASE \E o \in Solved, p \in Payloads :
             worker'[w] = [worker[w] EXCEPT !.pc = "complete", !.out = o, !.payload = p]
    <3>1. PICK s : worker'[w] = s /\ s.pc = "complete" /\ s.out.status \in Reported
      BY <2>2, <2>5
    <3> QED
      BY <3>1
  <2>6. CASE \E o : worker'[w] = [worker[w] EXCEPT !.pc = "fail", !.out = o]
    BY <2>3, <2>6
  <2> QED
    BY <2>4, <2>5, <2>6
<1>8. CASE CompleteRead(w) \/ FailRead(w)
  <2> DEFINE reads(S) == [worker[w] EXCEPT !.pc = "commit", !.seen = S]
  <2>1. \A S : /\ reads(S).payload = worker[w].payload
               /\ reads(S).pc = "commit" /\ reads(S).out = worker[w].out
    BY <1>0 DEF WorkerState
  <2>2. [worker[w] EXCEPT !.pc = "fail", !.out = Unexpected,
                          !.payload = None].payload = None
    BY <1>0 DEF WorkerState
  <2>3. Idle.payload = None
    BY DEF Idle
  <2> HIDE DEF reads
  <2>4. \/ \E S : worker'[w] = reads(S)
        \/ worker'[w].payload = None
    <3>1. \/ Goes(w, Idle)
          \/ \E S : Goes(w, reads(S))
          \/ Goes(w, [worker[w] EXCEPT !.pc = "fail", !.out = Unexpected,
                                       !.payload = None])
      BY <1>8 DEF CompleteRead, FailRead, reads
    <3>2. CASE Goes(w, Idle)
      BY <1>2, <2>3, <3>2
    <3>3. CASE \E S : Goes(w, reads(S))
      BY <1>2, <3>3
    <3>4. CASE Goes(w, [worker[w] EXCEPT !.pc = "fail", !.out = Unexpected,
                                         !.payload = None])
      <4>1. worker'[w] = [worker[w] EXCEPT !.pc = "fail", !.out = Unexpected,
                                           !.payload = None]
        BY <1>2, <3>4
      <4> QED
        BY <2>2, <4>1, Zenon
    <3> QED
      BY <3>1, <3>2, <3>3, <3>4
  <2> QED
    BY <1>0, <2>1, <2>4
<1>5. ASSUME NEW v \in Workers, v # w, WorkerStep(v) \/ Crash(v)
      PROVE  worker'[w] = worker[w]
  BY <1>0, <1>5 DEF WorkerStep, RecoverRead, RecoverCommit, SelectOldest, Claim,
                    Solve, CompleteRead, FailRead, Commit, Crash, Goes
<1>6. CASE UNCHANGED worker
  BY <1>1, <1>6
<1> QED
  BY <1>1, <1>3, <1>4, <1>5, <1>6, <1>7, <1>8
     DEF Next, WorkerStep, ClientStep, CreateFind, CreateCommit, CancelRead,
         CancelCommit, Age, vars

LEMMA OpenStep == TypeInv /\ OpenInv /\ [Next]_vars => OpenInv'
<1> SUFFICES ASSUME TypeInv, OpenInv, [Next]_vars, NEW w \in Workers,
                    worker'[w].pc = "commit"
             PROVE  worker'[w].seen[worker'[w].run].status \notin Reported
  BY DEF OpenInv
<1>0. /\ worker \in [Workers -> WorkerState] /\ worker[w] \in WorkerState
      /\ worker[w].pc \in {"complete", "fail"} => worker[w].run \in Runs
  BY DEF TypeInv, TypeOK, PlaceInv, WellPlaced
<1>1. CASE worker'[w] = worker[w]
  BY <1>1 DEF OpenInv
<1>2. ASSUME NEW s, Goes(w, s) PROVE worker'[w] = s
  BY <1>0, <1>2 DEF Goes
<1>3. CASE CompleteRead(w) \/ FailRead(w)
  <2> DEFINE next == [worker[w] EXCEPT !.pc = "commit",
                                       !.seen = Loaded({worker[w].run})]
  <2>1. worker[w].run \in Runs
    BY <1>0, <1>3 DEF CompleteRead, FailRead
  <2>2. next.seen[next.run] = row[worker[w].run]
    BY <1>0, <2>1 DEF Loaded, WorkerState
  <2>3. [worker[w] EXCEPT !.pc = "fail", !.out = Unexpected,
                          !.payload = None].pc # "commit" /\ Idle.pc # "commit"
    BY <1>0 DEF WorkerState, Idle
  <2>4. \A current \in Reported : Allowed[current] = {}
    BY DEF Allowed, Status, Terminal, Reported
  <2>5. worker'[w] = next /\ row[worker[w].run].status \notin Reported
    <3>1. CASE CompleteRead(w)
      BY <1>2, <2>3, <3>1 DEF CompleteRead, Reported
    <3>2. CASE FailRead(w)
      BY <1>2, <2>3, <2>4, <3>2 DEF FailRead
    <3> QED
      BY <1>3, <3>1, <3>2
  <2> QED
    BY <2>2, <2>5
<1>4. CASE RecoverRead(w) \/ RecoverCommit(w) \/ SelectOldest(w) \/ Claim(w)
              \/ Crash(w) \/ Commit(w) \/ Solve(w)
  <2>1. /\ Idle.pc # "commit" /\ [Idle EXCEPT !.pc = "select"].pc # "commit"
        /\ \A S : [Idle EXCEPT !.pc = "recover", !.seen = S].pc # "commit"
        /\ \A r : [Idle EXCEPT !.pc = "claim", !.run = r].pc # "commit"
        /\ \A pc \in {"select", "idle"} : [Idle EXCEPT !.pc = pc].pc # "commit"
    BY DEF Idle
  <2>2. /\ [worker[w] EXCEPT !.pc = "solve"].pc # "commit"
        /\ \A o, p : [worker[w] EXCEPT !.pc = "complete", !.out = o,
                                        !.payload = p].pc # "commit"
        /\ \A o : [worker[w] EXCEPT !.pc = "fail", !.out = o].pc # "commit"
    BY <1>0 DEF WorkerState
  <2>3. CASE RecoverRead(w) \/ RecoverCommit(w) \/ SelectOldest(w) \/ Crash(w)
                \/ Commit(w)
    BY <1>2, <2>1, <2>3 DEF RecoverRead, RecoverCommit, SelectOldest, Crash, Commit
  <2>4. CASE Claim(w)
    <3>1. \/ worker'[w] = [worker[w] EXCEPT !.pc = "solve"]
          \/ \E pc \in {"select", "idle"} : worker'[w] = [Idle EXCEPT !.pc = pc]
      BY <1>2, <2>4 DEF Claim
    <3> QED
      BY <2>1, <2>2, <3>1
  <2>5. CASE Solve(w)
    <3>1. \/ \E o, p : worker'[w] = [worker[w] EXCEPT !.pc = "complete", !.out = o,
                                                      !.payload = p]
          \/ \E o : worker'[w] = [worker[w] EXCEPT !.pc = "fail", !.out = o]
      BY <1>2, <2>5 DEF Solve
    <3>2. CASE \E o, p : worker'[w] = [worker[w] EXCEPT !.pc = "complete",
                                                        !.out = o, !.payload = p]
      BY <2>2, <3>2
    <3>3. CASE \E o : worker'[w] = [worker[w] EXCEPT !.pc = "fail", !.out = o]
      BY <2>2, <3>3
    <3> QED
      BY <3>1, <3>2, <3>3
  <2> QED
    BY <1>4, <2>3, <2>4, <2>5
<1>5. ASSUME NEW v \in Workers, v # w, WorkerStep(v) \/ Crash(v)
      PROVE  worker'[w] = worker[w]
  BY <1>0, <1>5 DEF WorkerStep, RecoverRead, RecoverCommit, SelectOldest, Claim,
                    Solve, CompleteRead, FailRead, Commit, Crash, Goes
<1>6. CASE UNCHANGED worker
  BY <1>1, <1>6
<1> QED
  BY <1>1, <1>3, <1>4, <1>5, <1>6
     DEF Next, WorkerStep, ClientStep, CreateFind, CreateCommit, CancelRead,
         CancelCommit, Age, vars

(* The abstract row. *)
Seen(x) == [status |-> x.status, result |-> x.result]

(* A safe write to an existing row that reports a result is Reports; one   *)
(* that leaves the result alone is the step its status names.              *)
LEMMA WriteMaps ==
    ASSUME NEW now \in Row, NEW next \in Row, now.status # "absent",
           SafeWrite(now, next),
           \/ next.status \in Reported
           \/ /\ next.result = now.result
              /\ next.status \in {now.status, "queued", "cancelled",
                                  "cancel_requested", "failed", "infeasible",
                                  "timed_out"}
    PROVE  Seen(next) = Seen(now) \/ Shared!Step(Seen(now), Seen(next))
<1>1. Seen(now).status = now.status /\ Seen(next).status = next.status
      /\ Seen(now).result = now.result /\ Seen(next).result = next.result
  BY DEF Seen
<1>2. CASE next.status \in Reported
  <2>1. next.result \in Payloads
    BY <1>2 DEF SafeWrite, OwnedRow, Row
  <2> QED
    BY <1>1, <1>2, <2>1 DEF Shared!Step, Shared!Reports, Shared!Present,
                            Shared!Open, Shared!Reported, Reported
<1>3. ASSUME next.result = now.result
      PROVE  Seen(next) = [Seen(now) EXCEPT !.status = next.status]
  BY <1>3 DEF Seen
<1>4. CASE next.status = now.status /\ next.result = now.result
  BY <1>4 DEF Seen
<1>5. CASE next.status = "queued" /\ next.result = now.result
  BY <1>1, <1>3, <1>5 DEF Shared!Step, Shared!Requeued, Shared!Present, Shared!Open
<1>6. CASE /\ next.status \in {"cancelled", "cancel_requested"}
           /\ next.result = now.result
  BY <1>1, <1>3, <1>6 DEF Shared!Step, Shared!CancelWritten, Shared!Present
<1>7. CASE /\ next.status \in {"failed", "infeasible", "timed_out"}
           /\ next.result = now.result
  BY <1>1, <1>3, <1>7 DEF Shared!Step, Shared!Fails, Shared!Present, Shared!Open,
                          Shared!Classified
<1> QED
  BY <1>2, <1>4, <1>5, <1>6, <1>7

LEMMA StepMaps ==
    ASSUME IInv, PaidInv, OpenInv, [Next]_vars, NEW r \in Runs
    PROVE  Seen(row'[r]) = Seen(row[r])
               \/ Shared!Step(Seen(row[r]), Seen(row'[r]))
<1> DEFINE Maps == \/ Seen(row'[r]) = Seen(row[r])
                   \/ Shared!Step(Seen(row[r]), Seen(row'[r]))
<1>0. /\ row \in [Runs -> Row] /\ row[r] \in Row /\ row'[r] \in Row
      /\ OwnedRow(row[r])
      /\ row'[r] = row[r] \/ SafeWrite(row[r], row'[r])
  <2>1. TypeInv'
    BY TypeStep DEF IInv
  <2> QED
    BY <2>1, StepWrites DEF IInv, TypeInv, TypeOK, WriteInv
<1>1. ASSUME NEW w \in Workers, RecoverCommit(w) PROVE Maps
  <2> DEFINE seen == worker[w].seen[r]
  <2>1. /\ seen \in Row /\ ReadOf(seen, row[r])
        /\ row'[r] = Flush(row[r], seen, Recovered(seen))
    BY <1>1 DEF RecoverCommit, IInv, TypeInv, TypeOK, WorkerState, WriteInv, WorkerInv
  <2>2. /\ row'[r].result = row[r].result
        /\ row'[r].status \in {row[r].status, "queued", "cancelled"}
    <3>1. Recovered(seen).result = seen.result
      BY <2>1 DEF Recovered, Row
    <3>2. Recovered(seen).status \in {seen.status, "queued", "cancelled"}
      BY <2>1 DEF Recovered, Row
    <3>3. /\ row'[r].result = Column(row[r].result, seen.result, Recovered(seen).result)
          /\ row'[r].status = Column(row[r].status, seen.status, Recovered(seen).status)
      BY <2>1 DEF Flush
    <3> QED
      BY <3>1, <3>2, <3>3 DEF Column
  <2>3. CASE row[r].status = "absent"
    <3>1. seen.status = "absent"
      BY <2>1, <2>3 DEF ReadOf
    <3>2. Recovered(seen) = seen
      BY <3>1 DEF Recovered
    <3> QED
      BY <2>1, <3>2 DEF Flush, Column, Seen
  <2> QED
    BY <1>0, <2>2, <2>3, WriteMaps
<1>2. ASSUME NEW w \in Workers, Claim(w) PROVE Maps
  <2>1. CASE row'[r] # row[r]
    <3>1. /\ row[r].status = "queued"
          /\ row'[r] = [row[r] EXCEPT !.status = "running", !.worker = w]
      BY <1>0, <1>2, <2>1 DEF Claim, IInv, TypeInv, PlaceInv, WellPlaced
    <3>2. Seen(row'[r]) = [Seen(row[r]) EXCEPT !.status = "running"]
      BY <1>0, <3>1 DEF Seen, Row
    <3> QED
      BY <3>1, <3>2 DEF Seen, Shared!Step, Shared!Claimed
  <2> QED
    BY <2>1
<1>3. ASSUME NEW w \in Workers, Commit(w) PROVE Maps
  <2> DEFINE me == worker[w]
             set == Finished(me.seen[r], me.out, me.payload)
  <2>1. CASE r = me.run
    <3>1. /\ me \in WorkerState /\ me.seen[r] \in Row
          /\ ReadOf(me.seen[r], row[r]) /\ me.seen[r].status # "absent"
          /\ me.out \in Solved \cup Failures
          /\ row'[r] = Flush(row[r], me.seen[r], set)
      BY <1>0, <1>3, <2>1 DEF Commit, IInv, TypeInv, TypeOK, WriteInv, WorkerInv,
                              WorkerState
    <3>2. row[r].status # "absent"
      BY <3>1 DEF ReadOf
    <3>3. CASE set.status \in Reported
      <4>1. row'[r].status = Column(row[r].status, me.seen[r].status, set.status)
        BY <3>1 DEF Flush
      <4>2. CASE row'[r].status \in Reported
        BY <1>0, <3>2, <4>2, WriteMaps
      <4>3. CASE row'[r].status \notin Reported
        <5>1. set.status = me.seen[r].status
          BY <3>3, <4>1, <4>3 DEF Column
        <5> QED
          BY <1>3, <2>1, <5>1, <3>3 DEF Commit, OpenInv
      <4> QED
        BY <4>2, <4>3
    <3>4. CASE set.status \notin Reported
      <4>1. /\ set.result = me.seen[r].result
            /\ set.status \in {"cancelled", "failed", "infeasible", "timed_out"}
        BY <3>1, <3>4 DEF Finished, PaidInv, Solved, Failures, Unexpected,
                          Reported, Row
      <4>2. /\ row'[r].result = row[r].result
            /\ row'[r].status \in {row[r].status, set.status}
        <5>1. /\ row'[r].result = Column(row[r].result, me.seen[r].result, set.result)
              /\ row'[r].status = Column(row[r].status, me.seen[r].status, set.status)
          BY <3>1 DEF Flush
        <5> QED
          BY <4>1, <5>1 DEF Column
      <4> QED
        BY <1>0, <3>2, <4>1, <4>2, WriteMaps
    <3> QED
      BY <3>3, <3>4
  <2>2. CASE r # me.run
    BY <1>0, <1>3, <2>2 DEF Commit
  <2> QED
    BY <2>1, <2>2
<1>4. ASSUME NEW c \in Clients, CreateCommit(c) PROVE Maps
  <2>1. CASE row'[r] # row[r]
    <3>1. /\ row[r].status = "absent"
          /\ row'[r] = NewRow(client[c].key, client[c].body)
      BY <1>0, <1>4, <2>1 DEF CreateCommit, Insert, Exists
    <3> QED
      BY <3>1 DEF NewRow, Absent, Seen, Shared!Step, Shared!Submitted,
                  Shared!Present, Shared!NoRun
  <2> QED
    BY <2>1
<1>5. ASSUME NEW c \in Clients, CancelCommit(c) PROVE Maps
  <2>1. CASE r = client[c].run
    <3>1. client[c].seen \in Row /\ row[r].status # "absent"
      BY <1>5, <2>1 DEF CancelCommit, IInv, TypeInv, TypeOK, ClientState, WriteInv
    <3>2. row'[r] = Flush(row[r], client[c].seen, Cancelled(client[c].seen))
      BY <1>0, <1>5, <2>1 DEF CancelCommit
    <3>3. /\ row'[r].result = row[r].result
          /\ row'[r].status \in {row[r].status, "cancelled", "cancel_requested"}
      BY <3>1, <3>2 DEF Flush, Column, Cancelled, Row
    <3> QED
      BY <1>0, <3>1, <3>3, WriteMaps
  <2>2. CASE r # client[c].run
    BY <1>0, <1>5, <2>2 DEF CancelCommit
  <2> QED
    BY <2>1, <2>2
<1>6. ASSUME UNCHANGED row PROVE Maps
  BY <1>6
<1> QED
  BY <1>1, <1>2, <1>3, <1>4, <1>5, <1>6
     DEF Next, WorkerStep, ClientStep, RecoverRead, SelectOldest, Solve,
         CompleteRead, FailRead, Crash, CreateFind, CancelRead, Age, vars

(* For any number of workers the queue is the lifecycle RunLifecycle       *)
(* describes: no interleaving of stale reads, late commits and recoveries  *)
(* makes a result vanish or a run move otherwise.                          *)
THEOREM LifecycleHolds == Spec => ImplementsLifecycleShared
<1>1. Init => Shared!Init /\ PaidInv /\ OpenInv
  BY DEF Init, Shared!Init, Shared!NoRun, Outside, Unread, Absent, PaidInv, OpenInv,
         Idle
<1>2. IInv /\ PaidInv /\ OpenInv /\ [Next]_vars
        => [Shared!Next]_<<Outside, TRUE>>
  <2> SUFFICES ASSUME IInv, PaidInv, OpenInv, [Next]_vars PROVE Shared!Next
    OBVIOUS
  <2>1. TypeInv'
    BY TypeStep DEF IInv
  <2>2. \A r \in Runs : Outside[r] = Seen(row[r]) /\ Outside'[r] = Seen(row'[r])
    BY DEF Outside, Seen
  <2>3. Outside' \in [Runs -> Shared!Run]
    BY <2>1 DEF TypeInv, TypeOK, Row, Outside, Shared!Run, Shared!Status, Status,
                Shared!Terminal, Terminal, Shared!Reported, Shared!Classified
  <2>4. \A r \in Runs : Outside'[r] = Outside[r]
                            \/ Shared!Step(Outside[r], Outside'[r])
    BY <2>2, StepMaps
  <2> QED
    BY <2>3, <2>4 DEF Shared!Next
<1>3. IInv /\ PaidInv /\ OpenInv /\ [Next]_vars => PaidInv' /\ OpenInv'
  BY PaidStep, OpenStep DEF IInv
<1> QED
  BY <1>1, <1>2, <1>3, Invariant, PTL
     DEF Spec, ImplementsLifecycleShared, Shared!Spec
-----------------------------------------------------------------------------
(* RunQueue as it is deployed, with one worker process: for any number of  *)
(* request threads, runs, crashes and recoveries.                          *)
OneWorker == \A v, w \in Workers : v = w

(* Nothing has been written about the outcome of the run.                  *)
Blank(x) == x.code = "none" /\ x.result = None

(* A run the worker is at may meanwhile have been cancelled, and no more.  *)
InHand(x) == Blank(x) /\ x.status \in {"running", "cancel_requested", "cancelled"}

RowInv(x) ==
    /\ x.status \in {"absent", "queued", "running"} => Blank(x)
    /\ x.status \in Terminal \ {"cancelled"} =>
           [status |-> x.status, code |-> x.code] \in Solved \cup Failures

PlaceOf(s, rows) ==
    /\ s.pc \in {"solve", "complete", "fail", "commit"} => InHand(rows[s.run])
    /\ s.pc = "commit" => /\ s.seen[s.run].status \in {"running", "cancel_requested"}
                          /\ Blank(s.seen[s.run])
    /\ s.pc = "recover" => \A r \in Runs : s.seen[r].status = "running" =>
                               Blank(s.seen[r]) /\ InHand(rows[r])

AloneInv ==
    /\ \A r \in Runs : RowInv(row[r])
    /\ \A c \in Clients : client[c].pc = "cancel" =>
           client[c].seen.status \in {"queued", "running"} /\ Blank(client[c].seen)
    /\ \A w \in Workers : PlaceOf(worker[w], row)
-----------------------------------------------------------------------------
(* What the writes make of a row. *)

LEMMA CancelLeaves ==
    ASSUME NEW now \in Row, NEW old \in Row,
           old.status \in {"queued", "running"}, Blank(old)
    PROVE  LET next == Flush(now, old, Cancelled(old))
           IN  /\ next.status \in {"cancelled", "cancel_requested"}
               /\ next.code = now.code /\ next.result = now.result
BY DEF Flush, Column, Cancelled, Blank, Row

LEMMA CommitLeaves ==
    ASSUME NEW now \in Row, NEW old \in Row, InHand(now), Blank(old),
           old.status \in {"running", "cancel_requested"},
           NEW out \in Solved \cup Failures, NEW payload \in Payloads \cup {None}
    PROVE  LET next == Flush(now, old, Finished(old, out, payload))
           IN  \/ next.status = "cancelled" /\ next.result = None
               \/ /\ next.status = out.status /\ next.code = out.code
                  /\ next.result = payload
<1>1. out.status \notin {"running", "cancel_requested"}
  BY DEF Solved, Failures, Unexpected
<1>2. CASE old.status = "cancel_requested"
  <2>1. Finished(old, out, payload) = [old EXCEPT !.status = "cancelled",
                                                  !.code = "operator_cancelled"]
    BY <1>2 DEF Finished
  <2> QED
    BY <1>2, <2>1 DEF Flush, Column, InHand, Blank, Row
<1>3. CASE old.status = "running"
  <2>1. /\ Finished(old, out, payload).status = out.status
        /\ Finished(old, out, payload).code = out.code
        /\ Finished(old, out, payload).result = payload
    BY <1>3 DEF Finished, Blank, Row
  <2> QED
    BY <1>1, <1>3, <2>1 DEF Flush, Column, InHand, Blank
<1> QED
  BY <1>2, <1>3

LEMMA RecoveryLeaves ==
    ASSUME NEW now \in Row, NEW old \in Row
    PROVE  LET next == Flush(now, old, Recovered(old))
           IN  /\ old.status = "running" =>
                      /\ next.status = "queued"
                      /\ next.code = now.code /\ next.result = now.result
               /\ old.status = "cancel_requested" =>
                      next.status = "cancelled" /\ next.result = now.result
               /\ old.status \notin {"running", "cancel_requested"} => next = now
<1>1. CASE old.status = "running"
  <2>1. Recovered(old) = [old EXCEPT !.status = "queued", !.worker = None,
                                     !.recoveries = old.recoveries + 1]
    BY <1>1 DEF Recovered
  <2> QED
    BY <1>1, <2>1 DEF Flush, Column, Row
<1>2. CASE old.status = "cancel_requested"
  BY <1>2 DEF Recovered, Flush, Column, Row
<1>3. CASE old.status \notin {"running", "cancel_requested"}
  BY <1>3 DEF Recovered, Flush, Column, Row
<1> QED
  BY <1>1, <1>2, <1>3

(* The rows after any step, whoever takes it. *)
LEMMA AloneWrites ==
    ASSUME OneWorker, IInv, PaidInv, AloneInv, [Next]_vars, NEW r \in Runs
    PROVE  /\ RowInv(row'[r])
           /\ \/ Seen(row'[r]) = Seen(row[r])
              \/ Alone!Step(Seen(row[r]), Seen(row'[r]))
<1> DEFINE Maps == \/ Seen(row'[r]) = Seen(row[r])
                   \/ Alone!Step(Seen(row[r]), Seen(row'[r]))
<1>0. /\ row \in [Runs -> Row] /\ row[r] \in Row /\ RowInv(row[r])
      /\ worker \in [Workers -> WorkerState] /\ client \in [Clients -> ClientState]
      /\ OwnedRow(row[r])
  BY DEF IInv, TypeInv, TypeOK, WriteInv, AloneInv
<1>1. ASSUME NEW w \in Workers, RecoverCommit(w) PROVE RowInv(row'[r]) /\ Maps
  <2> DEFINE seen == worker[w].seen[r]
  <2>1. /\ seen \in Row /\ row'[r] = Flush(row[r], seen, Recovered(seen))
        /\ seen.status = "running" => InHand(row[r])
        /\ seen.status # "absent" => row[r].status # "absent"
    BY <1>0, <1>1 DEF RecoverCommit, WorkerState, AloneInv, PlaceOf,
                      IInv, WriteInv, WorkerInv, ReadOf
  <2> HIDE DEF seen
  <2>2. CASE seen.status = "running"
    <3>1. /\ row'[r].status = "queued" /\ InHand(row[r])
          /\ row'[r].code = row[r].code /\ row'[r].result = row[r].result
      BY <1>0, <2>1, <2>2, RecoveryLeaves
    <3>2. RowInv(row'[r])
      BY <3>1 DEF RowInv, InHand, Blank, Terminal
    <3>3. Seen(row'[r]) = [Seen(row[r]) EXCEPT !.status = "queued"]
      BY <3>1 DEF Seen
    <3>4. Alone!Requeued(Seen(row[r]), Seen(row'[r]))
      BY <3>1, <3>3 DEF Seen, InHand, Blank, Alone!Requeued, Alone!Present, Alone!Open
    <3> QED
      BY <3>2, <3>4 DEF Alone!Step
  <2>3. CASE seen.status = "cancel_requested"
    <3>1. /\ row'[r].status = "cancelled" /\ row'[r].result = row[r].result
          /\ row[r].status # "absent"
      BY <1>0, <2>1, <2>3, RecoveryLeaves
    <3>2. RowInv(row'[r])
      BY <3>1 DEF RowInv
    <3>3. Seen(row'[r]) = [Seen(row[r]) EXCEPT !.status = "cancelled"]
      BY <3>1 DEF Seen
    <3>4. Alone!CancelWritten(Seen(row[r]), Seen(row'[r]))
      BY <3>1, <3>3 DEF Seen, Alone!CancelWritten, Alone!Present
    <3> QED
      BY <3>2, <3>4 DEF Alone!Step
  <2>4. CASE seen.status \notin {"running", "cancel_requested"}
    BY <1>0, <2>1, <2>4, RecoveryLeaves
  <2> QED
    BY <2>2, <2>3, <2>4
<1>2. ASSUME NEW w \in Workers, Claim(w) PROVE RowInv(row'[r]) /\ Maps
  <2>1. CASE row'[r] # row[r]
    <3>1. /\ row[r].status = "queued"
          /\ row'[r] = [row[r] EXCEPT !.status = "running", !.worker = w]
      BY <1>0, <1>2, <2>1 DEF Claim, IInv, TypeInv, PlaceInv, WellPlaced
    <3>2. /\ row'[r].status = "running" /\ row'[r].code = row[r].code
          /\ row'[r].result = row[r].result
      BY <1>0, <3>1 DEF Row
    <3>3. RowInv(row'[r])
      BY <1>0, <3>1, <3>2 DEF RowInv, Blank, Terminal
    <3>4. Seen(row'[r]) = [Seen(row[r]) EXCEPT !.status = "running"]
      BY <3>2 DEF Seen
    <3>5. Alone!Claimed(Seen(row[r]), Seen(row'[r]))
      BY <3>1, <3>4 DEF Seen, Alone!Claimed
    <3> QED
      BY <3>3, <3>5 DEF Alone!Step
  <2> QED
    BY <1>0, <2>1
<1>3. ASSUME NEW w \in Workers, Commit(w) PROVE RowInv(row'[r]) /\ Maps
  <2> DEFINE me == worker[w]
  <2>1. CASE r = me.run
    <3>1. /\ me.seen[r] \in Row /\ me.out \in Solved \cup Failures
          /\ me.payload \in Payloads \cup {None}
          /\ row'[r] = Flush(row[r], me.seen[r], Finished(me.seen[r], me.out, me.payload))
      BY <1>0, <1>3, <2>1 DEF Commit, WorkerState
    <3>2. /\ InHand(row[r]) /\ Blank(me.seen[r])
          /\ me.seen[r].status \in {"running", "cancel_requested"}
          /\ me.out.status \in Reported <=> me.payload # None
      <4>1. me.payload # None => me.out.status \in Reported
        BY DEF PaidInv
      <4>2. me.out.status \in Reported => me.payload # None
        BY DEF IInv, WriteInv, WorkerInv
      <4> QED
        BY <1>3, <2>1, <4>1, <4>2 DEF Commit, AloneInv, PlaceOf
    <3> HIDE DEF me
    <3>3. \/ row'[r].status = "cancelled" /\ row'[r].result = None
          \/ /\ row'[r].status = me.out.status /\ row'[r].code = me.out.code
             /\ row'[r].result = me.payload
      BY <1>0, <3>1, <3>2, CommitLeaves
    <3>4. CASE row'[r].status = "cancelled" /\ row'[r].result = None
      <4>1. Seen(row'[r]) = [Seen(row[r]) EXCEPT !.status = "cancelled"]
        BY <3>2, <3>4 DEF Seen, InHand, Blank
      <4>2. Alone!CancelWritten(Seen(row[r]), Seen(row'[r]))
        BY <3>2, <4>1 DEF Seen, InHand, Alone!CancelWritten, Alone!Present
      <4> QED
        BY <3>4, <4>2 DEF Alone!Step, RowInv
    <3>5. CASE /\ row'[r].status = me.out.status /\ row'[r].code = me.out.code
               /\ row'[r].result = me.payload
      <4>1. /\ [status |-> me.out.status, code |-> me.out.code] = me.out
            /\ me.out.status \in Reported \cup {"failed", "infeasible", "timed_out"}
        BY <3>1 DEF Solved, Failures, Unexpected, Reported
      <4>2. RowInv(row'[r])
        BY <3>1, <3>5, <4>1 DEF RowInv, Reported
      <4>3. CASE me.out.status \in Reported
        <5>1. Alone!Reports(Seen(row[r]), Seen(row'[r]))
          BY <3>1, <3>2, <3>5, <4>3
             DEF Seen, InHand, Blank, Alone!Reports, Alone!Present, Alone!Open,
                 Alone!Reported, Reported
        <5> QED
          BY <4>2, <5>1 DEF Alone!Step
      <4>4. CASE me.out.status \notin Reported
        <5>1. me.out.status \in {"failed", "infeasible", "timed_out"}
          BY <4>1, <4>4
        <5>2. Seen(row'[r]) = [Seen(row[r]) EXCEPT !.status = me.out.status]
          BY <3>2, <3>5, <4>4 DEF Seen, InHand, Blank
        <5>3. Alone!Fails(Seen(row[r]), Seen(row'[r]))
          BY <3>2, <5>1, <5>2 DEF Seen, InHand, Blank, Alone!Fails, Alone!Present,
                                  Alone!Open, Alone!Classified
        <5> QED
          BY <4>2, <5>3 DEF Alone!Step
      <4> QED
        BY <4>3, <4>4
    <3> QED
      BY <3>3, <3>4, <3>5
  <2>2. CASE r # me.run
    BY <1>0, <1>3, <2>2 DEF Commit
  <2> QED
    BY <2>1, <2>2
<1>4. ASSUME NEW c \in Clients, CreateCommit(c) PROVE RowInv(row'[r]) /\ Maps
  <2>1. CASE row'[r] # row[r]
    <3>1. /\ row[r].status = "absent"
          /\ row'[r] = NewRow(client[c].key, client[c].body)
      BY <1>0, <1>4, <2>1 DEF CreateCommit, Insert, Exists
    <3>2. RowInv(row'[r])
      BY <3>1 DEF NewRow, Absent, RowInv, Blank, Terminal
    <3>3. Alone!Submitted(Seen(row[r]), Seen(row'[r]))
      BY <3>1 DEF NewRow, Absent, Seen, Alone!Submitted, Alone!Present, Alone!NoRun
    <3> QED
      BY <3>2, <3>3 DEF Alone!Step
  <2> QED
    BY <1>0, <2>1
<1>5. ASSUME NEW c \in Clients, CancelCommit(c) PROVE RowInv(row'[r]) /\ Maps
  <2>1. CASE r = client[c].run
    <3>1. /\ client[c].seen \in Row /\ row[r].status # "absent"
          /\ client[c].seen.status \in {"queued", "running"} /\ Blank(client[c].seen)
          /\ row'[r] = Flush(row[r], client[c].seen, Cancelled(client[c].seen))
      BY <1>0, <1>5, <2>1 DEF CancelCommit, ClientState, IInv, WriteInv, AloneInv
    <3>2. /\ row'[r].status \in {"cancelled", "cancel_requested"}
          /\ row'[r].result = row[r].result
      BY <1>0, <3>1, CancelLeaves
    <3>3. Seen(row'[r]) = [Seen(row[r]) EXCEPT !.status = row'[r].status]
      BY <3>2 DEF Seen
    <3>4. Alone!CancelWritten(Seen(row[r]), Seen(row'[r]))
      BY <3>1, <3>2, <3>3 DEF Seen, Alone!CancelWritten, Alone!Present
    <3> QED
      BY <3>2, <3>4 DEF Alone!Step, RowInv, Terminal
  <2>2. CASE r # client[c].run
    BY <1>0, <1>5, <2>2 DEF CancelCommit
  <2> QED
    BY <2>1, <2>2
<1>6. ASSUME UNCHANGED row PROVE RowInv(row'[r]) /\ Maps
  BY <1>0, <1>6
<1> QED
  BY <1>1, <1>2, <1>3, <1>4, <1>5, <1>6
     DEF Next, WorkerStep, ClientStep, RecoverRead, SelectOldest, Solve,
         CompleteRead, FailRead, Crash, CreateFind, CancelRead, Age, vars
-----------------------------------------------------------------------------
(* What another process finds in the run the worker has in hand.           *)
LEMMA StaysInHand ==
    ASSUME IInv, AloneInv, NEW r \in Runs, InHand(row[r]),
           NEW c \in Clients, ClientStep(c)
    PROVE  InHand(row'[r])
<1>0. row \in [Runs -> Row] /\ row[r] \in Row /\ client \in [Clients -> ClientState]
  BY DEF IInv, TypeInv, TypeOK
<1>1. CASE CreateCommit(c)
  <2>1. row'[r] = row[r]
    BY <1>0, <1>1 DEF CreateCommit, Insert, Exists, InHand
  <2> QED
    BY <2>1
<1>2. CASE CancelCommit(c)
  <2>1. CASE r = client[c].run
    <3>1. /\ client[c].seen \in Row
          /\ client[c].seen.status \in {"queued", "running"} /\ Blank(client[c].seen)
          /\ row'[r] = Flush(row[r], client[c].seen, Cancelled(client[c].seen))
      BY <1>0, <1>2, <2>1 DEF CancelCommit, ClientState, AloneInv
    <3> QED
      BY <1>0, <3>1, CancelLeaves DEF InHand, Blank
  <2>2. CASE r # client[c].run
    BY <1>0, <1>2, <2>2 DEF CancelCommit
  <2> QED
    BY <2>1, <2>2
<1>3. CASE UNCHANGED row
  BY <1>3
<1> QED
  BY <1>1, <1>2, <1>3 DEF ClientStep, CreateFind, CancelRead

(* What a request thread has read to cancel it. *)
LEMMA ReadsStay ==
    ASSUME IInv, AloneInv, [Next]_vars, NEW c \in Clients,
           client'[c].pc = "cancel"
    PROVE  client'[c].seen.status \in {"queued", "running"} /\ Blank(client'[c].seen)
<1>0. client \in [Clients -> ClientState] /\ row \in [Runs -> Row]
  BY DEF IInv, TypeInv, TypeOK
<1>1. CASE client'[c] = client[c]
  BY <1>1 DEF AloneInv
<1>2. Free.pc # "cancel" /\ \A k, b : [Free EXCEPT !.pc = "insert", !.key = k,
                                                   !.body = b].pc # "cancel"
  BY DEF Free
<1>3. ASSUME NEW d \in Clients, ClientStep(d), client'[c] # client[c]
      PROVE  \E r \in Runs : CancelRead(c, r)
  <2>1. d = c
    BY <1>0, <1>3 DEF ClientStep, CreateFind, CreateCommit, CancelRead, CancelCommit
  <2>2. ~CreateCommit(c) /\ ~CancelCommit(c)
    <3>1. CASE CreateCommit(c) \/ CancelCommit(c)
      <4>1. client'[c] = Free
        BY <1>0, <3>1 DEF CreateCommit, CancelCommit
      <4> QED
        BY <1>2, <4>1
    <3> QED
      BY <3>1
  <2>3. ASSUME NEW k, NEW b, CreateFind(c, k, b) PROVE FALSE
    <3>1. client'[c] = [Free EXCEPT !.pc = "insert", !.key = k, !.body = b]
      BY <1>0, <1>3, <2>3 DEF CreateFind
    <3> QED
      BY <1>2, <3>1
  <2> QED
    BY <1>3, <2>1, <2>2, <2>3 DEF ClientStep
<1>4. ASSUME NEW r \in Runs, CancelRead(c, r)
      PROVE  client'[c].seen.status \in {"queued", "running"} /\ Blank(client'[c].seen)
  <2>1. client'[c].seen = row[r] /\ row[r].status \in {"queued", "running"}
    BY <1>0, <1>4 DEF CancelRead, Free
  <2> QED
    BY <2>1 DEF AloneInv, RowInv
<1>5. CASE UNCHANGED client
  BY <1>1, <1>5
<1> QED
  BY <1>1, <1>3, <1>4, <1>5
     DEF Next, WorkerStep, RecoverRead, RecoverCommit, SelectOldest, Claim, Solve,
         CompleteRead, FailRead, Commit, Crash, Age, vars

(* Where a step of the worker leaves it. *)
LEMMA WorkerStays ==
    ASSUME IInv, AloneInv, NEW w \in Workers, WorkerStep(w) \/ Crash(w)
    PROVE  PlaceOf(worker'[w], row')
<1> DEFINE me == worker[w]
<1>0. /\ row \in [Runs -> Row] /\ worker \in [Workers -> WorkerState]
      /\ me \in WorkerState /\ PlaceOf(me, row)
      /\ me.pc \in {"claim", "solve", "complete", "fail", "commit"} => me.run \in Runs
  BY DEF IInv, TypeInv, TypeOK, PlaceInv, WellPlaced, AloneInv
<1>1. ASSUME NEW s, Goes(w, s) PROVE worker'[w] = s
  BY <1>0, <1>1 DEF Goes
<1>2. ASSUME NEW s, worker'[w] = s, s.pc \in {"idle", "select", "claim"}
      PROVE  PlaceOf(worker'[w], row')
  BY <1>2 DEF PlaceOf
<1>3. /\ Idle.pc = "idle" /\ [Idle EXCEPT !.pc = "select"].pc = "select"
      /\ \A pc : [Idle EXCEPT !.pc = pc].pc = pc
      /\ \A r : [Idle EXCEPT !.pc = "claim", !.run = r].pc = "claim"
  BY DEF Idle
<1>4. CASE RecoverRead(w)
  <2>1. CASE Due = {}
    BY <1>1, <1>2, <1>3, <1>4, <2>1 DEF RecoverRead
  <2>2. CASE Due # {}
    <3> DEFINE s == [Idle EXCEPT !.pc = "recover", !.seen = Loaded(Due)]
    <3>1. worker'[w] = s /\ row' = row
      BY <1>1, <1>4, <2>2 DEF RecoverRead
    <3>2. s.pc = "recover" /\ s.seen = Loaded(Due)
      BY DEF Idle
    <3>3. ASSUME NEW r \in Runs, Loaded(Due)[r].status = "running"
          PROVE  Blank(Loaded(Due)[r]) /\ InHand(row[r])
      <4>1. Loaded(Due)[r] = row[r] /\ row[r].status = "running"
        BY <3>3 DEF Loaded, Absent
      <4> QED
        BY <4>1 DEF AloneInv, RowInv, InHand
    <3> QED
      BY <3>1, <3>2, <3>3 DEF PlaceOf
  <2> QED
    BY <2>1, <2>2
<1>5. CASE RecoverCommit(w) \/ SelectOldest(w) \/ Crash(w) \/ Commit(w)
  <2>1. CASE RecoverCommit(w)
    BY <1>1, <1>2, <1>3, <2>1 DEF RecoverCommit
  <2>2. CASE SelectOldest(w)
    <3>1. \/ worker'[w] = Idle
          \/ \E r : worker'[w] = [Idle EXCEPT !.pc = "claim", !.run = r]
      BY <1>1, <2>2 DEF SelectOldest
    <3> QED
      BY <1>2, <1>3, <3>1
  <2>3. CASE Crash(w) \/ Commit(w)
    BY <1>1, <1>2, <1>3, <2>3 DEF Crash, Commit
  <2> QED
    BY <1>5, <2>1, <2>2, <2>3
<1>6. CASE Claim(w)
  <2>1. CASE row[me.run].status = "queued"
    <3>1. worker'[w] = [me EXCEPT !.pc = "solve"]
      BY <1>1, <1>6, <2>1 DEF Claim
    <3>2. worker'[w].pc = "solve" /\ worker'[w].run = me.run
      BY <1>0, <3>1 DEF WorkerState
    <3>3. me.run \in Runs /\ row[me.run] \in Row
      BY <1>0, <1>6 DEF Claim
    <3>4. row'[me.run] = [row[me.run] EXCEPT !.status = "running", !.worker = w]
      BY <1>0, <1>6, <2>1, <3>3 DEF Claim
    <3>5. InHand(row'[me.run])
      BY <2>1, <3>3, <3>4 DEF AloneInv, RowInv, InHand, Blank, Row
    <3> QED
      BY <3>2, <3>5 DEF PlaceOf
  <2>2. CASE row[me.run].status # "queued"
    <3>1. PICK pc \in {"select", "idle"} : worker'[w] = [Idle EXCEPT !.pc = pc]
      BY <1>1, <1>6, <2>2 DEF Claim
    <3>2. [Idle EXCEPT !.pc = pc].pc \in {"idle", "select", "claim"}
      <4>1. [Idle EXCEPT !.pc = pc].pc = pc
        BY <1>3
      <4> QED
        BY <4>1
    <3>3. PICK s : s = [Idle EXCEPT !.pc = pc]
      OBVIOUS
    <3> QED
      BY <1>2, <3>1, <3>2, <3>3, Zenon
  <2> QED
    BY <2>1, <2>2
<1>7. CASE Solve(w)
  <2>1. /\ worker'[w].run = me.run /\ worker'[w].pc \in {"complete", "fail"}
        /\ row' = row
    <3>1. /\ \A o, p : [me EXCEPT !.pc = "complete", !.out = o, !.payload = p].run = me.run
          /\ \A o, p : [me EXCEPT !.pc = "complete", !.out = o,
                                  !.payload = p].pc = "complete"
          /\ \A o : [me EXCEPT !.pc = "fail", !.out = o].run = me.run
          /\ \A o : [me EXCEPT !.pc = "fail", !.out = o].pc = "fail"
      BY <1>0 DEF WorkerState
    <3>2. \/ \E o, p : worker'[w] = [me EXCEPT !.pc = "complete", !.out = o, !.payload = p]
          \/ \E o : worker'[w] = [me EXCEPT !.pc = "fail", !.out = o]
      BY <1>1, <1>7 DEF Solve
    <3>3. row' = row
      BY <1>7 DEF Solve
    <3> HIDE DEF me
    <3>4. CASE \E o, p : worker'[w] = [me EXCEPT !.pc = "complete", !.out = o,
                                                 !.payload = p]
      BY <3>1, <3>3, <3>4
    <3>5. CASE \E o : worker'[w] = [me EXCEPT !.pc = "fail", !.out = o]
      BY <3>1, <3>3, <3>5
    <3> QED
      BY <3>2, <3>4, <3>5
  <2>2. InHand(row[me.run])
    BY <1>0, <1>7 DEF Solve, PlaceOf
  <2> QED
    BY <2>1, <2>2 DEF PlaceOf
<1>8. CASE CompleteRead(w) \/ FailRead(w)
  <2>1. me.run \in Runs /\ InHand(row[me.run]) /\ row' = row
    BY <1>0, <1>8 DEF CompleteRead, FailRead, PlaceOf
  <2> DEFINE reads == [me EXCEPT !.pc = "commit", !.seen = Loaded({me.run})]
             ends == [me EXCEPT !.pc = "fail", !.out = Unexpected, !.payload = None]
  <2>2. /\ reads.pc = "commit" /\ reads.run = me.run
        /\ reads.seen[me.run] = row[me.run]
        /\ ends.pc = "fail" /\ ends.run = me.run
    BY <1>0, <2>1 DEF WorkerState, Loaded
  <2>3. \/ /\ worker'[w] = reads
           /\ row[me.run].status \in {"running", "cancel_requested"}
        \/ worker'[w] = ends
        \/ worker'[w] = Idle
    <3>1. CASE CompleteRead(w)
      BY <1>1, <3>1 DEF CompleteRead
    <3>2. CASE FailRead(w)
      <4>1. Allowed["cancelled"] = {}
        BY DEF Allowed, Status, Terminal
      <4> QED
        BY <1>1, <2>1, <3>2, <4>1 DEF FailRead, InHand
    <3> QED
      BY <1>8, <3>1, <3>2
  <2> HIDE DEF reads, ends, me
  <2>4. CASE worker'[w] = reads /\ row[me.run].status \in {"running", "cancel_requested"}
    BY <2>1, <2>2, <2>4 DEF PlaceOf, InHand
  <2>5. CASE worker'[w] = ends
    BY <2>1, <2>2, <2>5 DEF PlaceOf
  <2> QED
    BY <1>2, <1>3, <2>3, <2>4, <2>5
<1> QED
  BY <1>4, <1>5, <1>6, <1>7, <1>8 DEF WorkerStep

LEMMA AloneStep ==
    ASSUME OneWorker, IInv, PaidInv, AloneInv, [Next]_vars
    PROVE  AloneInv'
<1>1. \A r \in Runs : RowInv(row'[r])
  BY AloneWrites
<1>2. \A c \in Clients : client'[c].pc = "cancel" =>
          client'[c].seen.status \in {"queued", "running"} /\ Blank(client'[c].seen)
  BY ReadsStay
<1>3. ASSUME NEW w \in Workers PROVE PlaceOf(worker'[w], row')
  <2>0. PlaceOf(worker[w], row) /\ (worker[w].pc \in {"solve", "complete", "fail", "commit"}
                                        => worker[w].run \in Runs)
    BY DEF AloneInv, IInv, TypeInv, PlaceInv, WellPlaced
  <2>1. CASE \E v \in Workers : WorkerStep(v) \/ Crash(v)
    BY <2>1, WorkerStays DEF OneWorker
  <2>2. CASE \E c \in Clients : ClientStep(c)
    <3>1. worker' = worker
      BY <2>2 DEF ClientStep, CreateFind, CreateCommit, CancelRead, CancelCommit
    <3>2. \A r \in Runs : InHand(row[r]) => InHand(row'[r])
      BY <2>2, StaysInHand
    <3> QED
      BY <2>0, <3>1, <3>2 DEF PlaceOf
  <2>3. CASE UNCHANGED <<worker, row>>
    BY <2>0, <2>3 DEF PlaceOf
  <2> QED
    BY <2>1, <2>2, <2>3 DEF Next, Age, vars
<1> QED
  BY <1>1, <1>2, <1>3 DEF AloneInv

LEMMA AloneInit == Init => AloneInv /\ PaidInv
BY DEF Init, AloneInv, RowInv, PlaceOf, Blank, PaidInv, Unread, Absent, Idle, Free,
       Terminal

LEMMA AloneInvariant ==
    ASSUME OneWorker
    PROVE  Spec => [](AloneInv /\ PaidInv)
<1>1. IInv /\ AloneInv /\ PaidInv /\ [Next]_vars => AloneInv' /\ PaidInv'
  BY AloneStep, PaidStep DEF IInv
<1> QED
  BY <1>1, AloneInit, Invariant, PTL DEF Spec

(* With one worker process the failure code of an ended run is the one of  *)
(* its status: late cancellations, crashes and recoveries never mix the    *)
(* columns of two outcomes (fail, _complete_with_result).                  *)
THEOREM OutcomeHolds ==
    ASSUME OneWorker
    PROVE  Spec => []OutcomeIsCoherent
<1>1. AloneInv => OutcomeIsCoherent
  BY DEF AloneInv, RowInv, OutcomeIsCoherent
<1> QED
  BY <1>1, AloneInvariant, PTL

(* With one worker process a committed result is never replaced, whatever  *)
(* is cancelled or recovered around it.                                    *)
THEOREM ResultStays ==
    ASSUME OneWorker
    PROVE  Spec => ResultIsFinal
<1>1. IInv /\ AloneInv /\ PaidInv /\ [Next]_vars
        => \A r \in Runs : row[r].result # None => row'[r].result = row[r].result
  <2> SUFFICES ASSUME IInv, AloneInv, PaidInv, [Next]_vars, NEW r \in Runs,
                      row[r].result # None
               PROVE  row'[r].result = row[r].result
    OBVIOUS
  <2>1. /\ Seen(row[r]).result = row[r].result /\ Seen(row'[r]).result = row'[r].result
        /\ Seen(row[r]).status = row[r].status
    BY DEF Seen
  <2>2. OwnedRow(row[r])
    BY DEF IInv, WriteInv
  <2>3. CASE Seen(row'[r]) = Seen(row[r])
    BY <2>1, <2>3
  <2>4. CASE Alone!Step(Seen(row[r]), Seen(row'[r]))
    <3>1. /\ ~Alone!Submitted(Seen(row[r]), Seen(row'[r]))
          /\ ~Alone!Requeued(Seen(row[r]), Seen(row'[r]))
          /\ ~Alone!Reports(Seen(row[r]), Seen(row'[r]))
          /\ ~Alone!Fails(Seen(row[r]), Seen(row'[r]))
      BY <2>1, <2>2 DEF Alone!Submitted, Alone!Requeued, Alone!Reports, Alone!Fails,
                        Alone!Open, Alone!Present, OwnedRow, Absent
    <3>2. CASE Alone!Claimed(Seen(row[r]), Seen(row'[r]))
      BY <2>1, <3>2 DEF Alone!Claimed, Seen
    <3>3. CASE Alone!CancelWritten(Seen(row[r]), Seen(row'[r]))
      BY <2>1, <3>3 DEF Alone!CancelWritten, Seen
    <3> QED
      BY <2>4, <3>1, <3>2, <3>3 DEF Alone!Step
  <2> QED
    BY <2>3, <2>4, AloneWrites
<1>2. IInv /\ AloneInv /\ PaidInv /\ [Next]_vars
        => [\A r \in Runs : row[r].result # None
                => row'[r].result = row[r].result]_vars
  BY <1>1
<1> QED
  BY <1>2, AloneInvariant, Invariant, PTL DEF Spec, ResultIsFinal

(* With one worker process the queue is the lifecycle of an unshared       *)
(* deployment: a result is committed once, and a run that has one is never *)
(* claimed, requeued or ended again.                                       *)
THEOREM LifecycleAloneHolds ==
    ASSUME OneWorker
    PROVE  Spec => ImplementsLifecycleAlone
<1>1. Init => Alone!Init
  BY DEF Init, Alone!Init, Alone!NoRun, Outside, Unread, Absent
<1>2. IInv /\ AloneInv /\ PaidInv /\ [Next]_vars => [Alone!Next]_<<Outside, FALSE>>
  <2> SUFFICES ASSUME IInv, AloneInv, PaidInv, [Next]_vars PROVE Alone!Next
    OBVIOUS
  <2>1. TypeInv'
    BY TypeStep DEF IInv
  <2>2. \A r \in Runs : Outside[r] = Seen(row[r]) /\ Outside'[r] = Seen(row'[r])
    BY DEF Outside, Seen
  <2>3. Outside' \in [Runs -> Alone!Run]
    BY <2>1 DEF TypeInv, TypeOK, Row, Outside, Alone!Run, Alone!Status, Status,
                Alone!Terminal, Terminal, Alone!Reported, Alone!Classified
  <2>4. \A r \in Runs : Outside'[r] = Outside[r]
                            \/ Alone!Step(Outside[r], Outside'[r])
    BY <2>2, AloneWrites
  <2> QED
    BY <2>3, <2>4 DEF Alone!Next
<1> QED
  BY <1>1, <1>2, AloneInvariant, Invariant, PTL
     DEF Spec, ImplementsLifecycleAlone, Alone!Spec
=============================================================================
