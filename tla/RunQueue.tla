------------------------------ MODULE RunQueue ------------------------------
(***************************************************************************)
(* The durable optimization queue: the table optimization_runs, the worker *)
(* processes that claim, solve and finish its rows, and the API requests   *)
(* that create and cancel them.                                            *)
(*                                                                         *)
(* Every repository operation is a transaction that READS a row and later  *)
(* WRITES it back by primary key at READ COMMITTED.  Nothing locks the row *)
(* in between and no version column guards the write, so a read and the    *)
(* commit that follows it are two steps here.  Only the claim is a guarded *)
(* UPDATE.  A crash, a restart and a stale heartbeat may fall anywhere.    *)
(***************************************************************************)
EXTENDS Naturals, FiniteSets

CONSTANTS
    Workers,        \* worker processes
    Clients,        \* API request threads
    Keys,           \* idempotency keys
    Bodies,         \* request fingerprints
    Payloads,       \* optimization results, told apart by their hash
    None,           \* SQL NULL
    MaxRuns,        \* bound: rows created
    MaxCrashes,     \* bound: worker crashes
    MaxRecoveries,  \* bound: recovery_count of a row
    OutlastsThreshold \* may a solve outlast the stale-claim threshold?

ASSUME ConstantsAssumption ==
    /\ None \notin Workers \cup Keys \cup Bodies \cup Payloads
    /\ MaxRuns \in Nat /\ MaxCrashes \in Nat /\ MaxRecoveries \in Nat
    /\ OutlastsThreshold \in BOOLEAN

VARIABLES
    row,      \* the table: Runs -> Row
    stale,    \* runs whose heartbeat is older than the threshold
    worker,   \* per worker: where execute_one stands and what it read
    client,   \* per request thread: the operation in progress and its read
    served,   \* every (key, fingerprint, run) answered to a keyed create request
    crashes   \* worker crashes so far

vars == <<row, stale, worker, client, served, crashes>>
-----------------------------------------------------------------------------
(* The rows and their states. *)

Runs == 1..MaxRuns   \* numbered in the order of created_at

Terminal == {"succeeded", "failed", "infeasible", "timed_out", "cancelled",
             "degraded"}
Status == {"absent", "queued", "running", "cancel_requested"} \cup Terminal

Allowed ==
    [s \in Status |->
        CASE s = "queued" -> {"running", "cancelled", "failed"}
          [] s = "running" -> {"succeeded", "failed", "infeasible",
                               "timed_out", "cancel_requested", "degraded"}
          [] s = "cancel_requested" -> {"cancelled", "succeeded", "failed"}
          [] OTHER -> {}]

Codes == {"none", "operator_cancelled", "deterministic_validation_failed",
          "optimization_infeasible", "solver_time_limit",
          "run_rejected", "unexpected_worker_error"}

Row == [status : Status, worker : Workers \cup {None},
        result : Payloads \cup {None}, code : Codes,
        recoveries : 0..MaxRecoveries,
        key : Keys \cup {None}, body : Bodies \cup {None}]

Absent == [status |-> "absent", worker |-> None, result |-> None,
           code |-> "none", recoveries |-> 0, key |-> None, body |-> None]

Exists(r) == row[r].status # "absent"

(* How execute_one can end: a validated or a degraded result, or one of the *)
(* failures its except clauses classify (input, notice, result and         *)
(* configuration errors share one code here).                              *)
Solved == {[status |-> "succeeded", code |-> "none"],
           [status |-> "degraded", code |-> "deterministic_validation_failed"]}
Unexpected == [status |-> "failed", code |-> "unexpected_worker_error"]
Failures == {[status |-> "infeasible", code |-> "optimization_infeasible"],
             [status |-> "timed_out", code |-> "solver_time_limit"],
             [status |-> "failed", code |-> "run_rejected"], Unexpected}

(* A flush writes the columns that differ from what was loaded, and only   *)
(* those: the others keep what the row holds when the UPDATE runs.         *)
Column(now, loaded, set) == IF set = loaded THEN now ELSE set
Flush(now, loaded, set) ==
    [status |-> Column(now.status, loaded.status, set.status),
     worker |-> Column(now.worker, loaded.worker, set.worker),
     result |-> Column(now.result, loaded.result, set.result),
     code |-> Column(now.code, loaded.code, set.code),
     recoveries |-> Column(now.recoveries, loaded.recoveries, set.recoveries),
     key |-> now.key, body |-> now.body]

Unread == [r \in Runs |-> Absent]
Loaded(S) == [r \in Runs |-> IF r \in S THEN row[r] ELSE Absent]

WorkerPC == {"idle", "recover", "select", "claim", "solve", "complete",
             "fail", "commit"}
WorkerState == [pc : WorkerPC, run : Runs \cup {0}, seen : [Runs -> Row],
                out : Solved \cup Failures, payload : Payloads \cup {None}]
ClientState == [pc : {"idle", "insert", "cancel"}, run : Runs \cup {0},
                seen : Row, key : Keys \cup {None}, body : Bodies \cup {None}]
Idle == [pc |-> "idle", run |-> 0, seen |-> Unread, out |-> Unexpected,
         payload |-> None]
Free == [pc |-> "idle", run |-> 0, seen |-> Absent, key |-> None,
         body |-> None]

Goes(w, state) == worker' = [worker EXCEPT ![w] = state]

(* A worker between its claim of r and the end of its execute_one. *)
Holds(w, r) == /\ worker[w].pc \in {"solve", "complete", "fail", "commit"}
               /\ worker[w].run = r
-----------------------------------------------------------------------------
(* The worker's loop: recover stale claims, claim the oldest run, solve it, *)
(* write the outcome.                                                      *)

DueButCancelled == {r \in stale : row[r].status = "running"}
Due == {r \in stale : row[r].status \in {"running", "cancel_requested"}}

RecoverRead(w) ==
    /\ worker[w].pc = "idle"
    /\ \/ Due = {} /\ Goes(w, [Idle EXCEPT !.pc = "select"])
       \/ Due # {} /\ Goes(w, [Idle EXCEPT !.pc = "recover",
                                           !.seen = Loaded(Due)])
    /\ UNCHANGED <<row, stale, client, served, crashes>>

RecoveredWithOwner(old) ==
    CASE old.status = "cancel_requested" ->
             [old EXCEPT !.status = "cancelled", !.code = "operator_cancelled"]
      [] old.status = "running" ->
             [old EXCEPT !.status = "queued", !.recoveries = @ + 1]
      [] OTHER -> old
RecoveredAlways(old) ==
    IF old.status \in {"running", "cancel_requested"}
    THEN [old EXCEPT !.status = "queued", !.worker = None,
                     !.recoveries = @ + 1]
    ELSE old
Recovered(old) ==
    CASE old.status = "cancel_requested" ->
             [old EXCEPT !.status = "cancelled", !.code = "operator_cancelled"]
      [] old.status = "running" ->
             [old EXCEPT !.status = "queued", !.worker = None,
                         !.recoveries = @ + 1]
      [] OTHER -> old

RecoverCommit(w) ==
    LET seen == worker[w].seen
    IN  /\ worker[w].pc = "recover"
        /\ row' = [r \in Runs |-> Flush(row[r], seen[r], Recovered(seen[r]))]
        /\ stale' = stale \ {r \in Runs : seen[r].status = "running"}
        /\ Goes(w, [Idle EXCEPT !.pc = "select"])
        /\ UNCHANGED <<client, served, crashes>>

Queued == {r \in Runs : row[r].status = "queued"}

SelectOldest(w) ==
    /\ worker[w].pc = "select"
    /\ IF Queued = {}
       THEN Goes(w, Idle)
       ELSE \E r \in Queued :
               /\ \A q \in Queued : r <= q
               /\ Goes(w, [Idle EXCEPT !.pc = "claim", !.run = r])
    /\ UNCHANGED <<row, stale, client, served, crashes>>

(* The claim is one guarded UPDATE.  A worker that lost the row selects     *)
(* again, at most ten times, and then goes back to its poll interval.      *)
ClaimUnguarded(w) ==
    LET r == worker[w].run
    IN  /\ worker[w].pc = "claim"
        /\ row' = [row EXCEPT ![r].status = "running", ![r].worker = w]
        /\ stale' = stale \ {r}
        /\ Goes(w, [worker[w] EXCEPT !.pc = "solve"])
        /\ UNCHANGED <<client, served, crashes>>
Claim(w) ==
    LET r == worker[w].run
    IN  /\ worker[w].pc = "claim"
        /\ \/ /\ row[r].status = "queued"
              /\ row' = [row EXCEPT ![r].status = "running", ![r].worker = w]
              /\ stale' = stale \ {r}
              /\ Goes(w, [worker[w] EXCEPT !.pc = "solve"])
           \/ /\ row[r].status # "queued"
              /\ \E pc \in {"select", "idle"} :
                    Goes(w, [Idle EXCEPT !.pc = pc])
              /\ UNCHANGED <<row, stale>>
        /\ UNCHANGED <<client, served, crashes>>

Solve(w) ==
    /\ worker[w].pc = "solve"
    /\ \/ \E o \in Solved, p \in Payloads :
            Goes(w, [worker[w] EXCEPT !.pc = "complete", !.out = o,
                                      !.payload = p])
       \/ \E o \in Failures :
            Goes(w, [worker[w] EXCEPT !.pc = "fail", !.out = o])
    /\ UNCHANGED <<row, stale, client, served, crashes>>

(* _complete_with_result up to its commit.  A row that is neither running  *)
(* nor being cancelled raises RunConflictError, which execute_one's last   *)
(* except clause turns into fail(FAILED, unexpected_worker_error).         *)
CompleteRead(w) ==
    LET r == worker[w].run
    IN  /\ worker[w].pc = "complete"
        /\ \/ /\ row[r].status \in {"running", "cancel_requested"}
              /\ Goes(w, [worker[w] EXCEPT !.pc = "commit",
                                            !.seen = Loaded({r})])
           \/ /\ row[r].status \notin {"running", "cancel_requested"}
              /\ Goes(w, [worker[w] EXCEPT !.pc = "fail", !.out = Unexpected,
                                            !.payload = None])
        /\ UNCHANGED <<row, stale, client, served, crashes>>

(* fail and the transition it calls, up to the commit.  A transition that  *)
(* is not allowed raises out of execute_one: the process ends and the      *)
(* container restarts it, which is the idle worker again.                  *)
FailRead(w) ==
    LET r == worker[w].run
        current == row[r].status
        target == IF current = "cancel_requested" THEN "cancelled"
                                                  ELSE worker[w].out.status
    IN  /\ worker[w].pc = "fail"
        /\ \/ /\ target # current /\ target \in Allowed[current]
              /\ Goes(w, [worker[w] EXCEPT !.pc = "commit",
                                            !.seen = Loaded({r})])
           \/ /\ target = current \/ target \notin Allowed[current]
              /\ Goes(w, Idle)
        /\ UNCHANGED <<row, stale, client, served, crashes>>

FinishedLosingResult(old, out, payload) ==
    IF old.status = "cancel_requested"
    THEN [old EXCEPT !.status = "cancelled", !.code = "operator_cancelled"]
    ELSE [old EXCEPT !.status = out.status, !.code = out.code]
FinishedKeepingCode(old, out, payload) ==
    IF old.status = "cancel_requested"
    THEN [old EXCEPT !.status = "cancelled", !.code = "operator_cancelled"]
    ELSE [old EXCEPT !.status = out.status,
                     !.result = IF payload = None THEN @ ELSE payload]
Finished(old, out, payload) ==
    IF old.status = "cancel_requested"
    THEN [old EXCEPT !.status = "cancelled", !.code = "operator_cancelled"]
    ELSE [old EXCEPT !.status = out.status, !.code = out.code,
                     !.result = IF payload = None THEN @ ELSE payload]

Commit(w) ==
    LET r == worker[w].run
        old == worker[w].seen[r]
    IN  /\ worker[w].pc = "commit"
        /\ row' = [row EXCEPT ![r] = Flush(@, old,
                        Finished(old, worker[w].out, worker[w].payload))]
        /\ stale' = stale \ {r}
        /\ Goes(w, Idle)
        /\ UNCHANGED <<client, served, crashes>>

(* The process dies anywhere in execute_one and is started again. *)
Crash(w) ==
    /\ crashes < MaxCrashes
    /\ worker[w].pc # "idle"
    /\ Goes(w, Idle)
    /\ crashes' = crashes + 1
    /\ UNCHANGED <<row, stale, client, served>>
-----------------------------------------------------------------------------
(* API requests. *)

HasKey(k) == {r \in Runs : Exists(r) /\ row[r].key = k /\ k # None}

(* The answer to a create request whose key is taken: the run, or 409. *)
Resolve(k, b) ==
    served' = served \cup {[key |-> k, body |-> b, run |-> r] :
                              r \in {q \in HasKey(k) : row[q].body = b}}

(* Without a key nothing looks at the fingerprint again. *)
CreateFind(c, k, b) ==
    /\ client[c].pc = "idle"
    /\ \/ /\ HasKey(k) # {}
          /\ Resolve(k, b)
          /\ UNCHANGED client
       \/ /\ HasKey(k) = {}
          /\ client' = [client EXCEPT ![c] = [Free EXCEPT !.pc = "insert",
                                                  !.key = k, !.body = b]]
          /\ UNCHANGED served
    /\ UNCHANGED <<row, stale, worker, crashes>>

NewRow(k, b) == [Absent EXCEPT !.status = "queued", !.key = k, !.body = b]
Insert(c, k, b) ==
    \E r \in Runs :
        /\ ~Exists(r) /\ \A q \in Runs : q < r => Exists(q)
        /\ row' = [row EXCEPT ![r] = NewRow(k, b)]
        /\ served' = IF k = None THEN served
                     ELSE served \cup {[key |-> k, body |-> b, run |-> r]}

CreateCommitUnconstrained(c) ==
    /\ client[c].pc = "insert"
    /\ Insert(c, client[c].key, client[c].body)
    /\ client' = [client EXCEPT ![c] = Free]
    /\ UNCHANGED <<stale, worker, crashes>>
(* The INSERT, or the unique key's IntegrityError and the second look-up. *)
CreateCommit(c) ==
    LET k == client[c].key
        b == client[c].body
    IN  /\ client[c].pc = "insert"
        /\ \/ HasKey(k) = {} /\ Insert(c, k, b)
           \/ HasKey(k) # {} /\ Resolve(k, b) /\ UNCHANGED row
        /\ client' = [client EXCEPT ![c] = Free]
        /\ UNCHANGED <<stale, worker, crashes>>

(* request_cancellation up to its commit.  Cancelled and cancel_requested   *)
(* rows are answered as they are, other terminal rows with 409.            *)
CancelRead(c, r) ==
    /\ client[c].pc = "idle"
    /\ row[r].status \in {"queued", "running"}
    /\ client' = [client EXCEPT ![c] = [Free EXCEPT !.pc = "cancel",
                                            !.run = r, !.seen = row[r]]]
    /\ UNCHANGED <<row, stale, worker, served, crashes>>

CancelledMisspelt(old) ==
    IF old.status = "queued"
    THEN [old EXCEPT !.status = "canceled", !.code = "none"]
    ELSE [old EXCEPT !.status = "cancel_requested", !.code = "none"]
Cancelled(old) ==
    IF old.status = "queued"
    THEN [old EXCEPT !.status = "cancelled", !.code = "none"]
    ELSE [old EXCEPT !.status = "cancel_requested", !.code = "none"]

CancelCommit(c) ==
    LET r == client[c].run
        old == client[c].seen
    IN  /\ client[c].pc = "cancel"
        /\ row' = [row EXCEPT ![r] = Flush(@, old, Cancelled(old))]
        /\ stale' = IF old.status = "queued" THEN stale \ {r} ELSE stale
        /\ client' = [client EXCEPT ![c] = Free]
        /\ UNCHANGED <<worker, served, crashes>>
-----------------------------------------------------------------------------
(* Time passes the threshold since a claim.  The heartbeat is written by   *)
(* the claim and by the end of a run, never during a solve.                *)
Age(r) ==
    /\ row[r].status \in {"running", "cancel_requested"}
    /\ r \notin stale
    /\ row[r].status = "running" => row[r].recoveries < MaxRecoveries
    /\ OutlastsThreshold \/ \A w \in Workers : ~Holds(w, r)
    /\ stale' = stale \cup {r}
    /\ UNCHANGED <<row, worker, client, served, crashes>>

Init ==
    /\ row = Unread
    /\ stale = {}
    /\ worker = [w \in Workers |-> Idle]
    /\ client = [c \in Clients |-> Free]
    /\ served = {}
    /\ crashes = 0

WorkerStep(w) ==
    \/ RecoverRead(w) \/ RecoverCommit(w) \/ SelectOldest(w) \/ Claim(w)
    \/ Solve(w) \/ CompleteRead(w) \/ FailRead(w) \/ Commit(w)

ClientStep(c) ==
    \/ \E k \in Keys, b \in Bodies : CreateFind(c, k, b)
    \/ CreateFind(c, None, None)
    \/ CreateCommit(c)
    \/ \E r \in Runs : CancelRead(c, r)
    \/ CancelCommit(c)

Next ==
    \/ \E w \in Workers : WorkerStep(w) \/ Crash(w)
    \/ \E c \in Clients : ClientStep(c)
    \/ \E r \in Runs : Age(r)

Spec == Init /\ [][Next]_vars

(* Workers are processes the container runtime restarts, and time passes;  *)
(* nothing obliges an operator to submit or cancel anything.               *)
Fairness == /\ \A w \in Workers : WF_vars(WorkerStep(w))
            /\ \A r \in Runs : WF_vars(Age(r))

FairSpec == Spec /\ Fairness
-----------------------------------------------------------------------------
(* The queue as the other tables see it. *)

Outside == [r \in Runs |-> [status |-> row[r].status, result |-> row[r].result]]

Alone == INSTANCE RunLifecycle WITH run <- Outside, shared <- FALSE
Shared == INSTANCE RunLifecycle WITH run <- Outside, shared <- TRUE

(* What one worker process keeps: a result is committed once, and a run    *)
(* with a result is never claimed, requeued or ended again.                *)
ImplementsLifecycleAlone == Alone!Spec

(* What any number of workers keeps: runs move only as RunLifecycle lets   *)
(* them, and a result, once there, may be replaced but never vanishes.     *)
ImplementsLifecycleShared == Shared!Spec
-----------------------------------------------------------------------------
(* Types: every column, every process's place and every read is what the   *)
(* schema and the repository allow.                                        *)
TypeOK ==
    /\ row \in [Runs -> Row]
    /\ stale \subseteq Runs
    /\ worker \in [Workers -> WorkerState]
    /\ client \in [Clients -> ClientState]
    /\ served \subseteq [key : Keys, body : Bodies, run : Runs]
    /\ crashes \in 0..MaxCrashes

(* A queued run has no owner and a running run has one, whatever unguarded *)
(* writes interleave: recover_stale clears worker_id in the same UPDATE    *)
(* that requeues, claim_next sets it in the same UPDATE that starts.       *)
OwnershipAgrees ==
    \A r \in Runs : /\ row[r].status = "queued" => row[r].worker = None
                    /\ row[r].status = "running" => row[r].worker # None

(* A run passes from one owner to another only through the queue: no claim *)
(* replaces the worker_id of another claim (claim_next's guarded UPDATE).  *)
OwnerChangesThroughQueue ==
    [][\A r \in Runs :
          row[r].worker # None /\ row'[r].worker # None
              => row'[r].worker = row[r].worker]_vars

(* Two workers work on one run only after recover_stale requeued it: the   *)
(* claim itself never hands a run to two workers.                          *)
OneClaimPerQueueing ==
    \A r \in Runs, v, w \in Workers :
        v # w /\ Holds(v, r) /\ Holds(w, r) => row[r].recoveries > 0

(* A run reported as succeeded or degraded has its result, whichever of    *)
(* two late writes came last.                                              *)
ReportedResultExists ==
    \A r \in Runs :
        row[r].status \in {"succeeded", "degraded"} => row[r].result # None

(* Create requests with one idempotency key are answered with one run and  *)
(* one fingerprint, also when they race between look-up and INSERT.        *)
AnswersAgree ==
    \A a, b \in served : a.key = b.key => a.run = b.run /\ a.body = b.body

(* A committed result is never replaced (one worker process, as deployed): *)
(* approvals and dispatches are bound to the hash of that result.          *)
ResultIsFinal ==
    [][\A r \in Runs : row[r].result # None
                           => row'[r].result = row[r].result]_vars

(* The failure code of a run a worker ended is the one of its status (one   *)
(* worker process): the columns of two outcomes never mix in one row.  A   *)
(* late cancellation is excepted: it overwrites the status alone.          *)
OutcomeIsCoherent ==
    \A r \in Runs :
        row[r].status \in Terminal \ {"cancelled"} =>
            [status |-> row[r].status, code |-> row[r].code]
                \in Solved \cup Failures

(* Every submitted run ends and stays ended, through crashes of its worker, *)
(* recovery, and cancellations racing the result.                          *)
RunsSettle ==
    \A r \in Runs : Exists(r) ~> [](row[r].status \in Terminal)

(* Stated by docs/OPERATIONAL_REPLANNING_WORK_PACKAGE.md: a running         *)
(* cancellation is durable and wins over any result returned later.        *)
CancellationIsDurable ==
    [][\A r \in Runs : row[r].status = "cancel_requested"
            => row'[r].status \in {"cancel_requested", "cancelled"}]_vars

(* Stated by recover_stale's docstring: what it returns to the queue is an *)
(* abandoned claim, no worker still works on it.                           *)
RequeuesOnlyAbandoned ==
    [][\A r \in Runs : row[r].status = "running" /\ row'[r].status = "queued"
            => \A w \in Workers : ~Holds(w, r)]_vars
=============================================================================
