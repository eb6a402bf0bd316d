----------------------------- MODULE Decisions ------------------------------
(***************************************************************************)
(* What operators do with finished runs: decide on a candidate, replan     *)
(* from an approved one, and release an approved schedule to the control   *)
(* path.  The tables operator_approvals, operational_notices and           *)
(* control_simulations, next to the runs as RunLifecycle describes them.   *)
(*                                                                         *)
(* Every request loads the run row first and consults the other tables     *)
(* later; the row is not read again, so it may be stale by then.  What a   *)
(* handler demands of that row alone is checked where it is loaded.  A     *)
(* candidate run and the notice that explains it are two transactions,     *)
(* and the worker may come between them.                                   *)
(***************************************************************************)
EXTENDS Naturals, FiniteSets

CONSTANTS
    Runs,        \* rows of optimization_runs
    Payloads,    \* results, told apart by their hash
    Passed,      \* the results that passed deterministic validation
    Clients,     \* API request threads
    Keys,        \* idempotency keys of replan requests
    Scenarios,   \* notice scenarios
    None,        \* SQL NULL
    MaxRequests, \* bound: requests about finished runs
    MaxTakeovers \* bound: writes only a second worker on a run can make

ASSUME ConstantsAssumption ==
    /\ Passed \subseteq Payloads
    /\ None \notin Payloads \cup Keys \cup Scenarios \cup Runs
    /\ MaxRequests \in Nat /\ MaxTakeovers \in Nat

VARIABLES
    run,        \* the runs, as RunLifecycle has them
    takeovers,  \* writes so far that only a second worker on a run can make
    asked,      \* per run: what it was submitted for
    loaded,     \* per candidate: baseline results its workers have loaded
    basis,      \* per candidate: the baseline result its own result rests on
    approval,   \* operator_approvals, by run
    notice,     \* operational_notices, by candidate run
    control,    \* control_simulations of one interval, by run: the result used
    thread,     \* per request thread: the request and the run row it loaded
    requests,   \* requests begun so far
    noted       \* history: replan requests answered with a notice

vars == <<run, takeovers, asked, loaded, basis, approval, notice, control,
          thread, requests, noted>>

(* The runs, with a single worker and with several. *)
Alone == INSTANCE RunLifecycle WITH shared <- FALSE
Queue == INSTANCE RunLifecycle WITH shared <- TRUE
-----------------------------------------------------------------------------
Verdicts == {"approved", "rejected"}
Approval == [verdict : Verdicts, result : Payloads]
Notice == [baseline : Runs, scenario : Scenarios]

ASSUME NullIsNoRow == None \notin Notice

DayAhead == [kind |-> "day_ahead", key |-> None, scenario |-> None]
Asked == {DayAhead} \cup [kind : {"real_time"}, key : Keys \cup {None},
                          scenario : Scenarios]

Thread == [pc : {"idle", "decide", "insert", "control", "dispatch", "gateway",
                 "replan", "notice"},
           of : Runs \cup {None}, seen : Payloads \cup {None},
           verdict : Verdicts, key : Keys \cup {None},
           scenario : Scenarios \cup {None},
           candidate : Runs \cup {None}, created : BOOLEAN]
Free == [pc |-> "idle", of |-> None, seen |-> None,
         verdict |-> "rejected", key |-> None, scenario |-> None,
         candidate |-> None, created |-> FALSE]

Becomes(c, state) == thread' = [thread EXCEPT ![c] = state]

tables == <<asked, loaded, basis, approval, notice, control>>
history == <<requests, noted>>
-----------------------------------------------------------------------------
(* The queue and its workers. *)

(* A step of run r.  Once a run has ended, or has a result, only a worker  *)
(* that lost its claim to another one can write an outcome or requeue it.  *)
Writes(r, y) ==
    /\ run' = [run EXCEPT ![r] = y]
    /\ takeovers' = IF Alone!Step(run[r], y) THEN takeovers ELSE takeovers + 1
    /\ takeovers' <= MaxTakeovers

NewRun == [status |-> "queued", result |-> None]
Submit(r) ==
    /\ Queue!Submitted(run[r], NewRun) /\ Writes(r, NewRun)
    /\ asked' = [asked EXCEPT ![r] = DayAhead]
    /\ UNCHANGED <<loaded, basis, approval, notice, control, thread, history>>

(* A claim, a late cancellation, a recovery, or a failure: how a failure   *)
(* is classified makes no difference here.                                 *)
Moved == {"queued", "running", "cancel_requested", "cancelled", "failed"}
Moves(x, y) == \/ Queue!Claimed(x, y) \/ Queue!CancelWritten(x, y)
               \/ Queue!Requeued(x, y) \/ Queue!Fails(x, y)

Move(r) ==
    /\ \E s \in Moved :
          LET y == [run[r] EXCEPT !.status = s]
          IN  Moves(run[r], y) /\ Writes(r, y)
    /\ UNCHANGED <<tables, thread, history>>

(* The worker of a real-time run fetches the notice and the baseline's     *)
(* result.  Without a notice, or when the baseline is not terminal or has  *)
(* no result, the attempt can only fail.  A worker that lost its claim may *)
(* be on the run whatever its status is.                                   *)
LoadNotice(r) ==
    /\ asked[r].kind = "real_time" /\ Queue!Present(run[r])
    /\ notice[r] # None
    /\ LET baseline == run[notice[r].baseline]
       IN  /\ baseline.status \in Queue!Terminal /\ baseline.result # None
           /\ loaded' = [loaded EXCEPT ![r] = @ \cup {baseline.result}]
    /\ UNCHANGED <<run, takeovers, asked, basis, approval, notice, control,
                   thread, history>>

(* complete or complete_degraded: the status says whether validation       *)
(* passed, except that two workers of one run may mix their columns.       *)
Report(r) ==
    /\ \E y \in [status : Queue!Reported, result : Payloads] :
          /\ Queue!Reports(run[r], y) /\ Writes(r, y)
          /\ \/ y.status = "succeeded" <=> y.result \in Passed
             \/ run[r].result # None
    /\ \/ asked[r].kind = "day_ahead" /\ UNCHANGED basis
       \/ /\ asked[r].kind = "real_time"
          /\ \E p \in loaded[r] : basis' = [basis EXCEPT ![r] = p]
    /\ UNCHANGED <<asked, loaded, approval, notice, control, thread, history>>
-----------------------------------------------------------------------------
(* Requests begin by loading the run they are about.  Nothing comes of one *)
(* about a run that is not a success with a validated result: it is        *)
(* refused, or answered with what is in the tables already.                *)

ValidatedOnceEnded(x) == x.status \in Queue!Terminal
Validated(x) == x.status = "succeeded" /\ x.result \in Passed

Begin(c, r, request) ==
    /\ thread[c].pc = "idle" /\ Validated(run[r])
    /\ requests < MaxRequests /\ requests' = requests + 1
    /\ Becomes(c, [request EXCEPT !.of = r, !.seen = run[r].result])
    /\ UNCHANGED <<run, takeovers, tables, noted>>

AskDecision(c, r, v) ==
    Begin(c, r, [Free EXCEPT !.pc = "decide", !.verdict = v])
AskControl(c, r) == Begin(c, r, [Free EXCEPT !.pc = "control"])
AskDispatch(c, r) == Begin(c, r, [Free EXCEPT !.pc = "dispatch"])
AskReplan(c, r, s, k) ==
    Begin(c, r, [Free EXCEPT !.pc = "replan", !.scenario = s, !.key = k])

(* The API process restarts, or the client is gone. *)
Abandon(c) ==
    /\ thread[c].pc # "idle"
    /\ Becomes(c, Free)
    /\ UNCHANGED <<run, takeovers, tables, history>>
-----------------------------------------------------------------------------
(* Decisions. *)

(* An earlier decision is the answer, or a conflict. *)
CheckDecision(c) ==
    LET t == thread[c]
    IN  /\ t.pc = "decide"
        /\ IF approval[t.of] = None THEN Becomes(c, [t EXCEPT !.pc = "insert"])
                                    ELSE Becomes(c, Free)
        /\ UNCHANGED <<run, takeovers, tables, history>>

DecisionOf(c) == [verdict |-> thread[c].verdict, result |-> thread[c].seen]

InsertDecisionUnchecked(c) ==
    /\ thread[c].pc = "insert"
    /\ approval' = [approval EXCEPT ![thread[c].of] = DecisionOf(c)]
    /\ Becomes(c, Free)
    /\ UNCHANGED <<run, takeovers, asked, loaded, basis, notice, control, history>>
(* The INSERT, or the unique run_id's IntegrityError and what is there.    *)
InsertDecision(c) ==
    LET r == thread[c].of
    IN  /\ thread[c].pc = "insert"
        /\ approval' = [approval EXCEPT ![r] =
                            IF @ = None THEN DecisionOf(c) ELSE @]
        /\ Becomes(c, Free)
        /\ UNCHANGED <<run, takeovers, asked, loaded, basis, notice, control,
                       history>>
-----------------------------------------------------------------------------
(* Release to control. *)

(* The decision every use of a result demands: approval of that result. *)
ApprovedUnbound(a, result) == a # None /\ a.verdict = "approved"
ApprovedOrRejected(a, result) == a # None /\ a.result = result
Approved(a, result) == a # None /\ a.verdict = "approved" /\ a.result = result

(* ControlSimulationRepository.create: the interval's row if there is one, *)
(* else the policy and an insert that a unique key serializes.             *)
Simulate(c) ==
    LET t == thread[c]
    IN  /\ t.pc = "control"
        /\ \/ /\ control[t.of] = None /\ Approved(approval[t.of], t.seen)
              /\ control' = [control EXCEPT ![t.of] = t.seen]
           \/ /\ control[t.of] # None \/ ~Approved(approval[t.of], t.seen)
              /\ UNCHANGED control
        /\ Becomes(c, Free)
        /\ UNCHANGED <<run, takeovers, asked, loaded, basis, approval, notice,
                       history>>

(* DispatchEvidenceRepository.dispatch up to the gateway call, which is    *)
(* about the result that was loaded, and its answer.                       *)
Dispatch(c) ==
    LET t == thread[c]
    IN  /\ t.pc = "dispatch"
        /\ \/ /\ Approved(approval[t.of], t.seen)
              /\ Becomes(c, [t EXCEPT !.pc = "gateway"])
           \/ ~Approved(approval[t.of], t.seen) /\ Becomes(c, Free)
        /\ UNCHANGED <<run, takeovers, tables, history>>

GatewayAnswers(c) ==
    /\ thread[c].pc = "gateway"
    /\ Becomes(c, Free)
    /\ UNCHANGED <<run, takeovers, tables, history>>
-----------------------------------------------------------------------------
(* Replanning. *)

WithKey(k) == {r \in Runs : k # None /\ asked[r].key = k}

(* create_simulated up to the commit of RunRepository.create: the key's     *)
(* candidate if its fingerprint agrees, else a new queued run.  All runs   *)
(* share one input here, so the scenario is the fingerprint.               *)
CreateCandidate(c) ==
    LET t == thread[c]
        usable == Approved(approval[t.of], t.seen)
        Goes(r, created) == Becomes(c, [t EXCEPT !.pc = "notice", !.candidate = r,
                                                 !.created = created])
    IN  /\ t.pc = "replan"
        /\ \/ /\ usable /\ WithKey(t.key) = {}
              /\ \E r \in Runs :
                    /\ Queue!Submitted(run[r], NewRun)
                    /\ run' = [run EXCEPT ![r] = NewRun]
                    /\ asked' = [asked EXCEPT ![r] =
                                   [kind |-> "real_time", key |-> t.key,
                                    scenario |-> t.scenario]]
                    /\ Goes(r, TRUE)
           \/ /\ usable
              /\ \E r \in WithKey(t.key) : /\ asked[r].scenario = t.scenario
                                           /\ Goes(r, FALSE)
              /\ UNCHANGED <<run, asked>>
           \/ /\ \/ ~usable
                 \/ \E r \in WithKey(t.key) : asked[r].scenario # t.scenario
              /\ Becomes(c, Free)
              /\ UNCHANGED <<run, asked>>
        /\ UNCHANGED <<takeovers, loaded, basis, approval, notice, control, history>>

Noted(t) == [key |-> t.key, candidate |-> t.candidate, baseline |-> t.of,
             scenario |-> t.scenario]

AnswersByCandidate(n, t) == n # None
(* Is an existing notice the one this request asks for? *)
Answers(n, t) == n # None /\ n = [baseline |-> t.of, scenario |-> t.scenario]

(* The rest of create_simulated.  A candidate of an earlier request that   *)
(* has no notice (yet) is a conflict.                                      *)
CommitNotice(c) ==
    LET t == thread[c]
        n == notice[t.candidate]
    IN  /\ t.pc = "notice"
        /\ \/ /\ n = None /\ t.created
              /\ notice' = [notice EXCEPT ![t.candidate] =
                               [baseline |-> t.of, scenario |-> t.scenario]]
              /\ noted' = noted \cup {Noted(t)}
           \/ Answers(n, t) /\ noted' = noted \cup {Noted(t)} /\ UNCHANGED notice
           \/ /\ ~Answers(n, t) /\ ~(n = None /\ t.created)
              /\ UNCHANGED <<notice, noted>>
        /\ Becomes(c, Free)
        /\ UNCHANGED <<run, takeovers, asked, loaded, basis, approval, control, requests>>
-----------------------------------------------------------------------------
Init ==
    /\ run = [r \in Runs |-> Queue!NoRun] /\ takeovers = 0
    /\ asked = [r \in Runs |-> DayAhead]
    /\ loaded = [r \in Runs |-> {}]
    /\ basis = [r \in Runs |-> None]
    /\ approval = [r \in Runs |-> None]
    /\ notice = [r \in Runs |-> None]
    /\ control = [r \in Runs |-> None]
    /\ thread = [c \in Clients |-> Free]
    /\ requests = 0 /\ noted = {}

QueueStep(r) == Submit(r) \/ Move(r) \/ LoadNotice(r) \/ Report(r)

RequestStep(c) ==
    \/ \E r \in Runs, v \in Verdicts : AskDecision(c, r, v)
    \/ \E r \in Runs : AskControl(c, r) \/ AskDispatch(c, r)
    \/ \E r \in Runs, s \in Scenarios, k \in Keys \cup {None} :
          AskReplan(c, r, s, k)
    \/ CheckDecision(c) \/ InsertDecision(c) \/ Simulate(c)
    \/ Dispatch(c) \/ GatewayAnswers(c)
    \/ CreateCandidate(c) \/ CommitNotice(c) \/ Abandon(c)

Next == \/ \E r \in Runs : QueueStep(r)
        \/ \E c \in Clients : RequestStep(c)

Spec == Init /\ [][Next]_vars
-----------------------------------------------------------------------------
(* Types of the tables and of what the request threads hold. *)
TypeOK ==
    /\ run \in [Runs -> Queue!Run] /\ takeovers \in 0..MaxTakeovers
    /\ asked \in [Runs -> Asked]
    /\ loaded \in [Runs -> SUBSET Payloads]
    /\ basis \in [Runs -> Payloads \cup {None}]
    /\ approval \in [Runs -> Approval \cup {None}]
    /\ notice \in [Runs -> Notice \cup {None}]
    /\ control \in [Runs -> Payloads \cup {None}]
    /\ thread \in [Clients -> Thread]
    /\ requests \in 0..MaxRequests
    /\ noted \subseteq [key : Keys \cup {None}, candidate : Runs,
                        baseline : Runs, scenario : Scenarios]

(* The first decision on a run stands, also when operators decide at once:  *)
(* nobody is told of a decision that another one replaces.                 *)
DecisionIsFinal ==
    [][\A r \in Runs : approval[r] # None => approval'[r] = approval[r]]_vars

(* What reaches the controller or a control simulation is a validated      *)
(* result an operator approved, that very result: also when a second       *)
(* worker replaced the run's result before or after the approval.          *)
SentWasApproved ==
    /\ \A c \in Clients : thread[c].pc = "gateway" =>
          /\ approval[thread[c].of] # None
          /\ approval[thread[c].of].verdict = "approved"
          /\ approval[thread[c].of].result = thread[c].seen
          /\ thread[c].seen \in Passed
    /\ \A r \in Runs : control[r] # None =>
          /\ approval[r] # None /\ approval[r].verdict = "approved"
          /\ approval[r].result = control[r] /\ control[r] \in Passed

(* With one worker a decision stays about the run's result for ever.       *)
DecisionStaysCurrent ==
    takeovers = 0 => \A r \in Runs : approval[r] # None =>
                  run[r].result = approval[r].result

(* A real-time result rests on a notice, and with one worker on exactly    *)
(* the baseline result an operator approved, although the notice is        *)
(* written after its candidate is queued and read after it is claimed.     *)
ReplanFollowsApproval ==
    \A r \in Runs : basis[r] # None =>
        /\ notice[r] # None
        /\ LET a == approval[notice[r].baseline]
           IN  /\ a # None /\ a.verdict = "approved"
               /\ takeovers = 0 => a.result = basis[r]

(* One idempotency key is answered with one candidate, baseline and         *)
(* scenario, however retries and concurrent requests with it interleave.   *)
NoticesAgree ==
    \A m, n \in noted : m.key = n.key /\ m.key # None => m = n
=============================================================================
