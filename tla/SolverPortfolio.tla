-------------------------- MODULE SolverPortfolio --------------------------
(***************************************************************************)
(* How an optimization is handed to the configured solvers, one after the  *)
(* other, and how its end is classified (solvePTO in optimization/         *)
(* day_ahead.py, solve_rt_rescheduling in optimization/real_time.py, and   *)
(* optimizer_service.py with worker.py for the classification).            *)
(*                                                                         *)
(* A day-ahead program is solved in one stage and the first solver that    *)
(* answers decides.  A remaining-horizon program is solved in one weighted *)
(* stage or, with operator requirements, in three: service, then the slack *)
(* of the requirements, then cost; each stage but the last adds a lock     *)
(* that keeps what it reached.  Every solver works on a fresh clone of the *)
(* program, with values of an earlier stage still in it.                   *)
(***************************************************************************)
EXTENDS Integers, Sequences

CONSTANTS
    Plans,       \* assignments of the program's variables
    Service,     \* per plan: service_feasibility_score
    Slack,       \* per plan: operational_priority_violation
    Cost,        \* per plan: economic_dispatch_score
    Solvers,     \* number of configured solvers
    Tolerance,   \* of a lock
    GapPart,     \* the gap of the last stage is 1 / GapPart
    None

Scores == [Plans -> Int]

ASSUME PortfolioAssumption ==
    /\ Service \in Scores /\ Slack \in Scores /\ Cost \in Scores
    /\ Solvers \in Nat
    /\ Tolerance \in Nat
    /\ GapPart \in Nat
    /\ None \notin Plans

VARIABLES
    kind,        \* of the optimization
    feasible,    \* the plans that satisfy the program's constraints
    available,   \* the solvers that are installed and licensed
    solver,      \* the solver to try, or being tried
    records,     \* stage_records of the solver's clone
    incumbent,   \* the values in the clone
    failure,     \* last_failure_meta
    outcome      \* classification by the worker

vars == <<kind, feasible, available, solver, records, incumbent, failure, outcome>>

(* A day-ahead run without and with a time limit of its own (the failure   *)
(* drill), a replan without and with operator requirements.                *)
DayAhead == {"nominal", "drill"}
Kinds == DayAhead \cup {"weighted", "lexicographic"}

Outcomes == {"running", "succeeded", "degraded", "infeasible", "timed_out", "failed"}

(* The objectives of the stages. *)
Stages ==
    CASE kind \in DayAhead -> <<Cost>>
      [] kind = "weighted" -> <<[p \in Plans |-> Service[p] + Cost[p]]>>
      [] kind = "lexicographic" -> <<Service, Slack, Cost>>

Stage == Len(records) + 1
Last == Stage = Len(Stages)

(* The locks of the stages before; wrong, as a mutant, when a stage keeps  *)
(* only the lock of the one before it.                                     *)
Keeps(p, i) == Stages[i][p] <= records[i].value + Tolerance
LockedByStageBefore ==
    {p \in feasible : records # <<>> => Keeps(p, Len(records))}
Locked == {p \in feasible : \A i \in 1 .. Len(records) : Keeps(p, i)}

Magnitude(v) == IF v < 0 THEN -v ELSE v

(* p is as good as the stage's gap asks: exact in a stage that locks;      *)
(* wrong, as a mutant, when every stage has the gap of the last.           *)
WithinGapEverywhere(p, q, score, exact) ==
    (score[p] - score[q]) * GapPart <= Magnitude(score[p])
WithinGap(p, q, score, exact) ==
    IF exact THEN score[p] <= score[q]
    ELSE (score[p] - score[q]) * GapPart <= Magnitude(score[p])

(* What a solver says of the stage, and the values it loads. *)
Reports ==
    {[term |-> "optimal", plan |-> p] : p \in
        {o \in Locked : \A q \in Locked : WithinGap(o, q, Stages[Stage], ~Last)}}
    \cup {[term |-> term, plan |-> p] : term \in {"feasible", "limit"}, p \in Locked}
    \cup {[term |-> "limit", plan |-> None], [term |-> "error", plan |-> None]}
    \cup {[term |-> "infeasible", plan |-> None] : p \in
            {n \in {None} : Locked = {}}}

Trying == outcome = "running" /\ solver <= Solvers

(* The next solver gets a fresh clone. *)
GoOn ==
    /\ solver' = solver + 1
    /\ records' = <<>>
    /\ incumbent' = None
    /\ UNCHANGED <<kind, feasible, available, outcome>>

(* Not installed, or not usable in its readiness check. *)
SkipSolver ==
    /\ Trying
    /\ solver \notin available
    /\ GoOn
    /\ UNCHANGED failure

-----------------------------------------------------------------------------
(* solvePTO.  Values are loaded only for optimal and feasible. *)
SolveDay ==
    /\ Trying
    /\ solver \in available
    /\ kind \in DayAhead
    /\ \E report \in Reports :
        \/ /\ report.term = "error"
           /\ GoOn
           /\ UNCHANGED failure
        \/ /\ report.term \in {"optimal", "feasible"}
           /\ incumbent' = report.plan
           /\ records' = Append(records, [value |-> Cost[report.plan],
                                          proven |-> report.term = "optimal"])
           /\ outcome' = "succeeded"
           /\ UNCHANGED <<kind, feasible, available, solver, failure>>
        \/ /\ report.term \in {"limit", "infeasible"}
           /\ outcome' = IF report.term = "limit" /\ kind = "drill"
                         THEN "timed_out" ELSE "infeasible"
           /\ UNCHANGED <<kind, feasible, available, solver, records, incumbent, failure>>

(* What the clone holds after a report: its own plan, or what was there. *)
Loaded(report) == IF report.plan = None THEN incumbent ELSE report.plan

(* The word "infeasible" contains "feasible", so it counts as usable; the  *)
(* objective of a clone without values cannot be evaluated, which leaves   *)
(* the loop's body without a failure on record.                            *)
Usable(report) ==
    /\ report.term # "error"
    /\ report.term \in {"optimal", "feasible", "infeasible"} \/ Loaded(report) # None

Unevaluable(report) == report.term = "infeasible" /\ Loaded(report) = None

(* One stage of solve_rt_rescheduling's loop. *)
SolveStage ==
    /\ Trying
    /\ solver \in available
    /\ kind \notin DayAhead
    /\ \E report \in Reports :
        \/ /\ ~Usable(report)
           /\ failure' = IF report.term = "limit" THEN "limit" ELSE "no_incumbent"
           /\ GoOn
        \/ /\ Unevaluable(report)
           /\ UNCHANGED failure
           /\ GoOn
        \/ /\ Usable(report) /\ ~Unevaluable(report)
           /\ incumbent' = Loaded(report)
           /\ records' = Append(records, [value |-> Stages[Stage][incumbent'],
                                          proven |-> report.term = "optimal"])
           /\ outcome' = IF ~Last THEN "running"
                         ELSE IF report.term = "limit" THEN "degraded" ELSE "succeeded"
           /\ UNCHANGED <<kind, feasible, available, solver, failure>>

(* No solver is left: without one or without a failure on record, an error *)
(* nobody expects; otherwise the last failure decides.                     *)
GiveUp ==
    /\ outcome = "running"
    /\ solver = Solvers + 1
    /\ outcome' = IF kind \in DayAhead \/ available = {} \/ failure = None THEN "failed"
                  ELSE IF failure = "limit" THEN "timed_out" ELSE "infeasible"
    /\ UNCHANGED <<kind, feasible, available, solver, records, incumbent, failure>>

Init ==
    /\ kind \in Kinds
    /\ feasible \in SUBSET Plans
    /\ available \in SUBSET (1 .. Solvers)
    /\ solver = 1
    /\ records = <<>>
    /\ incumbent = None
    /\ failure = None
    /\ outcome = "running"

Next == SkipSolver \/ SolveDay \/ SolveStage \/ GiveUp

Spec == Init /\ [][Next]_vars

-----------------------------------------------------------------------------
TypeOK ==
    /\ kind \in Kinds
    /\ feasible \in SUBSET Plans
    /\ available \in SUBSET (1 .. Solvers)
    /\ solver \in 1 .. Solvers + 1
    /\ records \in Seq([value : Int, proven : BOOLEAN])
    /\ Len(records) <= Len(Stages)
    /\ incumbent \in Plans \cup {None}
    /\ failure \in {None, "no_incumbent", "limit"}
    /\ outcome \in Outcomes

Returned == outcome \in {"succeeded", "degraded"}

(* q is as good as any feasible plan in service, and in slack as any plan  *)
(* of tolerably the same service.                                          *)
BestService(q) == \A r \in feasible : Service[q] <= Service[r]
BestSlack(q) ==
    \A r \in feasible : Service[r] <= Service[q] + Tolerance => Slack[q] <= Slack[r]

(* What is reported as proven is lexicographic: no feasible plan serves    *)
(* better, none that serves as well violates the operator's requirements   *)
(* less, and none as good in both is cheaper by more than the gap          *)
(* (lexicographic_optimality_proven in solve_rt_rescheduling).             *)
ProvenIsLexicographic ==
    /\ Returned
    /\ kind = "lexicographic"
    /\ \A i \in 1 .. Len(records) : records[i].proven
    => \A q \in feasible :
        /\ Service[incumbent] <= Service[q] + Tolerance
        /\ BestService(q) => Slack[incumbent] <= Slack[q] + Tolerance
        /\ BestService(q) /\ BestSlack(q) => WithinGap(incumbent, q, Cost, FALSE)

(* A plan that is returned satisfies the program, and the stages that are  *)
(* reported with it, whatever solvers and stages failed before, are its    *)
(* own: every stage was run, a later one gave up no more of an earlier one *)
(* than the lock's tolerance, and the last value is the plan's             *)
(* (lexicographic_stages and minimum_operational_priority_slack).          *)
StagesDescribeThePlan ==
    Returned =>
        /\ incumbent \in feasible
        /\ Len(records) = Len(Stages)
        /\ \A i \in 1 .. Len(records) : Keeps(incumbent, i)
        /\ records[Len(records)].value = Stages[Len(Stages)][incumbent]
=============================================================================
