------------------------ MODULE SolverPortfolioProofs ------------------------
(* Theorems about SolverPortfolio, for any plans, scores, tolerance and    *)
(* gap, and any number of solvers.                                         *)
EXTENDS SolverPortfolio, TLAPS

(* The values in the clone are a plan that keeps every lock, and the last  *)
(* record is its own.                                                      *)
Held ==
    /\ incumbent # None =>
           incumbent \in feasible /\ \A i \in 1 .. Len(records) : Keeps(incumbent, i)
    /\ records # <<>> =>
           /\ incumbent # None
           /\ records[Len(records)].value = Stages[Len(records)][incumbent]

(* The loop ends with the last stage. *)
Counted ==
    /\ outcome = "running" => Len(records) < Len(Stages)
    /\ Returned => Len(records) = Len(Stages)

(* No plan that keeps the locks before a proven stage is better in it. *)
KeptBefore(i) == {p \in feasible : \A k \in 1 .. (i - 1) : Keeps(p, k)}
Minimal ==
    \A i \in 1 .. Len(records) : records[i].proven =>
        \A q \in KeptBefore(i) :
            IF i < Len(Stages) THEN records[i].value <= Stages[i][q]
            ELSE WithinGap(incumbent, q, Stages[i], FALSE)

Inv == TypeOK /\ Held /\ Counted /\ Minimal
-----------------------------------------------------------------------------
LEMMA Constants ==
    /\ Service \in Scores /\ Slack \in Scores /\ Cost \in Scores
    /\ Solvers \in Nat /\ Tolerance \in Nat /\ None \notin Plans
BY PortfolioAssumption

LEMMA ElementType ==
    ASSUME NEW S, NEW s \in Seq(S), NEW i \in 1 .. Len(s)
    PROVE  s[i] \in S
OBVIOUS

(* Every kind of optimization has one stage or three. *)
LEMMA StagesType ==
    ASSUME kind \in Kinds
    PROVE  /\ Len(Stages) \in Nat /\ Len(Stages) >= 1
           /\ \A i \in 1 .. Len(Stages) : Stages[i] \in Scores
           /\ kind \in DayAhead => Len(Stages) = 1 /\ Stages[1] = Cost
           /\ kind = "lexicographic" => Stages = <<Service, Slack, Cost>>
<1>1. CASE kind \in DayAhead
  <2>1. Stages = <<Cost>> /\ kind # "lexicographic"
    BY <1>1 DEF Stages, DayAhead
  <2> QED
    BY <2>1, Constants
<1>2. CASE kind = "weighted"
  <2>1. Stages = <<[p \in Plans |-> Service[p] + Cost[p]]>> /\ kind \notin DayAhead
    BY <1>2 DEF Stages, DayAhead
  <2>2. [p \in Plans |-> Service[p] + Cost[p]] \in Scores
    BY Constants DEF Scores
  <2> DEFINE sum == [p \in Plans |-> Service[p] + Cost[p]]
  <2>3. sum \in Scores /\ Stages = <<sum>>
    BY <2>1, <2>2
  <2> HIDE DEF sum
  <2>4. Len(<<sum>>) = 1 /\ \A i \in 1 .. 1 : <<sum>>[i] = sum
    OBVIOUS
  <2>5. Len(Stages) = 1 /\ \A i \in 1 .. Len(Stages) : Stages[i] = sum
    BY <2>3, <2>4
  <2>6. kind # "lexicographic" /\ kind \notin DayAhead
    BY <1>2, <2>1
  <2> QED
    BY <2>3, <2>5, <2>6
<1>3. CASE kind = "lexicographic"
  <2>1. Stages = <<Service, Slack, Cost>> /\ kind \notin DayAhead
    BY <1>3 DEF Stages, DayAhead
  <2> QED
    BY <2>1, Constants
<1> QED
  BY <1>1, <1>2, <1>3 DEF Kinds

LEMMA InvInit == Init => Inv
<1> SUFFICES ASSUME Init PROVE Inv
  OBVIOUS
<1>1. kind \in Kinds
  BY DEF Init
<1>2. Len(records) = 0 /\ records \in Seq([value : Int, proven : BOOLEAN])
  BY DEF Init
<1>3. TypeOK
  BY <1>1, <1>2, StagesType, Constants DEF Init, TypeOK, Outcomes
<1>4. Held /\ Minimal
  BY <1>2 DEF Init, Held, Minimal
<1>5. Counted
  BY <1>1, <1>2, StagesType DEF Init, Counted, Returned
<1> QED
  BY <1>3, <1>4, <1>5 DEF Inv

(* A stage ends with a plan that keeps the locks. *)
LEMMA StageInv ==
    ASSUME Inv, outcome = "running", NEW plan \in Locked, NEW proven \in BOOLEAN,
           incumbent' = plan,
           records' = Append(records, [value |-> Stages[Stage][plan],
                                       proven |-> proven]),
           proven => \A q \in Locked : WithinGap(plan, q, Stages[Stage], ~Last),
           outcome' \in IF Last THEN {"succeeded", "degraded"} ELSE {"running"},
           UNCHANGED <<kind, feasible, available, solver, failure>>
    PROVE  Inv'
<1>0. PICK n \in Nat : n = Len(records)
  BY DEF Inv, TypeOK
<1> DEFINE new == [value |-> Stages[Stage][plan], proven |-> proven]
<1>1. /\ kind \in Kinds /\ feasible \in SUBSET Plans
      /\ records \in Seq([value : Int, proven : BOOLEAN]) /\ n \in Nat
      /\ n = Len(records) /\ Stage = n + 1
  BY <1>0 DEF Inv, TypeOK, Stage
<1>2. n + 1 <= Len(Stages) /\ Len(Stages) \in Nat /\ Stages[Stage] \in Scores
  BY <1>1, StagesType DEF Inv, Counted
<1>3. plan \in feasible /\ plan \in Plans /\ plan # None
      /\ \A i \in 1 .. n : Keeps(plan, i)
  BY <1>1, Constants DEF Locked
<1>4. Stages[Stage][plan] \in Int
  BY <1>2, <1>3 DEF Scores
<1>5. Stages' = Stages
  BY DEF Stages
<1>6. new \in [value : Int, proven : BOOLEAN]
  BY <1>4
<1>7. /\ records' \in Seq([value : Int, proven : BOOLEAN])
      /\ Len(records') = n + 1 /\ records'[n + 1] = new
      /\ \A i \in 1 .. n : records'[i] = records[i]
  BY <1>1, <1>6
<1> HIDE DEF new
<1>8. TypeOK'
  BY <1>2, <1>3, <1>5, <1>7 DEF Inv, TypeOK, Outcomes
<1>9. \A p : \A i \in 1 .. n : Keeps(p, i)' <=> Keeps(p, i)
  BY <1>5, <1>7 DEF Keeps
<1>10. Keeps(plan, n + 1)'
  <2>1. new.value = Stages[n + 1][plan]
    BY <1>1 DEF new
  <2>2. Stages[n + 1][plan] <= Stages[n + 1][plan] + Tolerance
    BY <1>1, <1>4, Constants
  <2> QED
    BY <1>5, <1>7, <2>1, <2>2 DEF Keeps
<1>11. Held'
  <2>1. \A i \in 1 .. (n + 1) : Keeps(plan, i)'
    <3>1. ASSUME NEW i \in 1 .. (n + 1) PROVE Keeps(plan, i)'
      <4>1. CASE i = n + 1
        BY <1>10, <4>1 DEF Keeps
      <4>2. CASE i # n + 1
        <5>1. i \in 1 .. n
          BY <1>1, <4>2
        <5> QED
          BY <1>3, <1>9, <5>1
      <4> QED
        BY <4>1, <4>2
    <3> QED
      BY <3>1
  <2>2. records'[Len(records')].value = Stages'[Len(records')][plan]
    <3>1. new.value = Stages[n + 1][plan]
      BY <1>1 DEF new
    <3> QED
      BY <1>5, <1>7, <3>1
  <2> QED
    BY <1>3, <1>7, <2>1, <2>2 DEF Held
<1>12. Counted'
  <2>1. Last <=> n + 1 = Len(Stages)
    BY <1>1 DEF Last
  <2>2. CASE Last
    <3>1. outcome' \in {"succeeded", "degraded"}
      BY <2>2
    <3> QED
      BY <1>5, <1>7, <2>1, <2>2, <3>1 DEF Counted
  <2>3. CASE ~Last
    <3>1. outcome' = "running" /\ n + 1 < Len(Stages)
      BY <1>1, <1>2, <2>1, <2>3
    <3> QED
      BY <1>5, <1>7, <3>1 DEF Counted, Returned
  <2> QED
    BY <2>2, <2>3
<1>13. ASSUME NEW i \in 1 .. (n + 1), records'[i].proven, NEW q \in KeptBefore(i)'
       PROVE  IF i < Len(Stages) THEN records'[i].value <= Stages[i][q]
              ELSE WithinGap(plan, q, Stages[i], FALSE)
  <2>1. q \in KeptBefore(i)
    <3>1. \A k \in 1 .. (i - 1) : k \in 1 .. n
      BY <1>1
    <3> QED
      BY <1>9, <1>13, <3>1 DEF KeptBefore
  <2>2. CASE i = n + 1
    <3>1. q \in Locked
      BY <1>1, <2>1, <2>2 DEF KeptBefore, Locked
    <3>2. WithinGap(plan, q, Stages[i], ~Last)
      BY <1>1, <1>7, <1>13, <2>2, <3>1 DEF new
    <3>3. new.value = Stages[i][plan]
      BY <1>1, <2>2 DEF new
    <3> QED
      BY <1>1, <1>2, <1>7, <2>2, <3>2, <3>3 DEF WithinGap, Last
  <2>3. CASE i # n + 1
    <3>1. i \in 1 .. n /\ i < Len(Stages)
      BY <1>1, <1>2, <2>3
    <3>2. records'[i] = records[i] /\ i \in 1 .. Len(records)
      BY <1>1, <1>7, <3>1
    <3> QED
      BY <1>13, <2>1, <3>1, <3>2 DEF Inv, Minimal
  <2> QED
    BY <2>2, <2>3
<1>14. Minimal'
  BY <1>5, <1>7, <1>13 DEF Minimal
<1> QED
  BY <1>8, <1>11, <1>12, <1>14 DEF Inv

(* The next solver starts from nothing. *)
LEMMA GoOnInv ==
    ASSUME Inv, outcome = "running", solver <= Solvers, GoOn,
           failure' \in {None, "no_incumbent", "limit"}
    PROVE  Inv'
<1>1. /\ kind \in Kinds /\ solver \in 1 .. Solvers + 1
  BY DEF Inv, TypeOK
<1>2. /\ solver' = solver + 1 /\ records' = <<>> /\ incumbent' = None
      /\ UNCHANGED <<kind, feasible, available, outcome>>
  BY DEF GoOn
<1>3. Stages' = Stages /\ Len(Stages) \in Nat /\ Len(Stages) >= 1
  BY <1>1, <1>2, StagesType DEF Stages
<1>4. /\ records' \in Seq([value : Int, proven : BOOLEAN]) /\ Len(records') = 0
      /\ solver' \in 1 .. Solvers + 1
  BY <1>1, <1>2, Constants
<1>5. TypeOK'
  BY <1>2, <1>3, <1>4 DEF Inv, TypeOK
<1>6. Held' /\ Minimal'
  BY <1>2, <1>4 DEF Held, Minimal
<1>7. Counted'
  BY <1>2, <1>3, <1>4 DEF Counted, Returned
<1> QED
  BY <1>5, <1>6, <1>7 DEF Inv

(* The optimization ends without a plan, whatever its clone holds. *)
LEMMA EndInv ==
    ASSUME Inv, outcome' \in {"infeasible", "timed_out", "failed"},
           UNCHANGED <<kind, feasible, available, solver, records, incumbent, failure>>
    PROVE  Inv'
<1>1. Stages' = Stages
  BY DEF Stages
<1>2. TypeOK'
  BY <1>1 DEF Inv, TypeOK, Outcomes
<1>3. Held' /\ Minimal'
  BY <1>1 DEF Inv, Held, Minimal, KeptBefore, Keeps
<1>4. Counted'
  BY DEF Counted, Returned
<1> QED
  BY <1>2, <1>3, <1>4 DEF Inv

(* What a report may say. *)
LEMMA ReportCases ==
    ASSUME NEW report \in Reports
    PROVE  /\ report.term \in {"optimal", "feasible", "limit", "error", "infeasible"}
           /\ report.term \in {"optimal", "feasible"} => report.plan \in Locked
           /\ report.plan \in Locked \cup {None}
           /\ report.term = "optimal" =>
                \A q \in Locked : WithinGap(report.plan, q, Stages[Stage], ~Last)
<1>1. CASE report \in {[term |-> "optimal", plan |-> p] : p \in
                {o \in Locked : \A q \in Locked : WithinGap(o, q, Stages[Stage], ~Last)}}
  <2>1. PICK p \in Locked :
              /\ report = [term |-> "optimal", plan |-> p]
              /\ \A q \in Locked : WithinGap(p, q, Stages[Stage], ~Last)
    BY <1>1
  <2> QED
    BY <2>1
<1>2. CASE report \in {[term |-> term, plan |-> p] :
                           term \in {"feasible", "limit"}, p \in Locked}
  BY <1>2
<1>3. CASE report \in {[term |-> "limit", plan |-> None], [term |-> "error", plan |-> None]}
  BY <1>3
<1>4. CASE report \in {[term |-> "infeasible", plan |-> None] : p \in
                          {n \in {None} : Locked = {}}}
  BY <1>4
<1> QED
  BY <1>1, <1>2, <1>3, <1>4 DEF Reports

LEMMA DayInv ==
    ASSUME Inv, SolveDay
    PROVE  Inv'
<1>1. /\ outcome = "running" /\ solver <= Solvers /\ kind \in DayAhead
      /\ kind \in Kinds /\ failure \in {None, "no_incumbent", "limit"}
  BY DEF SolveDay, Trying, Inv, TypeOK
<1>2. PICK report \in Reports :
        \/ report.term = "error" /\ GoOn /\ UNCHANGED failure
        \/ /\ report.term \in {"optimal", "feasible"}
           /\ incumbent' = report.plan
           /\ records' = Append(records, [value |-> Cost[report.plan],
                                          proven |-> report.term = "optimal"])
           /\ outcome' = "succeeded"
           /\ UNCHANGED <<kind, feasible, available, solver, failure>>
        \/ /\ report.term \in {"limit", "infeasible"}
           /\ outcome' = IF report.term = "limit" /\ kind = "drill"
                         THEN "timed_out" ELSE "infeasible"
           /\ UNCHANGED <<kind, feasible, available, solver, records, incumbent, failure>>
  BY DEF SolveDay
<1>3. CASE report.term = "error" /\ GoOn /\ UNCHANGED failure
  BY <1>1, <1>3, GoOnInv
<1>4. CASE /\ report.term \in {"optimal", "feasible"}
           /\ incumbent' = report.plan
           /\ records' = Append(records, [value |-> Cost[report.plan],
                                          proven |-> report.term = "optimal"])
           /\ outcome' = "succeeded"
           /\ UNCHANGED <<kind, feasible, available, solver, failure>>
  <2>1. Len(Stages) = 1 /\ Stages[1] = Cost
    BY <1>1, StagesType
  <2>2. Stage = 1 /\ Last
    BY <2>1, <1>1 DEF Stage, Last, Inv, Counted, TypeOK
  <2>3. report.plan \in Locked
    BY <1>4, ReportCases
  <2> DEFINE proven == report.term = "optimal"
  <2>4. proven \in BOOLEAN
    OBVIOUS
  <2>5. proven => \A q \in Locked : WithinGap(report.plan, q, Stages[Stage], ~Last)
    BY ReportCases
  <2>6. records' = Append(records, [value |-> Stages[Stage][report.plan],
                                    proven |-> proven])
    BY <1>4, <2>1, <2>2
  <2>7. outcome' \in IF Last THEN {"succeeded", "degraded"} ELSE {"running"}
    BY <1>4, <2>2
  <2> HIDE DEF proven
  <2> QED
    BY <1>1, <1>4, <2>3, <2>4, <2>5, <2>6, <2>7, StageInv
<1>5. CASE /\ report.term \in {"limit", "infeasible"}
           /\ outcome' = IF report.term = "limit" /\ kind = "drill"
                         THEN "timed_out" ELSE "infeasible"
           /\ UNCHANGED <<kind, feasible, available, solver, records, incumbent, failure>>
  <2>1. outcome' \in {"infeasible", "timed_out", "failed"}
    BY <1>5
  <2> QED
    BY <1>5, <2>1, EndInv
<1> QED
  BY <1>2, <1>3, <1>4, <1>5

LEMMA SolveStageInv ==
    ASSUME Inv, SolveStage
    PROVE  Inv'
<1>1. /\ outcome = "running" /\ solver <= Solvers
      /\ kind \in Kinds /\ failure \in {None, "no_incumbent", "limit"}
  BY DEF SolveStage, Trying, Inv, TypeOK
<1>2. PICK report \in Reports :
        \/ /\ ~Usable(report)
           /\ failure' = IF report.term = "limit" THEN "limit" ELSE "no_incumbent"
           /\ GoOn
        \/ /\ Unevaluable(report)
           /\ UNCHANGED failure
           /\ GoOn
        \/ /\ Usable(report) /\ ~Unevaluable(report)
           /\ incumbent' = Loaded(report)
           /\ records' = Append(records, [value |-> Stages[Stage][incumbent'],
                                          proven |-> report.term = "optimal"])
           /\ outcome' = IF ~Last THEN "running"
                         ELSE IF report.term = "limit" THEN "degraded" ELSE "succeeded"
           /\ UNCHANGED <<kind, feasible, available, solver, failure>>
  BY DEF SolveStage
<1>3. CASE GoOn /\ failure' \in {failure, "limit", "no_incumbent"}
  <2>1. failure' \in {None, "no_incumbent", "limit"}
    BY <1>1, <1>3
  <2> QED
    BY <1>1, <1>3, <2>1, GoOnInv
<1>4. CASE /\ Usable(report) /\ ~Unevaluable(report)
           /\ incumbent' = Loaded(report)
           /\ records' = Append(records, [value |-> Stages[Stage][incumbent'],
                                          proven |-> report.term = "optimal"])
           /\ outcome' = IF ~Last THEN "running"
                         ELSE IF report.term = "limit" THEN "degraded" ELSE "succeeded"
           /\ UNCHANGED <<kind, feasible, available, solver, failure>>
  <2>1. Loaded(report) \in Locked
    <3>1. CASE report.plan # None
      BY <3>1, ReportCases DEF Loaded
    <3>2. CASE report.plan = None
      <4>1. report.term \notin {"optimal", "feasible"}
        <5>1. Locked \subseteq Plans
          BY DEF Locked, Inv, TypeOK
        <5> QED
          BY <3>2, <5>1, ReportCases, Constants
      <4>2. Loaded(report) = incumbent /\ incumbent # None
        BY <1>4, <3>2, <4>1 DEF Usable, Unevaluable, Loaded
      <4> QED
        BY <4>2 DEF Inv, Held, Locked
    <3> QED
      BY <3>1, <3>2
  <2>2. report.term = "optimal" => Loaded(report) = report.plan
    <3>1. Locked \subseteq Plans
      BY DEF Locked, Inv, TypeOK
    <3> QED
      BY <3>1, ReportCases, Constants DEF Loaded
  <2> DEFINE plan == Loaded(report)
             proven == report.term = "optimal"
  <2>3. proven \in BOOLEAN /\ plan \in Locked /\ incumbent' = plan
    BY <1>4, <2>1
  <2>4. proven => \A q \in Locked : WithinGap(plan, q, Stages[Stage], ~Last)
    BY <2>2, ReportCases
  <2>5. records' = Append(records, [value |-> Stages[Stage][plan], proven |-> proven])
    BY <1>4
  <2>6. outcome' \in IF Last THEN {"succeeded", "degraded"} ELSE {"running"}
    BY <1>4
  <2> HIDE DEF plan, proven
  <2> QED
    BY <1>1, <1>4, <2>3, <2>4, <2>5, <2>6, StageInv
<1> QED
  BY <1>2, <1>3, <1>4

LEMMA InvNext == Inv /\ [Next]_vars => Inv'
<1> SUFFICES ASSUME Inv, [Next]_vars PROVE Inv'
  OBVIOUS
<1>1. CASE SkipSolver
  <2>1. outcome = "running" /\ solver <= Solvers /\ GoOn /\ UNCHANGED failure
    BY <1>1 DEF SkipSolver, Trying
  <2>2. failure' \in {None, "no_incumbent", "limit"}
    BY <2>1 DEF Inv, TypeOK
  <2> QED
    BY <2>1, <2>2, GoOnInv
<1>2. CASE SolveDay
  BY <1>2, DayInv
<1>3. CASE SolveStage
  BY <1>3, SolveStageInv
<1>4. CASE GiveUp
  <2>1. outcome' \in {"infeasible", "timed_out", "failed"}
        /\ UNCHANGED <<kind, feasible, available, solver, records, incumbent, failure>>
    BY <1>4 DEF GiveUp
  <2> QED
    BY <2>1, EndInv
<1>5. CASE UNCHANGED vars
  <2>1. Stages' = Stages
    BY <1>5 DEF Stages, vars
  <2> QED
    BY <1>5, <2>1 DEF vars, Inv, TypeOK, Held, Counted, Returned, Minimal, KeptBefore, Keeps
<1> QED
  BY <1>1, <1>2, <1>3, <1>4, <1>5 DEF Next

(* The locks hold and the proofs of the stages are true, in every state.   *)
THEOREM StagesHold == Spec => []Inv
BY InvInit, InvNext, PTL DEF Spec

(* Records, clones and failures keep their types; no optimization runs     *)
(* more stages than its kind has (solve_rt_rescheduling).                  *)
THEOREM TypeCorrect == Spec => []TypeOK
<1>1. Inv => TypeOK
  BY DEF Inv
<1> QED
  BY <1>1, StagesHold, PTL

(* A returned plan satisfies the program and owns the stages that are      *)
(* reported with it, for any scores and any answers of the solvers.        *)
THEOREM PlanOwnsItsStages == Spec => []StagesDescribeThePlan
<1>1. Inv => StagesDescribeThePlan
  <2> SUFFICES ASSUME Inv, Returned
               PROVE  /\ incumbent \in feasible /\ Len(records) = Len(Stages)
                      /\ \A i \in 1 .. Len(records) : Keeps(incumbent, i)
                      /\ records[Len(records)].value = Stages[Len(Stages)][incumbent]
    BY DEF StagesDescribeThePlan
  <2>1. Len(records) = Len(Stages) /\ Len(Stages) >= 1
    BY StagesType DEF Inv, Counted, TypeOK
  <2>2. records # <<>>
    BY <2>1
  <2> QED
    BY <2>1, <2>2 DEF Inv, Held
<1> QED
  BY <1>1, StagesHold, PTL

(* A plan reported as proven is lexicographically best within the locks'   *)
(* tolerance and the last stage's gap (solve_rt_rescheduling).             *)
THEOREM ProvenIsBest == Spec => []ProvenIsLexicographic
<1>1. Inv => ProvenIsLexicographic
  <2> SUFFICES ASSUME Inv, Returned, kind = "lexicographic",
                      \A i \in 1 .. Len(records) : records[i].proven,
                      NEW q \in feasible
               PROVE  /\ Service[incumbent] <= Service[q] + Tolerance
                      /\ BestService(q) => Slack[incumbent] <= Slack[q] + Tolerance
                      /\ BestService(q) /\ BestSlack(q) =>
                             WithinGap(incumbent, q, Cost, FALSE)
    BY DEF ProvenIsLexicographic
  <2>1. /\ Stages = <<Service, Slack, Cost>> /\ Len(Stages) = 3 /\ Len(records) = 3
        /\ records \in Seq([value : Int, proven : BOOLEAN])
        /\ feasible \subseteq Plans
    BY StagesType DEF Inv, Counted, TypeOK
  <2>2. /\ incumbent \in feasible
        /\ Keeps(incumbent, 1) /\ Keeps(incumbent, 2)
    <3>1. records # <<>>
      BY <2>1
    <3> QED
      BY <2>1, <3>1 DEF Inv, Held
  <2>3. /\ records[1].value \in Int /\ records[2].value \in Int
        /\ records[1].proven /\ records[2].proven /\ records[3].proven
    <3>1. 1 \in 1 .. Len(records) /\ 2 \in 1 .. Len(records) /\ 3 \in 1 .. Len(records)
      BY <2>1
    <3>2. \A i \in 1 .. Len(records) : records[i] \in [value : Int, proven : BOOLEAN]
      <4>1. records \in Seq([value : Int, proven : BOOLEAN])
        BY <2>1
      <4> QED
        BY <4>1, ElementType
    <3> QED
      BY <3>1, <3>2
  <2>4. /\ \A r \in feasible : Service[r] \in Int /\ Slack[r] \in Int
        /\ Tolerance \in Nat
    BY <2>1, Constants DEF Scores
  <2>5. /\ Stages[1] = Service /\ Stages[2] = Slack /\ Stages[3] = Cost
    BY <2>1
  <2>6. \A r \in KeptBefore(1) : records[1].value <= Service[r]
    BY <2>1, <2>3, <2>5 DEF Inv, Minimal
  <2>7. \A r \in KeptBefore(2) : records[2].value <= Slack[r]
    BY <2>1, <2>3, <2>5 DEF Inv, Minimal
  <2>8. \A r \in KeptBefore(3) : WithinGap(incumbent, r, Cost, FALSE)
    <3>1. 3 \in 1 .. Len(records) /\ ~(3 < Len(Stages))
      BY <2>1
    <3>2. \A r \in KeptBefore(3) : WithinGap(incumbent, r, Stages[3], FALSE)
      BY <2>3, <3>1 DEF Inv, Minimal
    <3> QED
      BY <2>5, <3>2
  <2>9. /\ Service[incumbent] <= records[1].value + Tolerance
        /\ Slack[incumbent] <= records[2].value + Tolerance
    BY <2>2, <2>5 DEF Keeps
  <2>n. PICK sq \in Int, si \in Int, lq \in Int, li \in Int :
            /\ sq = Service[q] /\ si = Service[incumbent]
            /\ lq = Slack[q] /\ li = Slack[incumbent]
    BY <2>2, <2>4
  <2>v. PICK v1 \in Int, v2 \in Int, tol \in Nat :
            v1 = records[1].value /\ v2 = records[2].value /\ tol = Tolerance
    BY <2>3, <2>4
  <2>b. si <= v1 + tol /\ li <= v2 + tol
    BY <2>9, <2>n, <2>v
  <2>10. Service[incumbent] <= Service[q] + Tolerance
    <3>1. q \in KeptBefore(1)
      BY DEF KeptBefore
    <3>2. v1 <= sq
      BY <2>6, <2>n, <2>v, <3>1
    <3>3. si <= sq + tol
      BY <2>b, <3>2
    <3> QED
      BY <2>n, <2>v, <3>3
  <2>11. ASSUME BestService(q) PROVE Keeps(q, 1) /\ q \in KeptBefore(2)
    <3>1. Service[q] <= Service[incumbent]
      BY <2>2, <2>11 DEF BestService
    <3>2. Service[q] <= records[1].value + Tolerance
      <4>1. sq <= v1 + tol
        BY <2>b, <2>n, <3>1
      <4> QED
        BY <2>n, <2>v, <4>1
    <3> QED
      BY <2>5, <3>2 DEF Keeps, KeptBefore
  <2>12. ASSUME BestService(q) PROVE Slack[incumbent] <= Slack[q] + Tolerance
    <3>1. records[2].value <= Slack[q]
      BY <2>7, <2>11, <2>12
    <3>2. li <= lq + tol
      BY <2>b, <2>n, <2>v, <3>1
    <3> QED
      BY <2>n, <2>v, <3>2
  <2>13. ASSUME BestService(q), BestSlack(q) PROVE WithinGap(incumbent, q, Cost, FALSE)
    <3>1. Slack[q] <= Slack[incumbent]
      BY <2>2, <2>10, <2>13 DEF BestSlack
    <3>2. Slack[q] <= records[2].value + Tolerance
      <4>1. lq <= v2 + tol
        BY <2>b, <2>n, <3>1
      <4> QED
        BY <2>n, <2>v, <4>1
    <3>3. Keeps(q, 1) /\ Keeps(q, 2)
      BY <2>5, <2>11, <2>13, <3>2 DEF Keeps
    <3>4. q \in KeptBefore(3)
      <4>1. \A k \in 1 .. (3 - 1) : k = 1 \/ k = 2
        OBVIOUS
      <4> QED
        BY <3>3, <4>1 DEF KeptBefore
    <3> QED
      BY <2>8, <3>4
  <2> QED
    BY <2>10, <2>12, <2>13
<1> QED
  BY <1>1, StagesHold, PTL

(* What is proven of an optimization of one stage: no plan of the program  *)
(* is better by more than the gap (termination "optimal" of solvePTO and   *)
(* of a replan without operator requirements).                             *)
ProvenIsOptimal ==
    Returned /\ kind # "lexicographic" /\ records[1].proven
        => \A q \in feasible : WithinGap(incumbent, q, Stages[1], FALSE)

(* A day-ahead plan, or a replan without operator requirements, that is    *)
(* reported as optimal is optimal within the gap, whatever solvers failed  *)
(* before the one that answered.                                           *)
THEOREM OneStageIsOptimal == Spec => []ProvenIsOptimal
<1>1. Inv => ProvenIsOptimal
  <2> SUFFICES ASSUME Inv, Returned, kind # "lexicographic", records[1].proven,
                      NEW q \in feasible
               PROVE  WithinGap(incumbent, q, Stages[1], FALSE)
    BY DEF ProvenIsOptimal
  <2>1. kind \in DayAhead \/ kind = "weighted"
    BY DEF Inv, TypeOK, Kinds
  <2>2. Len(Stages) = 1
    <3>1. CASE kind \in DayAhead
      BY <3>1, StagesType DEF Inv, TypeOK
    <3>2. CASE kind = "weighted"
      <4> DEFINE sum == [p \in Plans |-> Service[p] + Cost[p]]
      <4>1. Stages = <<sum>>
        BY <3>2 DEF Stages, DayAhead
      <4> HIDE DEF sum
      <4> QED
        BY <4>1
    <3> QED
      BY <2>1, <3>1, <3>2
  <2>3. 1 \in 1 .. Len(records) /\ ~(1 < Len(Stages))
    <3>1. Len(records) = Len(Stages)
      BY DEF Inv, Counted
    <3> QED
      BY <2>2, <3>1
  <2>4. q \in KeptBefore(1)
    BY DEF KeptBefore
  <2> QED
    BY <2>3, <2>4 DEF Inv, Minimal
<1> QED
  BY <1>1, StagesHold, PTL
=============================================================================
