----------------------------- MODULE FleetPlan -----------------------------
(***************************************************************************)
(* A day-ahead plan for the fleet of a depot and its replanning after a    *)
(* notice (optimizer_service.py over optimization/day_ahead.py and         *)
(* optimization/real_time.py).                                             *)
(*                                                                         *)
(* The integer programs are the sets of plans that satisfy their           *)
(* constraints; the solver returns any plan of the set whose score is      *)
(* within the gap it is asked for.  Energy is in integer units, chosen so  *)
(* that the efficiencies 0.9 and 1 / 0.9 are exact: every charger rate is  *)
(* a multiple of 90.  Prices are per unit; costs are in hundredths.        *)
(*                                                                         *)
(* An input is a record of                                                 *)
(*   minutes   the length of a step                                        *)
(*   trips     per trip begin and end (Horizon) and the draw per step;     *)
(*             trip i belongs to bus i, as in every registered input       *)
(*   capacity  per bus,  soc: per bus in per cent                          *)
(*   rate      per charger, energy per step at its nominal power           *)
(*   spot      rows of step and value,  buy, sell: the tariffs, hundredths *)
(*   v2g       whether buses may feed energy back                          *)
(* A notice is a record of from (the first step it may change), delays     *)
(* (late returns: bus and minutes) and deratings (charger, rate, first and *)
(* last step).                                                             *)
(***************************************************************************)
EXTENDS Horizon, FiniteSetsExt

CONSTANTS
    Inputs,          \* registered inputs
    Notices,         \* notices that may arrive
    IncumbentSteps,  \* longest rest of the day for which a solver stopped by
                     \* its limit is explored (a bound of the model)
    None

(* A registered input has one price and one tariff row per step.  Its      *)
(* times are clock times or whole steps: a half is an hour of the day to   *)
(* parse_time_to_step and part of a step to get_duration_steps.  Its       *)
(* units make reserves and efficiencies exact.                             *)
Registered(in) ==
    /\ in.minutes \in Nat \ {0}
    /\ in.trips \in Seq([begin : Time, end : Time, draw : Nat])
    /\ \A i \in DOMAIN in.trips : \A v \in {in.trips[i].begin, in.trips[i].end} :
            v.clock \/ v.n % 2 = 0
    /\ in.capacity \in Seq(Nat)
    /\ \A k \in DOMAIN in.capacity : in.capacity[k] % 5 = 0
    /\ Len(in.trips) <= Len(in.capacity)
    /\ in.soc \in [DOMAIN in.capacity -> Nat]
    /\ in.rate \in Seq(Nat)
    /\ \A n \in DOMAIN in.rate : in.rate[n] % 90 = 0
    /\ in.spot \in Seq([step : Int, value : Int])
    /\ Len(in.spot) = Steps(in.minutes)
    /\ in.buy \in Seq(Int) /\ in.buy # <<>>
    /\ in.sell \in Seq(Int) /\ in.sell # <<>>

(* A notice observed in a step of the day changes what follows it.  It     *)
(* derates a charger once, below its nominal rate.                         *)
Reportable(n, in) ==
    /\ n.from \in 2 .. Steps(in.minutes)
    /\ IsFiniteSet(n.delays)
    /\ n.delays \subseteq [bus : Nat, minutes : Nat]
    /\ n.deratings \in Seq([charger : Nat, rate : Nat, first : Int, last : Int])
    /\ \A i, j \in DOMAIN n.deratings :
            n.deratings[i].charger = n.deratings[j].charger => i = j
    /\ \A i \in DOMAIN n.deratings :
            /\ n.deratings[i].rate % 90 = 0
            /\ n.deratings[i].charger \in DOMAIN in.rate =>
                    n.deratings[i].rate <= in.rate[n.deratings[i].charger]

ASSUME InputsAssumption ==
    /\ \A in \in Inputs : Registered(in) /\ \A n \in Notices : Reportable(n, in)
    /\ None \notin Inputs /\ None \notin Notices /\ None \notin Nat

VARIABLES
    input,      \* the input of the approved plan, or of the last attempt
    baseline,   \* the approved day-ahead result: buy, sell, energy by step
    notice,     \* the notice being acted on
    candidate,  \* the result of the remaining-horizon optimization
    outcome     \* how the last optimization ended

vars == <<input, baseline, notice, candidate, outcome>>

-----------------------------------------------------------------------------
(* What a bus does in a step: Drive(i) trip i, Charge(n) or Discharge(n)   *)
(* at charger n, or nothing.                                               *)
Op(kind, on) == [kind |-> kind, on |-> on]
Idle == Op("idle", 0)
Drive(i) == Op("drive", i)
Plugged(op) == op.kind \in {"charge", "discharge"}

(* One bus per trip and one operation per charger. *)
Exclusive(move) ==
    \A j, k \in DOMAIN move :
        /\ j # k
        /\ \/ Plugged(move[j]) /\ Plugged(move[k])
           \/ move[j].kind = "drive" /\ move[k].kind = "drive"
        => move[j].on # move[k].on

(* The moves of a fleet whose bus k may do ops[k]. *)
Moves(ops) ==
    {move \in [DOMAIN ops -> UNION {ops[k] : k \in DOMAIN ops}] :
        /\ \A k \in DOMAIN ops : move[k] \in ops[k]
        /\ Exclusive(move)}

SumOver(series, over) == MapThenSumSet(LAMBDA s : series[s], over)

(* Efficiencies of charging and discharging. *)
Gain(energy) == (9 * energy) \div 10
Drain(energy) == (10 * energy) \div 9

Change(op, rate, draw) ==
    CASE op.kind = "charge" -> Gain(rate[op.on])
      [] op.kind = "discharge" -> -Drain(rate[op.on])
      [] op.kind = "drive" -> -draw[op.on]
      [] op.kind = "idle" -> 0

(* The energy the depot buys ("charge") or sells ("discharge") in a step. *)
Exchanged(move, kind, rate) ==
    LET doing == {k \in DOMAIN move : move[k].kind = kind}
    IN  SumOver([k \in doing |-> rate[move[k].on]], doing)

Reserve(capacity) == capacity \div 5

(* The plans a solver may return: within a part of the best score. *)
NearOptimal(plans, score(_), part) ==
    LET best == Min({score(p) : p \in plans})
        magnitude == IF best < 0 THEN -best ELSE best
    IN  {p \in plans : score(p) - best <= magnitude \div part}

Bill(buy, sell, plan) ==
    SumOver([s \in DOMAIN buy |-> buy[s] * plan.buy[s] - sell[s] * plan.sell[s]],
            DOMAIN buy)

-----------------------------------------------------------------------------
(* The day-ahead plan. *)

(* extract_scalars; the parts an input without trips, buses or chargers    *)
(* would lack are not enumerated.                                          *)
DayInput(in) ==
    LET T == DaySteps(in.minutes, Len(in.spot))
        trips == DOMAIN in.trips
    IN  [T |-> T,
         valid |-> \A i \in trips : Accepted(in.trips[i], in.minutes, T),
         window |-> [i \in trips |-> DayWindow(in.trips[i], in.minutes, T)],
         draw |-> [i \in trips |-> in.trips[i].draw],
         rate |-> in.rate,
         capacity |-> in.capacity,
         energy |-> [k \in DOMAIN in.capacity |->
                        (in.soc[k] * in.capacity[k]) \div 100],
         buy |-> Expand(in.buy, T),
         sell |-> Expand(in.sell, T),
         v2g |-> in.v2g]

(* Wrong, as a mutant, when the window is read as counted from zero. *)
DrivenFromZero(window, s) == s \in window.start + 1 .. window.end
Driven(window, s) == s \in window.start .. window.end - 1

(* Bus k drives in the window of trip k and no other trip; outside its     *)
(* window it may drive as well (nothing forbids it), or be at a charger.   *)
(* No bus discharges in the first step.                                    *)
DayOps(day, k, s) ==
    LET own == {k} \cap DOMAIN day.window
        chargers == DOMAIN day.rate
    IN  IF \E i \in own : Driven(day.window[i], s) THEN {Drive(k)}
        ELSE {Idle} \cup {Drive(i) : i \in own}
                \cup {Op("charge", n) : n \in chargers}
                \cup {Op("discharge", n) : n \in
                        {m \in chargers : day.v2g /\ s > 1}}

(* What a plan is extended by in step s.  The energy of step 1 is the      *)
(* initial energy whatever the buses do in it.                             *)
DayStep(day, plan, move, s) ==
    [buy |-> Append(plan.buy, Exchanged(move, "charge", day.rate)),
     sell |-> Append(plan.sell, Exchanged(move, "discharge", day.rate)),
     energy |-> Append(plan.energy, [k \in DOMAIN day.capacity |->
        IF s = 1 THEN day.energy[k]
        ELSE plan.energy[s - 1][k] + Change(move[k], day.rate, day.draw)])]

Unwritten == [buy |-> <<>>, sell |-> <<>>, energy |-> <<>>]

DayMoves(day, s) == Moves([k \in DOMAIN day.capacity |-> DayOps(day, k, s)])

(* Every bus keeps its reserve. *)
DayWithin(day, plan, s) ==
    \A k \in DOMAIN day.capacity :
        plan.energy[s][k] \in Reserve(day.capacity[k]) .. day.capacity[k]

(* solvePTO's constraints, step after step: the feasible plans, as the     *)
(* series the result reports.  Constraints 4, 9 and 12 follow from the     *)
(* others.                                                                 *)
DayExtended(day, plans, s) ==
    {p \in {DayStep(day, q, move, s) : q \in plans, move \in DayMoves(day, s)} :
        DayWithin(day, p, s)}

DayUpTo(day) ==
    LET upTo[s \in 0 .. day.T] ==
            IF s = 0 THEN {Unwritten} ELSE DayExtended(day, upTo[s - 1], s)
    IN  upTo

DayPlans(day) == DayUpTo(day)[day.T]

(* optimize_day_ahead with the solver's gap of 4 per cent. *)
DayResults(day) ==
    LET plans == DayPlans(day)
    IN  IF plans = {} THEN {}
        ELSE NearOptimal(plans, LAMBDA p : Bill(day.buy, day.sell, p), 25)

-----------------------------------------------------------------------------
(* The context of a replan: optimize_real_time and build_rt_context. *)

(* The energy handed over to the replan is the baseline's after the last   *)
(* step the notice leaves alone; wrong, as a mutant, when it is that of    *)
(* the step the notice begins with.                                        *)
StateIndexOfStart(from) == Max({0, from - 1}) + 1
StateIndex(from) == Max({0, from - 2}) + 1

HandedOver(in, base, from) ==
    [k \in DOMAIN in.capacity |->
        IF StateIndex(from) <= Len(base.energy)
        THEN Clamp(base.energy[StateIndex(from)][k], 0, in.capacity[k])
        ELSE (in.soc[k] * in.capacity[k]) \div 100]

(* The rate of charger n in step s of the day: the last derating that      *)
(* names the charger writes its whole schedule, and a schedule that does   *)
(* not cover the day is ignored.                                           *)
RateAt(in, deratings, n, s) ==
    LET naming == {i \in DOMAIN deratings : deratings[i].charger = n}
        last == deratings[Max(naming)]
    IN  IF /\ naming # {}
           /\ Len(in.spot) = Steps(in.minutes)
           /\ s \in Max({1, last.first}) .. Min({Len(in.spot), last.last})
        THEN last.rate ELSE in.rate[n]

(* The rates of the rest of the day, which starts at step cur; wrong, as a *)
(* mutant, when the slice starts one step later.                           *)
RatesFromNext(in, deratings, cur) ==
    [s \in 1 .. Steps(in.minutes) - cur + 1 |->
        [n \in DOMAIN in.rate |-> RateAt(in, deratings, n, cur + s)]]
RatesFrom(in, deratings, cur) ==
    [s \in 1 .. Steps(in.minutes) - cur + 1 |->
        [n \in DOMAIN in.rate |-> RateAt(in, deratings, n, cur + s - 1)]]

BuyMultipliers == <<105, 110, 105>>
SellMultipliers == <<80, 85, 80>>

(* Default multipliers over the day; with exactly three steps left they    *)
(* are taken as the steps left.                                            *)
MultipliersFrom(three, F, cur) ==
    IF F - cur + 1 = 3
    THEN Align([i \in 1 .. 3 |-> [step |-> 0, value |-> three[i]]], F, cur)
    ELSE Schedule(three, <<1, 2, 3>>, F)

DelayOf(delays, bus) ==
    LET late == {d \in delays : d.bus = bus}
    IN  SumOver([d \in late |-> d.minutes], late)

(* The window of a trip in steps of the rest of the day. *)
Local(window, F, cur) ==
    [start |-> Max({1, window.start - cur + 1}),
     end |-> Min({F - cur + 1, window.end - cur + 1})]

Context(in, base, n) ==
    LET F == Steps(in.minutes)
        cur == Clamp(n.from, 1, F)
        window == [i \in DOMAIN in.trips |->
                    RtWindow(in.trips[i], DelayOf(n.delays, i), in.minutes, F)]
        left == {i \in DOMAIN in.trips : window[i].end > cur}
        spot == Align(in.spot, F, cur)
        buys == MultipliersFrom(BuyMultipliers, F, cur)
        sells == MultipliersFrom(SellMultipliers, F, cur)
    IN  [cur |-> cur,
         T |-> F - cur + 1,
         trips |-> left,
         window |-> [i \in left |-> Local(window[i], F, cur)],
         underway |-> {i \in left : Driven(window[i], cur)},
         draw |-> [i \in left |-> in.trips[i].draw],
         rate |-> RatesFrom(in, n.deratings, cur),
         capacity |-> in.capacity,
         energy |-> HandedOver(in, base, n.from),
         buy |-> [s \in 1 .. F - cur + 1 |->
                    spot[cur + s - 1] * buys[cur + s - 1]],
         sell |-> [s \in 1 .. F - cur + 1 |->
                    spot[cur + s - 1]
                        * Min({sells[cur + s - 1], buys[cur + s - 1] - 1})],
         v2g |-> in.v2g]

-----------------------------------------------------------------------------
(* The remaining-horizon program: solve_rt_rescheduling. *)

Active(ctx, s) == {i \in ctx.trips : Driven(ctx.window[i], s)}

(* Any bus may drive any active trip; without feeding back, only a charger *)
(* without power can be discharged at.                                     *)
RtOps(ctx, s) ==
    {Idle} \cup {Drive(i) : i \in Active(ctx, s)}
        \cup {Op("charge", n) : n \in DOMAIN ctx.rate[s]}
        \cup {Op("discharge", n) : n \in
                {m \in DOMAIN ctx.rate[s] : ctx.v2g \/ ctx.rate[s][m] = 0}}

Shortfall(energy, capacity) == Max({0, Reserve(capacity) - energy})

(* bus drives per active trip, None where the trip is not served. *)
DriverOf(move, i) ==
    LET at == {k \in DOMAIN move : move[k] = Drive(i)}
    IN  IF at = {} THEN None ELSE CHOOSE k \in at : TRUE

RtStep(ctx, plan, move, s) ==
    [buy |-> Append(plan.buy, Exchanged(move, "charge", ctx.rate[s])),
     sell |-> Append(plan.sell, Exchanged(move, "discharge", ctx.rate[s])),
     energy |-> Append(plan.energy, [k \in DOMAIN ctx.capacity |->
        (IF s = 1 THEN ctx.energy[k] ELSE plan.energy[s - 1][k])
            + Change(move[k], ctx.rate[s], ctx.draw)]),
     driver |-> Append(plan.driver,
                       [i \in Active(ctx, s) |-> DriverOf(move, i)])]

(* The floor is soft before the last step. *)
Within(ctx, plan, s) ==
    \A k \in DOMAIN ctx.capacity :
        plan.energy[s][k] \in
            (IF s = ctx.T THEN Reserve(ctx.capacity[k]) ELSE 0) .. ctx.capacity[k]

Unserved(plan, s) == {i \in DOMAIN plan.driver[s] : plan.driver[s][i] = None}

Short(ctx, plan, s) ==
    {k \in DOMAIN ctx.capacity : Shortfall(plan.energy[s][k], ctx.capacity[k]) > 0}

RtMoves(ctx, s) == Moves([k \in DOMAIN ctx.capacity |-> RtOps(ctx, s)])

(* The feasible plans; with spotless only those that serve every trip and  *)
(* keep every reserve in every step.                                       *)
RtUnwritten == [buy |-> <<>>, sell |-> <<>>, energy |-> <<>>, driver |-> <<>>]

RtExtended(ctx, spotless, plans, s) ==
    {p \in {RtStep(ctx, q, move, s) : q \in plans, move \in RtMoves(ctx, s)} :
        /\ Within(ctx, p, s)
        /\ spotless => Unserved(p, s) = {} /\ Short(ctx, p, s) = {}}

RtUpTo(ctx, spotless) ==
    LET upTo[s \in 0 .. ctx.T] ==
            IF s = 0 THEN {RtUnwritten}
            ELSE RtExtended(ctx, spotless, upTo[s - 1], s)
    IN  upTo

RtPlans(ctx) == RtUpTo(ctx, FALSE)[ctx.T]

(* Changes of driver between two steps count once per bus concerned. *)
Switches(ctx, plan, i, s) ==
    LET driver(t) ==
            IF t = 0 THEN (IF i \in ctx.underway THEN i ELSE None)
            ELSE IF i \in DOMAIN plan.driver[t] THEN plan.driver[t][i] ELSE None
    IN  IF driver(s) = driver(s - 1) THEN 0
        ELSE Cardinality({driver(s), driver(s - 1)} \ {None})

(* baseline_weighted_score in hundredths: service, reserve and continuity  *)
(* before switching and cost.                                              *)
Score(ctx, plan) ==
    LET steps == 1 .. ctx.T
        begun(i) == plan.driver[1][i]
        switches == [p \in ctx.trips \X steps |-> Switches(ctx, plan, p[1], p[2])]
        unserved == [s \in steps |-> Cardinality(Unserved(plan, s))
                                        * (10000000 * (ctx.T - s + 1) + 500000)]
        lacking == [p \in (DOMAIN ctx.capacity) \X steps |->
                        Shortfall(plan.energy[p[2]][p[1]], ctx.capacity[p[1]])]
    IN  Bill(ctx.buy, ctx.sell, plan)
        + 2500 * SumOver(switches, DOMAIN switches)
        + SumOver(unserved, steps)
        + 5000000 * Cardinality({i \in ctx.underway : begun(i) = None})
        + 2000000 * Cardinality({i \in ctx.underway : begun(i) # i})
        + 800000 * SumOver(lacking, DOMAIN lacking)

(* The gap of the single stage is 2 per cent. *)
Optimized(ctx, plans) == NearOptimal(plans, LAMBDA p : Score(ctx, p), 50)

-----------------------------------------------------------------------------
(* The result: extract_time_series_results and the validation and          *)
(* comparison of optimize_real_time.  Steps are those of the day.          *)

CoveredAt(plan, i, s) == plan.driver[s][i] # None

(* A trip without a step before counts as covered as it is now; wrong, as  *)
(* a mutant, when it counts as covered.                                    *)
WasCoveredAtFirst(plan, i, s) ==
    \/ s = 1
    \/ i \in DOMAIN plan.driver[s - 1] /\ CoveredAt(plan, i, s - 1)
WasCovered(plan, i, s) ==
    IF s = 1 THEN CoveredAt(plan, i, s)
    ELSE i \in DOMAIN plan.driver[s - 1] /\ CoveredAt(plan, i, s - 1)

WasUncovered(plan, i, s) ==
    s > 1 /\ i \in DOMAIN plan.driver[s - 1] /\ ~CoveredAt(plan, i, s - 1)

Interruptions(ctx, plan) ==
    {[trip |-> p[1], step |-> ctx.cur + p[2] - 1] : p \in
        {q \in ctx.trips \X (1 .. ctx.T) :
            /\ q[1] \in Active(ctx, q[2])
            /\ WasCovered(plan, q[1], q[2]) /\ ~CoveredAt(plan, q[1], q[2])}}

Restorations(ctx, plan) ==
    {[trip |-> p[1], step |-> ctx.cur + p[2] - 1] : p \in
        {q \in ctx.trips \X (1 .. ctx.T) :
            /\ q[1] \in Active(ctx, q[2])
            /\ WasUncovered(plan, q[1], q[2]) /\ CoveredAt(plan, q[1], q[2])}}

Net(plan, s) == plan.buy[s] - plan.sell[s]

(* _compare_with_baseline over the baseline's steps from first on; it      *)
(* raises when they do not reach the end of the day, which with one price  *)
(* row per step they do.  Wrong, as a mutant, when the slice starts with   *)
(* the last step before the replan.                                        *)
CompareFrom(first, base, ctx, plan) ==
    LET steps == 1 .. ctx.T
        part == [buy |-> SubSeq(base.buy, first, first + ctx.T - 1),
                 sell |-> SubSeq(base.sell, first, first + ctx.T - 1),
                 energy |-> SubSeq(base.energy, first, first + ctx.T - 1)]
    IN  [changed |-> Cardinality({s \in steps :
                        \/ Net(plan, s) # Net(part, s)
                        \/ plan.energy[s] # part.energy[s]}),
         cost |-> Bill(ctx.buy, ctx.sell, plan) - Bill(ctx.buy, ctx.sell, part),
         purchase |-> SumOver(plan.buy, steps) - SumOver(part.buy, steps),
         export |-> SumOver(plan.sell, steps) - SumOver(part.sell, steps)]

CompareEarlier(base, ctx, plan) ==
    CompareFrom(Max({1, ctx.cur - 1}), base, ctx, plan)
Compare(base, ctx, plan) == CompareFrom(ctx.cur, base, ctx, plan)

Result(base, ctx, plan, limited) ==
    LET unserved == UNION {Unserved(plan, s) : s \in 1 .. ctx.T}
        short == {s \in 1 .. ctx.T : Short(ctx, plan, s) # {}}
    IN  [first |-> ctx.cur,
         steps |-> ctx.T,
         plan |-> plan,
         interruptions |-> Interruptions(ctx, plan),
         restorations |-> Restorations(ctx, plan),
         passed |-> unserved = {} /\ short = {} /\ ~limited,
         comparison |-> Compare(base, ctx, plan)]

-----------------------------------------------------------------------------
Init ==
    /\ input = None
    /\ baseline = None
    /\ notice = None
    /\ candidate = None
    /\ outcome = "none"

(* A day-ahead run whose input is refused: ValueError in extract_scalars. *)
RefuseDay(i) ==
    /\ baseline = None
    /\ ~DayInput(i).valid
    /\ input' = i
    /\ outcome' = "failed"
    /\ UNCHANGED <<baseline, notice, candidate>>

(* The solver proves that no plan exists. *)
NoDayPlan(i) ==
    LET day == DayInput(i)
    IN  /\ baseline = None
        /\ day.valid
        /\ DayPlans(day) = {}
        /\ input' = i
        /\ outcome' = "infeasible"
        /\ UNCHANGED <<baseline, notice, candidate>>

(* A plan is found and, approved, becomes the baseline. *)
PlanDay(i) ==
    LET day == DayInput(i)
    IN  /\ baseline = None
        /\ day.valid
        /\ \E plan \in DayResults(day) : baseline' = plan
        /\ input' = i
        /\ outcome' = "succeeded"
        /\ UNCHANGED <<notice, candidate>>

(* The baseline stays the approved plan, whatever replans were tried.      *)
(* Wrong, as a mutant, when the notice keeps the candidate of the last.    *)
NotifyKeepingCandidate(n) ==
    /\ baseline # None
    /\ notice' = n
    /\ outcome' = "none"
    /\ UNCHANGED <<input, baseline, candidate>>
Notify(n) ==
    /\ baseline # None
    /\ notice' = n
    /\ candidate' = None
    /\ outcome' = "none"
    /\ UNCHANGED <<input, baseline>>

(* The solver reaches its gap, or (limited) stops at its limit with any    *)
(* plan; a result that fails its validation is kept as degraded.           *)
Replan(limited) ==
    LET ctx == Context(input, baseline, notice)
        plans == RtPlans(ctx)
    IN  /\ notice # None
        /\ candidate = None
        /\ outcome = "none"
        /\ ctx.trips # {}
        /\ limited => ctx.T <= IncumbentSteps
        /\ plans # {}
        /\ \E plan \in (IF limited THEN plans ELSE Optimized(ctx, plans)) :
            candidate' = Result(baseline, ctx, plan, limited)
        /\ outcome' = IF candidate'.passed THEN "succeeded" ELSE "degraded"
        /\ UNCHANGED <<input, baseline, notice>>

(* No trip is left to drive, or no plan keeps the hard constraints. *)
NoReplan ==
    LET ctx == Context(input, baseline, notice)
    IN  /\ notice # None
        /\ candidate = None
        /\ outcome = "none"
        /\ ctx.trips = {} \/ RtPlans(ctx) = {}
        /\ outcome' = "infeasible"
        /\ UNCHANGED <<input, baseline, notice, candidate>>

Next ==
    \/ \E i \in Inputs : RefuseDay(i) \/ NoDayPlan(i) \/ PlanDay(i)
    \/ \E n \in Notices : Notify(n)
    \/ \E limited \in BOOLEAN : Replan(limited)
    \/ NoReplan

Spec == Init /\ [][Next]_vars

-----------------------------------------------------------------------------
(* A result, a baseline or neither; what an outcome says about them. *)
TypeOK ==
    /\ input \in Inputs \cup {None}
    /\ notice \in Notices \cup {None}
    /\ outcome \in {"none", "failed", "infeasible", "succeeded", "degraded"}
    /\ baseline # None => input # None /\ outcome # "failed"
    /\ candidate # None => /\ notice # None
                           /\ outcome = IF candidate.passed
                                        THEN "succeeded" ELSE "degraded"

-----------------------------------------------------------------------------
(* The reference: what a timetable says, in minutes or in steps, without   *)
(* the windows of either optimizer.  Step s lies wholly within the trip    *)
(* moved by delay minutes.                                                 *)
During(trip, s, delay, M) ==
    IF trip.begin.clock
    THEN trip.begin.n + delay <= (s - 1) * M /\ s * M <= trip.end.n + delay
    ELSE /\ trip.begin.n * M + 2 * delay <= 2 * s * M
         /\ 2 * (s + 1) * M <= trip.end.n * M + 2 * delay

Days == 1 .. Steps(input.minutes)

(* The day-ahead result pays for its timetable: over every step of a trip, *)
(* the bus of the trip loses the draw of the trip.  Two maps from times to *)
(* steps and a check between them could each be off by one (parse_time_    *)
(* to_step, get_duration_steps, extract_scalars).                          *)
TimetableIsDriven ==
    baseline # None =>
        \A i \in DOMAIN input.trips, s \in Days \ {1} :
            During(input.trips[i], s, 0, input.minutes) =>
                baseline.energy[s][i]
                    = baseline.energy[s - 1][i] - input.trips[i].draw

(* A replan that passed its validation has a bus on every trip in every    *)
(* step of the day that lies within the trip as the notice moved it, and   *)
(* no bus below its reserve (optimize_real_time's validation).  The last   *)
(* step of the day is left out: windows end with it, so a trip delayed     *)
(* into it loses that step, and validation does not see it.                *)
PassedMeansEveryTripDriven ==
    candidate # None /\ candidate.passed =>
        \A i \in DOMAIN input.trips, s \in notice.from .. Steps(input.minutes) - 1 :
            During(input.trips[i], s, DelayOf(notice.delays, i), input.minutes) =>
                LET t == s - candidate.first + 1
                IN  /\ i \in DOMAIN candidate.plan.driver[t]
                    /\ candidate.plan.driver[t][i] \in DOMAIN input.capacity
                    /\ \A k \in DOMAIN input.capacity :
                        5 * candidate.plan.energy[t][k] >= input.capacity[k]

(* No bus loses the draw of its trip outside the trip.  The day-ahead      *)
(* program lets a bus drive outside its window (constraint 3 asks only for *)
(* the window), and makes it drive a trip that has no duration in a step.  *)
OnlyTheTimetableIsDriven ==
    \A i \in DOMAIN input.trips, s \in Days \ {1} :
        ~During(input.trips[i], s, 0, input.minutes) =>
            baseline.energy[s][i]
                # baseline.energy[s - 1][i] - input.trips[i].draw

(* An approved plan that drives its timetable and no more can be carried   *)
(* on from any of its steps: with nothing to report, the remaining-horizon *)
(* program has a plan that serves every trip and keeps every reserve.  The *)
(* two programs are written separately, with energy handed over between    *)
(* them (optimize_real_time).  A plan that drives more cannot always be:   *)
(* the other program has no such operation, and a battery too full for a   *)
(* whole step of charging is not charged at all.                           *)
UndisturbedReplanIsServable ==
    baseline # None /\ notice = None /\ OnlyTheTimetableIsDriven =>
        \A from \in 2 .. Steps(input.minutes) :
            LET ctx == Context(input, baseline,
                            [from |-> from, delays |-> {}, deratings |-> <<>>])
            IN  RtUpTo(ctx, TRUE)[ctx.T] # {}

(* The day made of the baseline before the notice and the candidate after  *)
(* it is physical: between two steps the fleet's energy changes by what    *)
(* the depot exchanged and the trips that were driven drew, and the depot  *)
(* exchanges no more than its chargers may as the notice derates them.     *)
(* The energy handed over, the slice of the deratings and the result come  *)
(* from three places (optimize_real_time, build_rt_context).               *)
SplicedDayIsPhysical ==
    candidate # None =>
        LET plan == candidate.plan
            fleet(energy) == SumOver(energy, DOMAIN input.capacity)
            before(t) == IF t = 1 THEN baseline.energy[candidate.first - 1]
                         ELSE plan.energy[t - 1]
            driven(t) == DOMAIN plan.driver[t] \ Unserved(plan, t)
            held(n, s) == {d \in {notice.deratings[i] : i \in DOMAIN notice.deratings} :
                            d.charger = n /\ s \in d.first .. d.last}
            power(n, s) == Min({input.rate[n]} \cup {d.rate : d \in held(n, s)})
        IN  \A t \in 1 .. candidate.steps :
            /\ fleet(plan.energy[t]) - fleet(before(t))
                = Gain(plan.buy[t]) - Drain(plan.sell[t])
                    - SumOver([i \in driven(t) |-> input.trips[i].draw], driven(t))
            /\ plan.buy[t] + plan.sell[t]
                <= SumOver([n \in DOMAIN input.rate |->
                                power(n, candidate.first + t - 1)],
                           DOMAIN input.rate)

(* The operator compares like with like: the changed intervals are the     *)
(* steps of the day where baseline and candidate differ, the differences   *)
(* of purchase and export are those of the whole spliced day, and a        *)
(* candidate that changes nothing costs the same (_compare_with_baseline). *)
ComparisonSeesEveryChange ==
    candidate # None =>
        LET plan == candidate.plan
            past == 1 .. candidate.first - 1
            spliced(old, new) == SumOver(old, past) + SumOver(new, DOMAIN new)
            differs(s) ==
                LET t == s - candidate.first + 1
                IN  \/ baseline.buy[s] - baseline.sell[s] # plan.buy[t] - plan.sell[t]
                    \/ baseline.energy[s] # plan.energy[t]
            shown == candidate.comparison
        IN  /\ shown.changed = Cardinality({s \in Days \ past : differs(s)})
            /\ shown.purchase = spliced(baseline.buy, plan.buy)
                                    - SumOver(baseline.buy, Days)
            /\ shown.export = spliced(baseline.sell, plan.sell)
                                    - SumOver(baseline.sell, Days)
            /\ baseline.buy = SubSeq(baseline.buy, 1, candidate.first - 1) \o plan.buy
               /\ baseline.sell = SubSeq(baseline.sell, 1, candidate.first - 1) \o plan.sell
                => shown.cost = 0

(* The interruptions and restorations of a result tell the coverage of a   *)
(* trip: from its first step on, they alternate with the gaps              *)
(* (extract_time_series_results, whose bookkeeping of the step before is   *)
(* shared by trips that begin, end and are interrupted).                   *)
EventsTellTheCoverage ==
    candidate # None =>
        \A i \in DOMAIN input.trips :
            LET driver == candidate.plan.driver
                steps == {t \in DOMAIN driver : i \in DOMAIN driver[t]}
                upTo(events, t) == Cardinality({e \in events :
                    e.trip = i /\ e.step < candidate.first + t})
                balance(t) == upTo(candidate.restorations, t)
                                - upTo(candidate.interruptions, t)
                value(t) == IF driver[t][i] = None THEN 0 ELSE 1
            IN  \A t \in steps : balance(t) = value(t) - value(Min(steps))
=============================================================================
