------------------------------ MODULE Horizon ------------------------------
(***************************************************************************)
(* How both optimizers turn a timetable and price series into steps of the *)
(* planning day (optimization/day_ahead.py, optimization/real_time.py).    *)
(* The day has steps 1..F of M minutes; step s is the interval from minute *)
(* (s - 1) * M to minute s * M.                                            *)
(*                                                                         *)
(* A time of the timetable is a record: a clock time, n minutes after      *)
(* midnight, or a bare number, n halves (so that 6.5 is 13).  A trip is    *)
(* driven in the steps start .. end - 1 of its window.                     *)
(***************************************************************************)
EXTENDS Integers, Sequences, FiniteSetsExt

Day == 1440

Time == [clock : BOOLEAN, n : Nat]

Clamp(v, lo, hi) == Max({lo, Min({hi, v})})

(* int(round(a / b)): a half goes to the even neighbour. *)
RoundDiv(a, b) ==
    LET q == a \div b
        r == 2 * (a % b)
    IN  IF r < b \/ (r = b /\ q % 2 = 0) THEN q ELSE q + 1

(* The number of steps both optimizers agree on when the price series has  *)
(* one row per step.                                                       *)
Steps(M) == Max({1, RoundDiv(Day, M)})

(* The day-ahead optimizer falls back to the length of its price series.   *)
DaySteps(M, rows) ==
    IF rows <= 0 \/ Steps(M) % rows = 0 THEN Steps(M) ELSE rows

-----------------------------------------------------------------------------
(* parse_time_to_step, before its last max and min: the step a time begins *)
(* in, or for an end the first step after it.                              *)
ClockStep(minutes, M, isEnd) ==
    minutes \div M + (IF isEnd /\ minutes % M # 0 THEN 2 ELSE 1)

RawStep(v, M, F, isEnd) ==
    IF v.clock THEN ClockStep(v.n, M, isEnd)
    ELSE IF v.n % 2 = 0 /\ v.n <= 2 * F THEN v.n \div 2
    ELSE IF v.n \in 0 .. 48 THEN ClockStep(v.n * 30, M, isEnd)
    ELSE RoundDiv(v.n, 2)

ParseTime(v, M, F, isEnd) == Clamp(RawStep(v, M, F, isEnd), 1, F)

(* get_duration_steps, NoDuration where it raises.  Two clock times count  *)
(* minutes; otherwise the numbers are steps, and a clock time among them   *)
(* is not a number.                                                        *)
NoDuration == -1

DurationSteps(begin, end, M) ==
    LET length == end.n - begin.n
        unit == IF begin.clock THEN M ELSE 2
    IN  IF begin.clock = end.clock /\ length >= 0 /\ length % unit = 0
            THEN length \div unit ELSE NoDuration

-----------------------------------------------------------------------------
(* validate_timestep_consistency: a trip is accepted when the window it    *)
(* maps to has the length the timetable gives.                             *)
Accepted(trip, M, F) ==
    LET duration == DurationSteps(trip.begin, trip.end, M)
    IN  /\ trip.draw > 0
        /\ duration # NoDuration
        /\ duration = ParseTime(trip.end, M, F, TRUE)
                        - ParseTime(trip.begin, M, F, FALSE)

(* The window of the day-ahead plan. *)
DayWindow(trip, M, F) ==
    LET start == Clamp(ParseTime(trip.begin, M, F, FALSE), 1, F - 1)
    IN  [start |-> start,
         end |-> Clamp(ParseTime(trip.end, M, F, TRUE), start + 1, F)]

(* The window of the real-time plan, moved by the delay of its bus; wrong, *)
(* as a mutant, when its end stays where it was.                           *)
RtWindowKeptEnd(trip, delay, M, F) ==
    LET moved == RoundDiv(delay, M)
        start == Min({F, Max({1, ParseTime(trip.begin, M, F, FALSE) + moved})})
    IN  [start |-> start,
         end |-> Min({F, Max({start + 1, ParseTime(trip.end, M, F, TRUE)})})]
RtWindow(trip, delay, M, F) ==
    LET moved == RoundDiv(delay, M)
        start == Min({F, Max({1, ParseTime(trip.begin, M, F, FALSE) + moved})})
    IN  [start |-> start,
         end |-> Min({F, Max({start + 1,
                              ParseTime(trip.end, M, F, TRUE) + moved})})]

-----------------------------------------------------------------------------
(* expand_series_to_horizon: its four branches are one formula. *)
Expand(series, T) ==
    [s \in 1 .. T |-> series[((s - 1) * Len(series)) \div T + 1]]

(* align_series_to_horizon: rows with a step in the day are placed at      *)
(* their step, the last of a step wins, gaps take the value before them,   *)
(* or the first.  Rows without a step are the whole day, the rest of it    *)
(* from the current step, or are stretched.                                *)
Align(rows, T, cur) ==
    LET placed == {i \in 1 .. Len(rows) : rows[i].step \in 1 .. T}
        at(s) == {i \in placed : rows[i].step = s}
        steps == {rows[i].step : i \in placed}
        source(s) == IF \E p \in steps : p <= s
                     THEN Max({p \in steps : p <= s}) ELSE Min(steps)
        values == [i \in 1 .. Len(rows) |-> rows[i].value]
    IN  IF placed # {}
            THEN [s \in 1 .. T |-> rows[Max(at(source(s)))].value]
        ELSE IF Len(rows) = T - cur + 1
            THEN [s \in 1 .. T |-> values[Max({1, s - cur + 1})]]
        ELSE Expand(values, T)

(* scale_boundaries_to_horizon: period ends in steps of the source, scaled *)
(* to T steps, each after the one before it while there is room.           *)
ScaleBoundaries(ends, T) ==
    LET n == Len(ends)
        scaled == [i \in 1 .. n |->
                    IF ends[n] = T THEN ends[i]
                    ELSE Clamp(RoundDiv(ends[i] * T, ends[n]), 1, T)]
        rising[i \in 0 .. n] ==
            IF i = 0 THEN 0 ELSE Min({T, Max({rising[i - 1] + 1, scaled[i]})})
    IN  [i \in 1 .. n |-> IF i = n THEN T ELSE rising[i]]

(* build_multiplier_schedule with one multiplier per period: each holds    *)
(* from the end of the period before it; an exhausted day cuts the rest.   *)
Schedule(multipliers, ends, T) ==
    LET n == Len(multipliers)
        scaled == ScaleBoundaries(ends, T)
        last[i \in 0 .. n] ==
            IF i = 0 THEN 0 ELSE Max({last[i - 1] + 1, Min({T, scaled[i]})})
        period(s) == {i \in 1 .. n : s <= last[i]}
    IN  IF n = T THEN multipliers
        ELSE IF n # Len(ends) THEN Expand(multipliers, T)
        ELSE [s \in 1 .. T |-> multipliers[Min(period(s))]]
=============================================================================
