---------------------------- MODULE MCFleetPlan -----------------------------
(***************************************************************************)
(* FleetPlan on days of five steps of 288 minutes or six of 240, with two  *)
(* buses and one or two chargers.  A charger adds 162 (or 81, derated) per *)
(* step, a trip takes 60, a battery holds 500 and keeps 100: a bus has to  *)
(* charge before it drives, and the charger is contested.                  *)
(***************************************************************************)
EXTENDS FleetPlan

Clock(minutes) == [clock |-> TRUE, n |-> minutes]
Number(step) == [clock |-> FALSE, n |-> 2 * step]
Trip(begin, end) == [begin |-> begin, end |-> end, draw |-> 60]
Rows(values) == [i \in 1 .. Len(values) |-> [step |-> i, value |-> values[i]]]

Depot(steps, trips, rates, spot, v2g) ==
    [minutes |-> 1440 \div steps, trips |-> trips, capacity |-> <<500, 500>>,
     soc |-> <<20, 20>>, rate |-> rates, spot |-> Rows(spot),
     buy |-> [i \in 1 .. Len(spot) |-> 104 * spot[i]],
     sell |-> [i \in 1 .. Len(spot) |-> 78 * spot[i]], v2g |-> v2g]

(* Bus 1 drives in steps 3 and 4, bus 2 in step 4. *)
Nominal == Depot(5, <<Trip(Clock(576), Clock(1152)), Trip(Clock(864), Clock(1152))>>,
                 <<180>>, <<1, 1, 1, 1, 1>>, FALSE)

(* One trip given in steps, a dear last step to export in. *)
Exporting == Depot(5, <<Trip(Number(3), Number(4)), Trip(Clock(864), Clock(1152))>>,
                   <<180>>, <<1, 1, 1, 1, 3>>, TRUE)

(* Six steps of 240 minutes, one bus away for four of them. *)
Long == Depot(6, <<Trip(Clock(480), Clock(960)), Trip(Clock(720), Clock(1200))>>,
              <<180>>, <<2, 1, 1, 2, 1, 2>>, FALSE)

(* Two chargers of different power. *)
Paired == Depot(5, <<Trip(Clock(576), Clock(1152)), Trip(Clock(576), Clock(864))>>,
                <<180, 90>>, <<1, 1, 1, 1, 1>>, FALSE)

(* A trip that begins before any charge has taken effect. *)
TooEarly == Depot(5, <<Trip(Clock(288), Clock(864)), Trip(Clock(864), Clock(1152))>>,
                  <<180>>, <<1, 1, 1, 1, 1>>, FALSE)

(* Times beside the steps, and a trip that ends with the day. *)
Unaligned == Depot(5, <<Trip(Clock(600), Clock(888)), Trip(Clock(864), Clock(1440))>>,
                   <<180>>, <<1, 1, 1, 1, 1>>, FALSE)

SmallInputs == {Nominal, Exporting, Long, Paired, TooEarly, Unaligned}

Late(minutes) == {[bus |-> 1, minutes |-> minutes]}
Derated(rate, first, last) ==
    <<[charger |-> 1, rate |-> rate, first |-> first, last |-> last]>>

Reported(from, delays, deratings) ==
    [from |-> from, delays |-> delays, deratings |-> deratings]

(* 144 minutes are half a step and round to none, 432 round to two. *)
SmallNotices ==
    {Reported(from, {}, <<>>) : from \in 2 .. 5}
    \cup {Reported(from, Late(minutes), <<>>) :
            from \in 3 .. 4, minutes \in {144, 288, 432}}
    \cup {Reported(from, {}, Derated(rate, from, last)) :
            from \in 3 .. 4, rate \in {0, 90}, last \in 4 .. 5}
    \cup {Reported(3, Late(288), Derated(90, 4, 4))}
=============================================================================
