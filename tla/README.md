# A verification project for DepotFlux

DepotFlux is a demonstrator for the charging schedules of an electric bus
depot. Operators queue an optimization, a worker solves it, an operator
approves the result, and single intervals of an approved schedule are sent
through a supervisory gateway to a simulated site controller. Disturbances lead
to a second, real-time optimization based on an approved one.

The code is `aggregator_demo/`. What can go wrong in it and is hard to test is
mostly the same in every part: a row or a register is read, something else
happens, and the stale reading is used; a process dies or stops waiting at the
wrong moment; a retry meets the first attempt; a step of the day is counted from the
wrong end. These modules are about that.

## 1. Inventory

| component | state | operations | talks to |
|---|---|---|---|
| optimization queue (`run_repository.py`, `worker.py`) | table `optimization_runs`: status, owner, heartbeat, recovery count, result and hash, idempotency key | create, claim, complete, degrade, fail, recover stale, cancel | API threads and worker processes share the table; nothing locks a row across read and write, the claim alone is a guarded UPDATE |
| approvals (`approval_repository.py`) | `operator_approvals`, unique per run, with the result hash | decide, timeline | reads runs |
| notices and replanning (`notice_repository.py`) | `operational_notices`, unique per candidate | simulate a notice: candidate run, then notice, two transactions | creates runs; the worker reads notice and baseline |
| control simulation (`control_repository.py`) | `control_simulations`, unique per run and interval | policy, encode, insert | reads runs and approvals |
| dispatch policy and evidence (`dispatch_repository.py`) | `ot_dispatch_attempts`, `security_events` | policy, gateway call, record | reads runs and approvals, HTTP to the gateway |
| gateway (`ot_gateway.py`, `pymodbus_tcp.py`) | replay cache, last heartbeat and the time of its last change, all in memory | dispatch, safe state, controller status | Modbus/TCP to the controller, a connection per attempt |
| controller (`plc_simulator.py`, `modbus_tcp.py`) | holding registers | write three registers, read the snapshot | one lock around a request |
| administration (`admin.py`) | backup file | backup (a SELECT per table), restore (one transaction), seed | all tables, while API and worker may write |
| input registry (`input_registry.py`) | manifest | verify, load | API and worker |
| identity, settings, metrics, monitor (`auth.py`, `ot_security.py`, `settings.py`, `observability.py`, `security_monitor.py`) | counters | stateless checks | API |
| optimizer service (`optimizer_service.py`) | none | day-ahead run, remaining-horizon run: context, validation, comparison with the baseline | called by the worker with input, notice and approved result |
| optimizers (`optimization/day_ahead.py`, `optimization/real_time.py`) | the solver's clone of a program | timetable and series to steps, integer program, stages and solvers, result | optimizer service; external solvers |
| GridTwin (`gridtwin/`) | none between requests | power flow, transients, security study | API |
| dashboard, migrations, scripts | – | presentation, schema history, evidence | – |

What is hard, per component:

* **Queue.** Two workers on one row; a cancellation between the read and the
  write of a result; the heartbeat is written by the claim and by the end of a
  run only, so a solve longer than the threshold (1800 s by default, any
  nonnegative number by configuration; the solver's own default limit is 300 s)
  is recovered while it runs; a crash anywhere; create requests racing on one
  idempotency key. Correct means: a run ends and stays ended, its outcome is
  one outcome, a committed result stays, one key gives one run.
* **Decisions.** Requests load the run row first and use it later. Correct
  means: what is dispatched, simulated or used as a baseline is what an
  operator approved, bound by hash; a decision is final; retries of a replan
  agree.
* **Control path.** Three clocks: the API waits 3 s, a gateway exchange retries
  three times 1 s, a frame given up may still arrive. Threads are not
  serialized across an exchange. Correct means: evidence tells the truth, the
  safe state is zero, the controller is only ever at a power that was asked for.
* **Heartbeat monitor.** Every probe runs on a thread of its own; the value and
  the time of its last change are compared and assigned without a lock. Correct
  means: a frozen controller is noticed, one that counts is left alone.
* **Backup and restore.** Six tables are selected one after the other, deleted
  and inserted one after the other, next to a running system. Correct means: a
  restore replaces the data or does nothing, and a quiet backup restores.
* **Optimizers.** Three functions turn times into steps, the energy at the
  notice and the deratings are sliced out of the day, a result is compared with
  a slice of the baseline, stages lock what earlier stages reached, solvers fail
  and leave values behind. Correct means: trips are driven when the timetable
  says, the spliced day is physical, the operator is shown every change, and
  what is called proven is.

`PROJECT.json` lists each hazard at its line with the properties that watch it.

## 2. Modules

| module | models | kind |
|---|---|---|
| `RunLifecycle` | what the queue promises about status and result of a run, with one worker and with several | abstract specification |
| `RunQueue` | the queue in detail: reads and commits as separate steps, workers, clients, crashes, ageing heartbeats | detailed specification, implements `RunLifecycle` |
| `RunQueueProofs` | theorems about `RunQueue`, with any number of workers and with one | proofs |
| `Decisions` | approvals, notices, control simulations and the dispatch policy, over runs that move as `RunLifecycle` lets them | composition |
| `DecisionsProofs` | theorems about `Decisions` | proofs |
| `DispatchPath` | API thread, gateway thread, frames in flight, controller registers | detailed specification |
| `DispatchPathProofs` | theorems about `DispatchPath` | proofs |
| `HeartbeatMonitor`, `HeartbeatMonitorProofs` | the gateway's monitor over the controller's counter, and theorems about it | detailed specification, proofs |
| `BackupRestore`, `BackupRestoreProofs` | backup and restore next to the system, and theorems about it | detailed specification, proofs |
| `Horizon` | times, windows, price series and period boundaries in steps of the day | operators |
| `FleetPlan`, `FleetPlanProofs` | the day-ahead plan, notices and the remaining-horizon plan of a depot, over `Horizon`; theorems about all of it | specification, proofs |
| `SolverPortfolio`, `SolverPortfolioProofs` | solvers and stages of one optimization and how its end is classified, and theorems about it | detailed specification, proofs |
| `MCRunQueue`, `MCDecisions`, `MCDispatchPath`, `MCFleetPlan` | symmetry, set-points and depots for the configurations | model checking |
| `MCServices` | `SolverPortfolio`, `HeartbeatMonitor` and `BackupRestore`, each alone in its state, in one run | model checking |
| `ServicesProofs` | theorems about the composition | proofs |

`Decisions` and `RunQueue` meet in `RunLifecycle`: `Decisions` takes its steps
of a run from it, and `RunQueue` is shown to implement it, so what holds of
`Decisions` rests on what the queue really does. In `Decisions` recovery of
several rows is several steps, which allows more.

### RunQueue

One row is a record of the columns the properties tell apart. `worker[w]` holds
where `execute_one` stands (`recover`, `select`, `claim`, `solve`, `complete` or
`fail`, `commit`), the run, what was read, and the outcome to be written.

| action | code |
|---|---|
| `RecoverRead`, `RecoverCommit` | `recover_stale`: SELECT of the stale rows, then the commit of all of them |
| `SelectOldest`, `Claim` | `claim_next`: SELECT of the oldest, guarded UPDATE, another try when it hits no row |
| `Solve` | the optimizer: any outcome `execute_one` classifies |
| `CompleteRead`, `FailRead`, `Commit` | `_complete_with_result`; `fail` with the `transition` it calls |
| `Crash` | the process dies; `restart: unless-stopped` starts it again |
| `CreateFind`, `CreateCommit` | `create`: look-up by key, INSERT or the unique key's error and the second look-up |
| `CancelRead`, `CancelCommit` | `request_cancellation` and `transition` |
| `Age` | the stale-claim threshold passes |

`Flush` is how SQLAlchemy writes: only columns whose value differs from the one
loaded, by primary key, whatever the row holds now. That is why a result and a
cancellation can mix in one row, and it matters for every property of the
module. A conflict raised while completing is caught by the last `except` and
becomes `fail`; a conflict raised by `fail` leaves `execute_one` and restarts
the process, which is the idle worker again. A create request without a key is
never looked up by what it asks for, so it carries no fingerprint. `fail` reads
the row, and the `transition` it calls reads it again; `FailRead` is one read. A
cancellation that commits between the two ends as one before or after them
does, or in a conflict that restarts the process.

### Decisions

A request thread loads a run (`Begin`) and then acts in the steps its handler
has: `CheckDecision`, `InsertDecision`; `Simulate`; `Dispatch`, `GatewayAnswers`;
`CreateCandidate`, `CommitNotice`. What a handler demands of the loaded row
alone is tested in `Begin`, since the loaded row cannot change afterwards. The
worker's part of a replan is `LoadNotice` and `Report`. `takeovers` counts the
writes that only a second worker on the same run can make; properties that need
a single worker say `takeovers = 0`.

Three facts of the code the module makes visible and does not judge: the
fingerprint of a replan leaves its baseline out (`Answers` catches it later); a
crash between candidate and notice leaves a key whose retries are refused for
ever; an approval names the run and not the hash the operator looked at.

### DispatchPath

Power is counted in registers of 0.1 kW. `wire` is the set of write frames that
were sent and neither executed nor lost; the controller executes them in any
order. The deployed driver is pymodbus; its retries and those of the adapter
are one bound, `Tries`. `LateFrames` lets a frame be executed after its sender
gave it up, which TCP retransmission and the controller's threaded server
allow. `Admit` is the gateway's window, replay and range checks: the clock is
not modelled, so a window may always fail; an identifier is remembered before
the range check and before anything is written. `Written` is `_handle_write`
with its order of assignments, including the half-done one. A request ends
without evidence when the API process dies, the commit fails, or the gateway's
answer is no JSON (`Unrecorded`); the code has no outbox.

The code does not promise that a command which was given up, or recorded as
failed, stays without effect: its frame may still be under way, and it may undo
what a later command did. No property claims it. `AcceptedWasApplied` says that
evidence of acceptance stays true all the same, and `PowerIsAsked` that whatever
comes back is a power some admitted command asked for, in one direction only.

The policy checks on run and approval are in `Decisions`.

### HeartbeatMonitor

A reading carries, besides the value the code compares, the life of the
controller and the request of that life it came from, so that properties can
tell readings apart which the code cannot.

| action | code |
|---|---|
| `Snapshot` | `client.snapshot()`: the controller serves a read and counts it |
| `MeetSame` | the value is the last one: answered, or, when stale, refused with a safe state, itself a request that may be served |
| `MeetOther`, `AssignValue`, `AssignChange` | the comparison and the two assignments, with nothing that keeps other threads out between them |
| `OtherRequest` | any other exchange with the controller |
| `PlcRestart` | the register starts again at zero, frozen or counting |
| `Tick` | `time.monotonic()` |

The properties show what the monitor can and cannot do. A frozen heartbeat is
noticed once the readings taken before the freeze have been delivered; readings
that are still on their way may push that out, and an overtaken reading may
replace a newer one. A live controller is taken for lost when two readings are
a whole turn of the register apart, or when it restarted between two polls and
counted to the same value. An unreadable heartbeat raises without an attempt at
a safe state, unlike a stale one; `docs/OT_ASSURANCE_CASE.md:29` and
`OT-REQ-10` (:86) do not make that difference.

### BackupRestore

A row has an identifier, the run it refers to and a version; tables are sets of
rows. `torn` records whether anything was written during the backup, `since`
what was written since the restore began.

| action | code |
|---|---|
| `BeginBackup`, `Select`, `WriteFile` | `create_backup` table by table, `write_backup` (one rename) |
| `BeginRestore`, `Delete`, `Deleted`, `Insert`, `Commit` | `restore_backup`: deletes in reverse order, inserts in order, one transaction |
| `Abort` | an integrity error rolls everything back |
| `CreateRun`, `UpdateRun`, `CreateRecord` | the running system |
| `End` | the command ends or is killed |

A backup taken while the system writes may hold a notice without its run; its
digest is right, and every restore of it aborts. Rows written during a restore
make it abort or survive it. `depotflux.ps1 restore` stops the worker and not
the API (`docs/OPERATIONS.md:43-46`).

### Horizon and FleetPlan

`Horizon` has one operator per function that counts steps: `ParseTime`
(`parse_time_to_step`), `DurationSteps` (`get_duration_steps`), `Accepted`
(`validate_timestep_consistency`), `DayWindow` and `RtWindow` (the windows of
`extract_scalars` and `build_rt_context`), `Expand`, `Align`, `ScaleBoundaries`,
`Schedule` (the series). `RoundDiv` rounds as Python's `round`, a half to the
even neighbour.

`FleetPlan` takes an integer program to be the set of plans that satisfy its
constraints, built step by step (`DayPlans`, `RtPlans`), and a solver's answer
to be any plan within the gap of the best. Energy is an integer, in units that
make both efficiencies exact, so nothing rounds. The gap (`NearOptimal`) is taken
relative to the best plan rather than to the solver's bound. `NoReplan` answers
infeasible; how the code classifies a failed solve is in `SolverPortfolio`.
`DayInput` takes the initial energy as registered: that values above 100 % are
cut and values up to 1 read as fractions is left out.

| action | code |
|---|---|
| `RefuseDay`, `NoDayPlan`, `PlanDay` | `optimize_day_ahead`: an input refused in `extract_scalars`, an infeasible program, a result that is then approved |
| `Notify` | the notice a replan starts from |
| `Replan(limited)` | `optimize_real_time`: `build_rt_context`, the program, `extract_time_series_results`, the validation, `_compare_with_baseline`; `limited` when the solver stopped at its limit |
| `NoReplan` | no trip is left, or no plan keeps the hard constraints |

What the module makes visible and does not judge:

* Windows end with the last step of the day: a trip delayed into it loses that
  step, and the validation, which looks at windows, does not see it
  (`real_time.py:571`). `PassedMeansEveryTripDriven` leaves the last step out.
* The energy of step 1 is the initial one whatever happens in step 1, so a trip
  that begins there is not paid for in it. `TimetableIsDriven` leaves it out.
* A delay of a trip under way shifts its start as well; a second derating of
  one charger replaces the first; a notice that takes effect after the last
  trip is answered as infeasible.
* A clock time beside the steps, and a trip that ends at 24:00, are refused.
  A trip without a duration is accepted and driven in a step of its own.
* A half among numbers, 6.5, is half past six to `parse_time_to_step` and six
  and a half steps to `get_duration_steps`. With steps of 49 minutes a trip from
  20.5 to 23.5 is accepted and a step of it is not paid for; registered inputs
  have clock times and whole steps only, and `Registered` says so.
* Constraint 3 of `solvePTO` puts the bus on its trip in the window and nothing
  keeps it off the trip elsewhere (`day_ahead.py:856`). Energy comes in whole
  steps of charging, so what is left over may be burnt at no cost, and the
  solver does return such plans. The real-time program has no such operation:
  a bus that did not burn its energy may be too full to be charged for a step,
  and no plan may be left. `UndisturbedReplanIsServable` therefore speaks of
  baselines that drive their timetable and no more (`OnlyTheTimetableIsDriven`).
  It fails of others: a bus with 360 of 500 that takes 162 per charge and has a
  trip of two steps at 132 each has to burn 132 and charge before it drives;
  from the step of the burning on, no replan keeps the reserve.
* The power schedule is dropped when the price series has another length than
  the day, and default multipliers are taken for those of the remaining day
  when exactly three steps are left.

The service only sends an effective step, one bus's delay and charger
deratings. Disturbances of availability, prices and energy, and operator
requirements, which the optimizer would accept, are not enumerated.

### SolverPortfolio

A plan is a value with three scores. `incumbent` is what the solver's clone of
the program holds, which outlives a stage: a stage that stops without values is
still usable when an earlier one left some.

| action | code |
|---|---|
| `SkipSolver` | a solver that is not installed or not ready |
| `SolveDay` | `solvePTO`: one stage, the first answer decides |
| `SolveStage` | one turn of the stage loop of `solve_rt_rescheduling` with its lock |
| `GiveUp` | no solver is left: the classification by the last failure |

Here too some facts are visible: the nominal day-ahead run passes no limit of
its own, so a limit that strikes is reported as infeasible
(`docs/OPERATIONAL_REPLANNING_WORK_PACKAGE.md:58` wants the two apart); the word
`infeasible` contains `feasible`, so such an answer counts as usable and raises
on a clone without values; an exception counts as "no incumbent"; only the last
solver's failure decides; a run is degraded only if its last stage hit the
limit.

## 3. Runs

| run | bounds | what it shows |
|---|---|---|
| `queue_pair` | 2 workers, 1 client, 1 run, solves may outlast the threshold, 1 crash, 2 recoveries | types, ownership, one claim per queueing, and the several-worker lifecycle |
| `queue_single` | 1 worker, 2 clients, 2 runs, 1 key, 2 fingerprints, 2 results | a result is final, outcomes are coherent, idempotent answers agree, the one-worker lifecycle |
| `queue_settles` | 1 worker, 2 runs, fairness | every run ends for good |
| `cancel_race` | 1 worker, 1 client | **violated**: a result overwrites a cancellation |
| `recovery_race` | 2 workers | **violated**: recovery takes a fresh claim back |
| `dispatch_evidence` | 2 requests, 2 tries, late frames, 1 restart; 4 requests while no frame is sent (`Bound`), cache of 2 | accepted means applied, rejected means nothing sent, an identifier comes back only after a cacheful of others |
| `dispatch_safe` | 2 requests, both directions, power fits a signed register, 1 try, late frames, 1 restart, fairness | safe state is zero, power is one that was asked for, exchanges and records end |
| `dispatch_readback` | 2 requests | **violated**: accepted with another command's measurement |
| `plc_partial` | 2 requests, power beyond a signed register | **violated**: safe state reported, set-point not zero |
| `decisions` | 2 runs, 3 results of which 2 pass, 2 threads, 4 requests, 1 key, 2 scenarios, 1 takeover | what is used is what was approved; decisions are final; retries agree |
| `fleet_plan` | 6 depots of 2 buses, 5 steps of 288 minutes or 6 of 240, 1 or 2 chargers; 19 notices; every optimal plan, every plan for the last 4 steps when the solver is stopped | trips are driven as the timetable says, a passed replan drives them, a plan that drives no more can be carried on, the spliced day is physical, every change is shown, events tell the coverage |
| `services` | 4 plans, 2 solvers, tolerance 1, gap 1/4; 2 threads, register of 3, stale after 1, 4 requests, 1 restart; 2 identifiers, 4 writes, notices and events | stages describe their plan, proven is lexicographic; frozen is noticed, healthy is left alone; a restore replaces the data, a quiet backup restores |

**Why the bounds are enough.** Every race of the queue is between one row's
readers and writers: two workers, or a worker and a client; a second run is
there for the recovery that writes two rows and for the order of claims. Two
recoveries let a claim be lost, found and lost again. One crash with its
recovery returns to a state without it. In `decisions` a chain takes a baseline
and a candidate, the candidate can itself become a baseline, and four requests
are a decision, a replan, and two that race with it. Small registers keep the
relations of the real ones: some power is beyond the signed register and within
the unsigned one and the controller's capacity. The replay cache needs four
admissions to take an identifier back and to forget in some order: i, a, b, i
with a cache of two. What a request does after its admission does not touch the
cache, so `CrowdSpec` in `MCDispatchPath` (`Bound`) lets the third and fourth request come
only while all requests are beyond the register range (admitted, remembered and
refused without a frame) and wait for their answer; otherwise two requests race
with everything the code can do, both repeating an identifier or neither. The
retry bound is exercised by `dispatch_evidence`; `dispatch_safe` has one try per
exchange, and the bound on its own is a count that every try raises.
The depots have one bus that must charge before it drives and one
charger to contest, a second charger of another power, export, a trip before
any charge can have taken effect, and times beside the steps; the delays are
half a step, one, and one and a half, so that rounding goes both ways. Four
plans tell the three objectives, the tolerance and the gap apart. A register of
three values turns within the requests that two threads make. Two tables next
to the runs are one that refers to a run and one that does not.

`services` puts three small components into one run because they share no
variable: a behaviour moves one of them and leaves the others where they began,
and each has its own part of the state space.

**Deadlock** is checked in the runs of the queue, the decisions and the fleet
plan. The control path stops when every request has been made and answered, an
optimization ends, and the monitor's clock and requests are bounded, so these
configurations switch the check off.

**Fairness.** Workers are processes the container runtime restarts and time
passes, so a worker's steps and the ageing of a row are weakly fair; nothing
obliges anybody to submit or to cancel. Both clients of the control path have
timeouts, so API and gateway threads go on, whatever becomes of the frame or the
request they wait for (`LateFrames`); none is promised to arrive. With a worker that
crashes for ever nothing would settle; `MaxCrashes` says it does not.

**Symmetry** is used in runs of safety properties only.

## 4. Findings

* `cancel_race`. `_complete_with_result` writes what it read. The work package
  says a running cancellation "is durable and wins over any result returned
  later by the solver" (`docs/OPERATIONAL_REPLANNING_WORK_PACKAGE.md:56-57`).
* `recovery_race`. `recover_stale` says it returns abandoned claims; two at a
  time return a claim that is being worked on (`run_repository.py:301`).
* `dispatch_readback`. The test plan wants a "matching controller measurement"
  for an accepted dispatch (`docs/OT_PROTOCOL_TEST_PLAN.md:92-93`); write and
  read-back are two exchanges with nothing between them that excludes others.
* `plc_partial`. The gateway admits up to 6553.5 kW, the controller's capacity
  is 6400 kW (the 32-bay depot), the measured power is a signed register:
  above 3276.7 kW `_handle_write` raises after assigning the set-points. With
  the depots of 8 and 16 bays (1600 and 3200 kW) the problem cannot occur, and
  `dispatch_safe` shows the property there.

Other places where code and documents differ, or where the code may surprise,
are named with the modules above; they have no run of their own.

## 5. Proofs

`RunQueueProofs` proves, for any sets of workers, clients, keys, fingerprints
and results and any bounds (assumption: `ConstantsAssumption`, that NULL is none
of the values and the bounds are numbers):

`TypeCorrect`, `OwnershipHolds`, `ReportedResultHolds`, `OneClaimHolds`,
`OwnerChangeHolds`, `RunsAndResultsStay` (no step loses a run, its key and
request, or a result), `AnswersAgreeHolds`, and `LifecycleHolds`: every behaviour
of `RunQueue` is one of `RunLifecycle` with several workers.

None of these is inductive alone, because a write depends on what was read long
before. The inductive invariant `IInv` is `TypeInv /\ WriteInv /\ ClaimInv`:
types that tie a place to what is held there (a worker that commits has a run
and has read it in a status it may end); what every pending write will leave in
a row, given any content of the row now (ownership and result stay coherent
under `Flush`); and, per row, that two holders imply a recovery. `PaidInv` and
`OpenInv` carry the refinement: a row that was ever reported has a result, and
no process writes to a row that does not exist. `WriteMaps` shows that a flush
maps to an abstract step or to none, whatever was read; `StepMaps` is the step
simulation, one case per action; the theorem closes with temporal logic.

`DecisionsProofs` proves all six properties of the run `decisions`, for any
sets of runs, results, threads, keys and scenarios, any number of requests and
of takeovers (assumptions: `ConstantsAssumption`, and `NullIsNoRow`, that NULL
is not a notice): `TypeCorrect`, `DecisionsAreFinal`, `SentResultsAreApproved`,
`DecisionsStayCurrent`, `ReplansFollowApprovals`, `KeysNameOneNotice`.

The argument is that approvals and notices are written once (`TablesStand`),
that a thread keeps what it loaded until it is past its check (`ThreadMoves`),
and that without a takeover a result that is there stays (`RunMoves`, from
`RunLifecycle`). Each property has its strengthening. `UseInv`: whoever is past
the check of an approval is past it for ever. `CurrentInv`: what every thread
has loaded is still the run's result, and a run that does not exist has none;
the second part is needed because a candidate's row is inserted without going
through the worker. `NoticeInv`: a notice's baseline is approved, and what a
candidate's workers have loaded is that approval's result; here loading after
the notice is what makes it inductive. `KeyInv`: a key belongs to one run that
exists, and a thread about to write a notice under a key holds that run.

The last part is what makes `Decisions` and `RunQueue` one system, although each
is checked without the other. `RunsAreTheQueues`: the runs of `Decisions` are
those of `RunLifecycle` with several workers, and with no takeovers of the one
with a single worker (`RunsAreTheQueuesAlone`), so nothing an operator does goes
round the queue. `QueueIsCovered` is the other direction: every step
`RunLifecycle` allows, which is every step `RunQueue` was proved to take, is one
`Decisions` considers (with its failures read as one), and no step of a single
worker is counted as a takeover. What `Decisions` adds to that, which results
have passed validation, is its own.

The last part of `RunQueueProofs` is about one worker (`OneWorker`: any two
members of `Workers` are the same) and proves `OutcomeHolds`, `ResultStays` and
`LifecycleAloneHolds`. A cancellation may still slip between a worker's read and
its commit, so the invariant `AloneInv` says of every row which pairs of status
and failure code occur (`RowInv`), that a worker about to write a result holds a
run without one (`InHand`), and that a queued run is blank (`Blank`). Whether
solves outlast the threshold does not matter: the worker that would recover the
run is the one that is solving it.

`DispatchPathProofs` needs nothing beyond the constants' assumption for
`Connected`, `TypeCorrect`, `EvidenceIsTrue`, `RejectionIsSilent` and
`NoEarlyReplay`. `Inv` ties each API thread to its gateway thread and each frame
to the thread that sent it; with frames that outlive their senders, "applied"
has to be kept as history. For the replay cache `Window` says that the cache is
the end of the list of admissions and that any cacheful of them differ, and
counting does the rest. `SafeMeansZero` assumes that all set-points fit a signed
register; `plc_partial` is the counterexample without it.
`PowerStaysAsked` (`PowerIsAsked` for everything) is about what the controller does: set-point
and measured power are always zero or one that an admitted dispatch asked for, within
the site's and the controller's capacity, and one of charging and discharging is
zero. It is inductive once every frame under way carries a set-point of a thread
that has sent (`FramesAsk`), and it holds without the assumption on signed
registers: a set-point that does not fit one leaves the old measured power next
to the new set-point, and each of the two was asked for.

`SolverPortfolioProofs`, for any plans, scores, tolerance, gap and number of
solvers: `Inv` says that the incumbent satisfies the locks of all stages on
record (`Held`), that a returned plan has a record per stage (`Counted`), and
that a proven stage was minimal among the plans the locks before it left
(`Minimal`). `PlanOwnsItsStages` and `ProvenIsBest` follow; the second is three
inequalities, each with the tolerance of one lock. With a single stage nothing is
locked, and `OneStageIsOptimal` says that proven means optimal within the gap.

`HeartbeatMonitorProofs` (assumption `Sizes`) for any number of threads and any
register. `FrozenNoticed`: once settled, every pending reading is of the frozen
life, so nothing moves the time of the last change. `HealthyLeftAlone`: readings
of one life are of different requests, whoever holds them (`Unique`), and equal
values of different requests are a whole turn apart.

`BackupRestoreProofs` (assumption `Sensible`: NULL is no identifier, and the
tables written exist). `ReferencesHold`: committed tables refer only to
committed runs, kept through a restore because what it deleted, what is left and
what it inserts are consistent together. `RestoreReplaces`. `QuietBackups`:
while a backup is not torn, what was selected is what the tables hold, so the
file is consistent, and the reverse order of deletion and the order of insertion
never meet a reference.

`ServicesProofs` carries these over to the composition that the run `services`
checks: `MonitorRuns` and `BackupRuns` show that every behaviour of `MCServices`
is one of the part, since a step moves that part by its own action or leaves it
alone, and `FrozenNoticed`, `HealthyLeftAlone`, `RestoreReplaces` and
`QuietBackups` follow from the theorems of the parts.

`FleetPlanProofs` proves the type invariant and all six invariants of the run
`fleet_plan`, for fleets, timetables, tariffs, deratings and delays of any size
and steps of any length. The assumption is `InputsAssumption`:

* every input is `Registered`: one price and one tariff row per step (the
  registered data has 48 of 30 minutes), times that are clock times or whole
  steps, no more trips than buses, rates that are multiples of 90 and capacities
  that are multiples of 5, which is the choice of unit that makes efficiencies
  and reserves whole numbers;
* every notice is `Reportable`: it changes steps after the first (the code adds
  one to the step observed), and derates a charger once and below its nominal
  rate, as the scenarios do (`notice_repository.py:86`: 150 kW or none of 200).

What a program returns is a recursion over the steps of the day, and the set of
plans is opaque to the provers. The proof therefore says first what the
recursion is (`DayUnfolds`, `RtUnfolds`) and then that every plan of `n` steps
is built of `n` moves (`DayBuilt`, `RtBuilt`), by `BoundedInduction`, an
induction that speaks of a set of numbers instead of a predicate. `SetDescent` is
the same for finite sets; with it `SumOver` is shown to be additive, monotonic
and independent of the order (`SumTakesAny`, `SumSplits`, `SumIsReindexed`).
The inductive invariant is `Planned`: the baseline is a plan of the accepted
input, and the candidate is the result of a plan of the program of that
baseline and notice (`PlansAreFeasible`). It is needed because no property
of a candidate can be seen from the candidate alone. From it:

* `TimetablePaid`. An accepted clock time lies on a step, so that the two
  conversions agree (`AcceptedFits`), and the window has all steps `During` the
  trip (`WindowsHold`). `OneWindowPerTrip` and `TimetableIsKept` are the same
  about windows alone.
* `PassedIsDriven`. A delay is rounded to the nearest step, which leaves the
  steps that lie within the moved trip in the moved window (`RoundIsNear`).
* `SplicedPhysical`. What a step does to the fleet is split by kind of operation
  (`SumOfKinds`); what is exchanged is a multiple of 90, so that efficiencies
  may be taken before or after summing (`ExchangedIsExact`), and a charger
  serves one bus (`ExchangeIsBounded`).
* `ComparedRight`. The slice of the baseline has one row for each row of the
  candidate; prices are whole numbers in every branch of `Schedule` and `Align`.
* `EventsTell`. Windows are intervals, so a trip that has begun has a step
  before until it ends; by induction over the steps the balance of events is the
  difference of coverage.
* `CanBeCarriedOn`. The replan takes the baseline's own moves: the windows of
  the two programs are the same or nested, a bus that loses its trip's draw is on
  an active trip (this is where `OnlyTheTimetableIsDriven` is used), and energies
  agree step after step (`StepCarries`, `BaselineCarries`).

Model-checked only: liveness under fairness (`RunsSettle`,
`RequestsAreRecorded`, `ExchangesEnd`), which is out of the prover's reach. The
four violated properties have a run each and no theorem.

## 6. Not modelled

* GridTwin (`gridtwin/`): floating-point power flow, transients and a security
  study computed from files; nothing else reads its state.
* Of the optimizers: the solver's search, floating point, the multiplier tariffs
  and the job-file entry points of the two files, which the service does not
  use, disturbances the service never sends, and resource metrics.
* A real-time run submitted directly rather than through a notice, which the
  worker fails with `notice_not_found`; request limits, readiness, timelines and
  other read-only routes.
* The byte layout of Modbus frames, register scans and refused peers, which only
  raise an alarm bit.
* `input_registry.py`, `auth.py`, `ot_security.py`, `settings.py`,
  `observability.py`, `security_monitor.py`: stateless checks, configuration and
  counters.
* PostgreSQL itself, taken as READ COMMITTED with its unique keys; the clock
  beyond "stale or not"; wording, logging, layout, dashboard, migrations.

## 7. Plan

1. Done: the modules, runs and theorems above.
2. Operator requirements as constraints of `FleetPlan`, and its stages by
   `SolverPortfolio`, so that the two meet in one specification.
3. The safe state a stale heartbeat triggers, composed with the registers of
   `DispatchPath`; the control simulation's set-points against its codec.
4. Done: proofs about whole plans (`FleetPlanProofs`) and about the composition
   (`ServicesProofs`).
5. Proofs for what 2 and 3 add: which plans the stages leave, and that the safe
   state a stale heartbeat triggers is one of `DispatchPath`.
