---------------------------- MODULE RunLifecycle ----------------------------
(***************************************************************************)
(* What the optimization queue promises the rest of the system about a     *)
(* run: its status and its result, without workers, claims or heartbeats.  *)
(*                                                                         *)
(* With one worker process a result is committed once and afterwards the   *)
(* run can only be cancelled.  When several workers share the queue, one   *)
(* whose claim was recovered may still write, so a result may be replaced  *)
(* or requeued; it never disappears.  Cancellation writes what it read, so *)
(* it may land on any status.                                              *)
(***************************************************************************)
CONSTANTS
    Runs,       \* rows of optimization_runs
    Payloads,   \* results, told apart by their hash
    None        \* SQL NULL

VARIABLES
    run,        \* Runs -> [status, result]
    shared      \* do several workers share the queue?  fixed at deployment

Reported == {"succeeded", "degraded"}                 \* with a result
Classified == {"failed", "infeasible", "timed_out"}   \* with a failure code
Terminal == Reported \cup Classified \cup {"cancelled"}
Status == {"absent", "queued", "running", "cancel_requested"} \cup Terminal

Run == [status : Status, result : Payloads \cup {None}]
NoRun == [status |-> "absent", result |-> None]
Present(x) == x.status # "absent"

OpenWithResult(x) ==
    shared \/ x.status \in {"running", "cancel_requested", "cancelled"}
(* May a worker still write an outcome, or recovery requeue the run? *)
Open(x) == \/ shared
           \/ /\ x.result = None
              /\ x.status \in {"running", "cancel_requested", "cancelled"}

Submitted(x, y) == ~Present(x) /\ y = [NoRun EXCEPT !.status = "queued"]
Claimed(x, y) == x.status = "queued" /\ y = [x EXCEPT !.status = "running"]
CancelWritten(x, y) ==
    /\ Present(x)
    /\ \E s \in {"cancelled", "cancel_requested"} : y = [x EXCEPT !.status = s]
Requeued(x, y) ==
    Present(x) /\ Open(x) /\ y = [x EXCEPT !.status = "queued"]
Reports(x, y) ==
    /\ Present(x) /\ Open(x)
    /\ y.status \in Reported /\ y.result \in Payloads
Fails(x, y) ==
    /\ Present(x) /\ Open(x)
    /\ \E s \in Classified : y = [x EXCEPT !.status = s]

Step(x, y) == \/ Submitted(x, y) \/ Claimed(x, y) \/ CancelWritten(x, y)
              \/ Requeued(x, y) \/ Reports(x, y) \/ Fails(x, y)

Init == run = [r \in Runs |-> NoRun] /\ shared \in BOOLEAN

(* Recovery writes several rows in one transaction. *)
Next == /\ run' \in [Runs -> Run]
        /\ \A r \in Runs : run'[r] = run[r] \/ Step(run[r], run'[r])
        /\ UNCHANGED shared

Spec == Init /\ [][Next]_<<run, shared>>
=============================================================================
