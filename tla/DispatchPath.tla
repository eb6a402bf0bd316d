---------------------------- MODULE DispatchPath ----------------------------
(***************************************************************************)
(* The control path: an API request thread posts a command to the gateway  *)
(* over HTTP, a gateway thread admits it and exchanges Modbus frames with  *)
(* the simulated controller, and the API thread records what it was told.  *)
(*                                                                         *)
(* Each hop has its own clock.  The API stops waiting before the gateway   *)
(* stops retrying, a retry does not recall the frame it repeats, requests  *)
(* run in threads with no lock across an exchange, and each of the three   *)
(* processes may restart.  Power is counted in registers (0.1 kW each).    *)
(***************************************************************************)
EXTENDS Integers, Sequences, FiniteSets

CONSTANTS
    Requests,       \* API requests, dispatch or emergency safe state
    Ids,            \* command identifiers a client may send again
    Setpoints,      \* set-points of the approved schedules
    SiteCapacity,   \* sum of the chargers' power
    RegisterMax,    \* 2^16 - 1 in the code
    SignedMax,      \* 2^15 - 1 in the code
    PlcCapacity,    \* the controller's own site capacity
    Tries,          \* frames one exchange may send: retries + 1
    CacheSize,      \* replay cache: 10 000 in the code
    LateFrames,     \* may a frame be executed after its sender gave it up?
    MaxRestarts     \* bound: restarts of the three processes together

ASSUME ConstantsAssumption ==
    /\ Setpoints \subseteq Int
    /\ {SiteCapacity, RegisterMax, SignedMax, PlcCapacity} \subseteq Nat
    /\ Tries \in Nat \ {0} /\ CacheSize \in Nat \ {0} /\ MaxRestarts \in Nat
    /\ LateFrames \in BOOLEAN
    /\ Ids \cap Requests = {}

VARIABLES
    command,    \* what each request asks for
    api,        \* per request: where its API thread stands, what it records
    gateway,    \* per request: the gateway thread that serves it
    seen,       \* the replay cache, oldest identifier first
    admitted,   \* history: identifiers admitted since the gateway started
    wire,       \* write frames sent and neither executed nor lost
    plc,        \* the controller's holding registers
    applied,    \* history: requests whose own write was executed whole
    restarts    \* restarts so far

vars == <<command, api, gateway, seen, admitted, wire, plc, applied, restarts>>
-----------------------------------------------------------------------------
(* Commands, frames and registers. *)

Magnitude(s) == IF s < 0 THEN -s ELSE s
Power == -(SignedMax + 1)..SignedMax

(* A dispatch carries the client's identifier or a fresh one, and a set-    *)
(* point inside the site's capacity; a safe-state request is always fresh. *)
Commands(q) ==
    [kind : {"dispatch"}, id : Ids \cup {q},
     setpoint : {s \in Setpoints : Magnitude(s) <= SiteCapacity}]
        \cup {[kind |-> "safe_state", id |-> q, setpoint |-> 0]}

NoCommand(q) == [kind |-> "none", id |-> q, setpoint |-> 0]

Frame == [by : Requests, n : 1..Tries, safe : BOOLEAN,
          setpoint : Setpoints \cup {0}]

Registers == [import : 0..RegisterMax, export : 0..RegisterMax,
              mode : {"dispatch", "safe_state"}, measured : Power,
              state : {"ready", "active", "safe_state"},
              alarm : SUBSET {"safe", "invalid"}]
Started == [import |-> 0, export |-> 0, mode |-> "dispatch", measured |-> 0,
            state |-> "ready", alarm |-> {}]

ApiState == [pc : {"new", "calling", "recording", "done", "lost"},
             decision : {"none", "accepted", "rejected", "failed"},
             measured : Power]
GatewayState == [pc : {"absent", "write", "read", "rescue", "over", "dead"},
                 n : 0..Tries, measured : Power,
                 answer : {"none", "applied", "policy", "unavailable"}]

(* The set-point of a frame as the import and export magnitudes. *)
Import(s) == IF s > 0 THEN s ELSE 0
Export(s) == IF s < 0 THEN -s ELSE 0

Refused(f) == Magnitude(f.setpoint) > PlcCapacity
Unmeasurable(f) == f.setpoint \notin Power
Acknowledged(f) == ~Refused(f) /\ ~Unmeasurable(f)

(* _handle_write.  The command registers are assigned before the measured  *)
(* power is computed; when that does not fit a signed register, the        *)
(* exception leaves the assignments in place and the peer without answer.  *)
WrittenOneSide(p, f) ==
    LET set == [p EXCEPT !.import = IF f.setpoint > 0 THEN f.setpoint ELSE @,
                         !.export = IF f.setpoint < 0 THEN -f.setpoint ELSE @,
                         !.mode = IF f.safe THEN "safe_state" ELSE "dispatch"]
    IN  CASE Refused(f) -> [p EXCEPT !.alarm = @ \cup {"invalid"}]
          [] ~Refused(f) /\ Unmeasurable(f) -> set
          [] OTHER ->
                [set EXCEPT !.measured = f.setpoint,
                            !.state = IF f.safe THEN "safe_state" ELSE "active",
                            !.alarm = IF f.safe THEN {"safe"} ELSE {}]
WrittenLatching(p, f) ==
    LET set == [p EXCEPT !.import = Import(f.setpoint),
                         !.export = Export(f.setpoint),
                         !.mode = IF f.safe THEN "safe_state" ELSE "dispatch"]
    IN  CASE Refused(f) -> [p EXCEPT !.alarm = @ \cup {"invalid"}]
          [] ~Refused(f) /\ Unmeasurable(f) -> set
          [] OTHER ->
                [set EXCEPT !.measured = f.setpoint,
                            !.state = IF f.safe THEN "safe_state"
                                      ELSE IF @ = "ready" THEN "active" ELSE @,
                            !.alarm = IF f.safe THEN {"safe"} ELSE {}]
Written(p, f) ==
    LET set == [p EXCEPT !.import = Import(f.setpoint),
                         !.export = Export(f.setpoint),
                         !.mode = IF f.safe THEN "safe_state" ELSE "dispatch"]
    IN  CASE Refused(f) -> [p EXCEPT !.alarm = @ \cup {"invalid"}]
          [] ~Refused(f) /\ Unmeasurable(f) -> set
          [] OTHER ->
                [set EXCEPT !.measured = f.setpoint,
                            !.state = IF f.safe THEN "safe_state" ELSE "active",
                            !.alarm = IF f.safe THEN {"safe"} ELSE {}]
-----------------------------------------------------------------------------
(* The API thread: post the command, wait at most so long, record. *)

Submit(q) ==
    /\ api[q].pc = "new"
    /\ \E c \in Commands(q) : command' = [command EXCEPT ![q] = c]
    /\ api' = [api EXCEPT ![q].pc = "calling"]
    /\ UNCHANGED <<gateway, seen, admitted, wire, plc, applied, restarts>>

DecisionMerged(answer) ==
    IF answer = "applied" THEN "accepted" ELSE "rejected"
Decision(answer) ==
    CASE answer = "applied" -> "accepted"
      [] answer = "policy" -> "rejected"
      [] answer = "unavailable" -> "failed"

(* A request that ends without evidence. *)
Unrecorded == [pc |-> "lost", decision |-> "none", measured |-> 0]

(* An answer that cannot be read fails the request without any evidence.   *)
Answer(q) ==
    /\ api[q].pc = "calling" /\ gateway[q].pc = "over"
    /\ \/ api' = [api EXCEPT ![q] = [pc |-> "recording",
                                     decision |-> Decision(gateway[q].answer),
                                     measured |-> gateway[q].measured]]
       \/ api' = [api EXCEPT ![q] = Unrecorded]
    /\ UNCHANGED <<command, gateway, seen, admitted, wire, plc, applied, restarts>>

(* httpx gives up, or never connects; the gateway thread goes on. *)
TimeOutAsAccepted(q) ==
    /\ api[q].pc = "calling"
    /\ api' = [api EXCEPT ![q].pc = "recording", ![q].decision = "accepted"]
    /\ UNCHANGED <<command, gateway, seen, admitted, wire, plc, applied, restarts>>
TimeOutOnceAnswered(q) ==
    /\ api[q].pc = "calling" /\ gateway[q].pc = "over"
    /\ api' = [api EXCEPT ![q].pc = "recording", ![q].decision = "failed"]
    /\ UNCHANGED <<command, gateway, seen, admitted, wire, plc, applied, restarts>>
TimeOut(q) ==
    /\ api[q].pc = "calling"
    /\ api' = [api EXCEPT ![q].pc = "recording", ![q].decision = "failed"]
    /\ UNCHANGED <<command, gateway, seen, admitted, wire, plc, applied, restarts>>

(* The attempt and its security event, in one transaction that commits or  *)
(* fails the request.                                                      *)
Record(q) ==
    /\ api[q].pc = "recording"
    /\ \/ api' = [api EXCEPT ![q].pc = "done"]
       \/ api' = [api EXCEPT ![q] = Unrecorded]
    /\ UNCHANGED <<command, gateway, seen, admitted, wire, plc, applied, restarts>>

ApiRestart ==
    /\ restarts < MaxRestarts
    /\ \E q \in Requests : api[q].pc \in {"calling", "recording"}
    /\ api' = [q \in Requests |-> IF api[q].pc \in {"calling", "recording"}
                                  THEN Unrecorded ELSE api[q]]
    /\ restarts' = restarts + 1
    /\ UNCHANGED <<command, gateway, seen, admitted, wire, plc, applied>>
-----------------------------------------------------------------------------
(* The gateway thread: admit, write, read back, and on failure try to      *)
(* bring the controller into its safe state.                               *)

IsDispatch(q) == command[q].kind = "dispatch"

(* The frame of the exchange a thread has under way. *)
Outstanding(q) ==
    LET safe == gateway[q].pc = "rescue" \/ ~IsDispatch(q)
    IN  [by |-> q, n |-> gateway[q].n, safe |-> safe,
         setpoint |-> IF safe THEN 0 ELSE command[q].setpoint]
Exchanging(q) == gateway[q].pc \in {"write", "rescue"}

Over(q, answer, power) ==
    gateway' = [gateway EXCEPT ![q].pc = "over", ![q].answer = answer,
                               ![q].measured = power]
Begin(q, pc) ==
    /\ gateway' = [gateway EXCEPT ![q].pc = pc, ![q].n = 1]
    /\ wire' = wire \cup
         {[by |-> q, n |-> 1, safe |-> pc = "rescue" \/ ~IsDispatch(q),
           setpoint |-> IF pc = "rescue" THEN 0 ELSE command[q].setpoint]}

RememberAll(id) == Append(seen, id)
RememberInPlaceOfNewest(id) ==
    IF Len(seen) = CacheSize THEN Append(SubSeq(seen, 1, Len(seen) - 1), id)
    ELSE Append(seen, id)
Remember(id) ==
    IF Len(seen) = CacheSize THEN Append(Tail(seen), id) ELSE Append(seen, id)
Known(id) == \E i \in DOMAIN seen : seen[i] = id

OutOfRange(q) == Magnitude(command[q].setpoint) > RegisterMax

(* _validate_window, _reject_replay and the range check.  The clock is not *)
(* modelled: any command may arrive outside its window.  The identifier is *)
(* remembered before the range is checked and before anything is written.  *)
Admit(q) ==
    /\ api[q].pc # "new" /\ gateway[q].pc = "absent"
    /\ \/ /\ Over(q, "policy", 0)
          /\ UNCHANGED <<seen, admitted, wire>>
       \/ /\ ~Known(command[q].id)
          /\ seen' = Remember(command[q].id)
          /\ admitted' = Append(admitted, command[q].id)
          /\ \/ OutOfRange(q) /\ Over(q, "policy", 0) /\ UNCHANGED wire
             \/ ~OutOfRange(q) /\ Begin(q, "write")
    /\ UNCHANGED <<command, api, plc, applied, restarts>>

(* An attempt has failed when no answer to its frame can come any more: it *)
(* was lost, refused, or executed and its answer lost.  With LateFrames    *)
(* the sender may also stop waiting for a frame that is still under way.   *)
Failed(q) == LateFrames \/ Outstanding(q) \notin wire

Retry(q) ==
    /\ Exchanging(q) /\ Failed(q)
    /\ gateway[q].n < Tries
    /\ gateway' = [gateway EXCEPT ![q].n = @ + 1]
    /\ wire' = wire \cup {[Outstanding(q) EXCEPT !.n = @ + 1]}
    /\ UNCHANGED <<command, api, seen, admitted, plc, applied, restarts>>

GiveUpDispatchOnly(q) ==
    /\ Exchanging(q) /\ Failed(q)
    /\ gateway[q].n = Tries
    /\ \/ IsDispatch(q) /\ Begin(q, "rescue")
       \/ ~IsDispatch(q) /\ Over(q, "unavailable", 0) /\ UNCHANGED wire
    /\ UNCHANGED <<command, api, seen, admitted, plc, applied, restarts>>
GiveUp(q) ==
    /\ Exchanging(q) /\ Failed(q)
    /\ gateway[q].n = Tries
    /\ \/ gateway[q].pc = "write" /\ IsDispatch(q) /\ Begin(q, "rescue")
       \/ /\ gateway[q].pc = "rescue" \/ ~IsDispatch(q)
          /\ Over(q, "unavailable", 0)
          /\ UNCHANGED wire
    /\ UNCHANGED <<command, api, seen, admitted, plc, applied, restarts>>

(* The FC03 snapshot after an acknowledged write, or its failure. *)
ReadBack(q) ==
    /\ gateway[q].pc = "read"
    /\ \/ Over(q, "applied", plc.measured) /\ UNCHANGED wire
       \/ IsDispatch(q) /\ Begin(q, "rescue")
       \/ ~IsDispatch(q) /\ Over(q, "unavailable", 0) /\ UNCHANGED wire
    /\ UNCHANGED <<command, api, seen, admitted, plc, applied, restarts>>

(* The gateway process restarts: threads and replay cache are gone, frames *)
(* it sent are not.                                                        *)
GatewayRestart ==
    /\ restarts < MaxRestarts
    /\ gateway' = [q \in Requests |->
                     IF gateway[q].pc \in {"write", "read", "rescue"}
                     THEN [gateway[q] EXCEPT !.pc = "dead"] ELSE gateway[q]]
    /\ seen' = <<>> /\ admitted' = <<>>
    /\ restarts' = restarts + 1
    /\ UNCHANGED <<command, api, wire, plc, applied>>
-----------------------------------------------------------------------------
(* The controller executes the frames that reach it, in any order. *)

Own(f) == f.safe = (command[f.by].kind = "safe_state")

(* The thread that waits on the frame gets the acknowledgement or, when it *)
(* is lost on the way back, nothing.                                       *)
Execute(f) ==
    /\ f \in wire
    /\ wire' = wire \ {f}
    /\ plc' = Written(plc, f)
    /\ applied' = IF Acknowledged(f) /\ Own(f) THEN applied \cup {f.by} ELSE applied
    /\ \/ UNCHANGED gateway
       \/ /\ Acknowledged(f) /\ Exchanging(f.by) /\ f = Outstanding(f.by)
          /\ \/ /\ gateway[f.by].pc = "write"
                /\ gateway' = [gateway EXCEPT ![f.by].pc = "read"]
             \/ /\ gateway[f.by].pc = "rescue"
                /\ Over(f.by, "unavailable", 0)
    /\ UNCHANGED <<command, api, seen, admitted, restarts>>

Lose(f) ==
    /\ f \in wire
    /\ wire' = wire \ {f}
    /\ UNCHANGED <<command, api, gateway, seen, admitted, plc, applied, restarts>>

PlcRestart ==
    /\ restarts < MaxRestarts
    /\ plc' = Started /\ wire' = {}
    /\ restarts' = restarts + 1
    /\ UNCHANGED <<command, api, gateway, seen, admitted, applied>>
-----------------------------------------------------------------------------
Init ==
    /\ command = [q \in Requests |-> NoCommand(q)]
    /\ api = [q \in Requests |-> [pc |-> "new", decision |-> "none",
                                  measured |-> 0]]
    /\ gateway = [q \in Requests |-> [pc |-> "absent", n |-> 0, measured |-> 0,
                                      answer |-> "none"]]
    /\ seen = <<>> /\ admitted = <<>>
    /\ wire = {} /\ plc = Started
    /\ applied = {} /\ restarts = 0

ApiStep(q) == Submit(q) \/ Answer(q) \/ TimeOut(q) \/ Record(q)
GatewayStep(q) == Retry(q) \/ GiveUp(q) \/ ReadBack(q)

Next ==
    \/ \E q \in Requests : ApiStep(q) \/ Admit(q) \/ GatewayStep(q)
    \/ \E f \in wire : Execute(f) \/ Lose(f)
    \/ ApiRestart \/ GatewayRestart \/ PlcRestart

Spec == Init /\ [][Next]_vars

(* Both clients have timeouts, so their threads go on; whether a frame or  *)
(* an HTTP request is ever delivered is up to the networks.  A sender that *)
(* gives up a frame still under way needs LateFrames.                      *)
Fairness == \A q \in Requests :
                /\ WF_vars(Answer(q) \/ TimeOut(q) \/ Record(q))
                /\ WF_vars(GatewayStep(q))

FairSpec == Spec /\ Fairness
-----------------------------------------------------------------------------
(* Types: registers keep to the ranges of the register map, every thread   *)
(* and frame to what the classes can hold.                                 *)
TypeOK ==
    /\ \A q \in Requests : command[q] \in Commands(q) \cup {NoCommand(q)}
    /\ api \in [Requests -> ApiState]
    /\ gateway \in [Requests -> GatewayState]
    /\ seen \in Seq(Ids \cup Requests) /\ Len(seen) <= CacheSize
    /\ admitted \in Seq(Ids \cup Requests)
    /\ wire \subseteq Frame
    /\ plc \in Registers
    /\ applied \subseteq Requests
    /\ restarts \in 0..MaxRestarts

(* Evidence of acceptance is true: the controller executed the whole       *)
(* write of that very request, whatever was lost, retried or restarted.    *)
AcceptedWasApplied ==
    \A q \in Requests : api[q].decision = "accepted" => q \in applied

(* A request recorded as rejected never sent a frame (the test plan lets   *)
(* the null frame columns prove it).                                       *)
RejectedSentNothing ==
    \A q \in Requests : api[q].decision = "rejected" =>
        gateway[q].n = 0 /\ q \notin applied

(* Between two admissions of one identifier, without a restart between,    *)
(* at least a whole cache of other identifiers was admitted.               *)
AdmittedOncePerCache ==
    \A i, j \in DOMAIN admitted :
        i < j /\ admitted[i] = admitted[j] =>
            Cardinality({admitted[k] : k \in (i + 1)..(j - 1)}) >= CacheSize

(* The power a controller can be at is that of a dispatch whose thread has *)
(* sent a frame, or none, and within the limits of both sides.             *)
Asked == {0} \cup {command[q].setpoint :
                     q \in {r \in Requests : IsDispatch(r) /\ gateway[r].n # 0}}
Limits(s) == Magnitude(s) <= SiteCapacity /\ Magnitude(s) <= PlcCapacity

(* Whatever was retried, given up, delivered late or cut off by a restart, *)
(* the set-point registers hold one power that was asked for, one of its   *)
(* two directions zero, and the measured power is such a power too, though *)
(* not always the same: the code lets a late or repeated frame come back,  *)
(* but never as something nobody asked for.                                *)
PowerIsAsked ==
    /\ \E s \in Asked : /\ Limits(s)
                        /\ plc.import = Import(s) /\ plc.export = Export(s)
    /\ plc.measured \in Asked /\ Limits(plc.measured)

(* The controller in its safe state has zero set-points and says so: state, *)
(* mode and set-point registers agree (scenario OT-S12 of the test plan).   *)
SafeStateMeansZero ==
    plc.state = "safe_state" => /\ plc.import = 0 /\ plc.export = 0
                                /\ plc.mode = "safe_state"
                                /\ plc.measured = 0

(* Every submitted request gets its evidence, unless the API process dies, *)
(* cannot read the answer or cannot commit: no request waits for ever.     *)
RequestsAreRecorded ==
    \A q \in Requests : api[q].pc = "calling" ~> api[q].pc \in {"done", "lost"}

(* Every exchange ends: retries and the rescue are bounded, so a gateway   *)
(* thread answers or dies with its process.                                *)
ExchangesEnd ==
    \A q \in Requests : gateway[q].pc = "write" ~> gateway[q].pc \in {"over", "dead"}

(* Stated by the test plan's acceptance criteria: an accepted dispatch has *)
(* a matching controller measurement.                                      *)
AcceptedMatchesMeasurement ==
    \A q \in Requests : api[q].decision = "accepted" =>
        api[q].measured = command[q].setpoint
=============================================================================
