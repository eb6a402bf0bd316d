-------------------------- MODULE HeartbeatMonitor --------------------------
(***************************************************************************)
(* The gateway's heartbeat monitor: controller_status in ot_gateway.py,    *)
(* called by every readiness probe and status request on a thread of its   *)
(* own, over the heartbeat register of plc_simulator.py.  The register     *)
(* counts the requests the controller serves, modulo 2^16, unless it was   *)
(* started with its heartbeat disabled: it is then frozen.                 *)
(*                                                                         *)
(* A reading carries, besides the register's value, which life of the      *)
(* controller and which request of that life it was: the code sees the     *)
(* value only, the properties see the rest.                                *)
(***************************************************************************)
EXTENDS Integers

CONSTANTS
    Threads,      \* threads of the gateway
    Modulus,      \* of the register (2^16)
    StaleAfter,   \* heartbeat_stale_seconds
    MaxTime,      \* bound: the clock stops here
    MaxServed,    \* bound: requests served in one life of the controller
    MaxRestarts,  \* bound: restarts of the controller
    None

VARIABLES
    plc,         \* the controller: enabled, life, and served requests
    now,         \* time.monotonic()
    last,        \* the reading behind _last_heartbeat
    lastChange,  \* _last_heartbeat_change
    thread,      \* per thread, what controller_status is doing
    answer,      \* the last answer: ok, its reading and what it met
    settled      \* since when the monitor has only met the frozen value

vars == <<plc, now, last, lastChange, thread, answer, settled>>

(* A reading of the heartbeat register. *)
Beat(p) == IF p.enabled THEN p.served % Modulus ELSE 0
Reading(p) == [value |-> Beat(p), life |-> p.life, served |-> p.served,
               enabled |-> p.enabled]

(* handle_request serves a read or a write. *)
Served(p) == [p EXCEPT !.served = @ + 1]

Idle == [pc |-> "idle"]

Busy(t) == thread[t].pc # "idle"

(* Nothing but the frozen value is on its way, and nothing to be assigned. *)
Calm(p, threads) ==
    /\ ~p.enabled
    /\ \A t \in Threads : threads[t].pc # "idle" =>
            threads[t].pc = "compare" /\ threads[t].reading.life = p.life

-----------------------------------------------------------------------------
Tick ==
    /\ now < MaxTime
    /\ now' = now + 1
    /\ UNCHANGED <<plc, last, lastChange, thread, answer, settled>>

(* A dispatch, a read-back, or a status read whose answer is lost. *)
OtherRequest ==
    /\ plc.served < MaxServed
    /\ plc' = Served(plc)
    /\ UNCHANGED <<now, last, lastChange, thread, answer, settled>>

(* The register starts at zero again; the heartbeat may come up disabled,  *)
(* or enabled again.                                                       *)
PlcRestart ==
    /\ plc.life < MaxRestarts
    /\ \E enabled \in BOOLEAN :
        plc' = [enabled |-> enabled, life |-> plc.life + 1, served |-> 0]
    /\ settled' = None
    /\ UNCHANGED <<now, last, lastChange, thread, answer>>

(* client.snapshot. *)
Snapshot(t) ==
    /\ ~Busy(t)
    /\ plc.served < MaxServed
    /\ plc' = Served(plc)
    /\ thread' = [thread EXCEPT ![t] = [pc |-> "compare", reading |-> Reading(plc')]]
    /\ UNCHANGED <<now, last, lastChange, answer, settled>>

(* The frozen value is the one remembered: if nothing else is on its way,  *)
(* the monitor meets no other value from here on.                          *)
Settle(t, threads) ==
    settled' = IF settled = None /\ thread[t].reading.life = plc.life
                    /\ last.value = Beat(plc) /\ Calm(plc, threads)
               THEN now ELSE settled

(* Wrong, as mutants, when the value zero counts as none, or when any      *)
(* value not above the last one counts as no progress.                     *)
SameUnlessZero(t) ==
    last # None /\ last.value # 0 /\ last.value = thread[t].reading.value
SameOrEarlier(t) == last # None /\ last.value >= thread[t].reading.value
Same(t) == last # None /\ last.value = thread[t].reading.value

Stale == now - lastChange >= StaleAfter

(* The value is the one met before: answered, unless it is stale; then the *)
(* safe state is written, a request the controller may or may not serve.   *)
MeetSame(t) ==
    /\ thread[t].pc = "compare"
    /\ Same(t)
    /\ thread' = [thread EXCEPT ![t] = Idle]
    /\ answer' = [ok |-> ~Stale, reading |-> thread[t].reading, met |-> last]
    /\ IF Stale /\ plc.served < MaxServed THEN plc' \in {plc, Served(plc)}
                                          ELSE UNCHANGED plc
    /\ Settle(t, thread')
    /\ UNCHANGED <<now, last, lastChange>>

(* Another value: no lock is held between the comparison and the two       *)
(* assignments, nor between these.                                         *)
MeetOther(t) ==
    /\ thread[t].pc = "compare"
    /\ ~Same(t)
    /\ thread' = [thread EXCEPT ![t] =
                    [pc |-> "value", reading |-> @.reading, at |-> now]]
    /\ UNCHANGED <<plc, now, last, lastChange, answer, settled>>

AssignValue(t) ==
    /\ thread[t].pc = "value"
    /\ last' = thread[t].reading
    /\ thread' = [thread EXCEPT ![t].pc = "change"]
    /\ UNCHANGED <<plc, now, lastChange, answer, settled>>

AssignChange(t) ==
    /\ thread[t].pc = "change"
    /\ lastChange' = thread[t].at
    /\ thread' = [thread EXCEPT ![t] = Idle]
    /\ answer' = [ok |-> TRUE, reading |-> thread[t].reading, met |-> None]
    /\ Settle(t, thread')
    /\ UNCHANGED <<plc, now, last>>

Init ==
    /\ \E enabled \in BOOLEAN : plc = [enabled |-> enabled, life |-> 0, served |-> 0]
    /\ now = 0
    /\ last = None
    /\ lastChange = 0
    /\ thread = [t \in Threads |-> Idle]
    /\ answer = None
    /\ settled = None

Next ==
    \/ Tick
    \/ OtherRequest
    \/ PlcRestart
    \/ \E t \in Threads :
        Snapshot(t) \/ MeetSame(t) \/ MeetOther(t) \/ AssignValue(t) \/ AssignChange(t)

Spec == Init /\ [][Next]_vars

-----------------------------------------------------------------------------
Readings == [value : Int, life : Nat, served : Nat, enabled : BOOLEAN]

TypeOK ==
    /\ plc \in [enabled : BOOLEAN, life : Nat, served : Nat]
    /\ now \in Nat
    /\ last \in Readings \cup {None}
    /\ lastChange \in Nat
    /\ thread \in [Threads -> {Idle}
                        \cup [pc : {"compare"}, reading : Readings]
                        \cup [pc : {"value", "change"}, reading : Readings, at : Nat]]
    /\ answer \in [ok : BOOLEAN, reading : Readings, met : Readings \cup {None}]
                    \cup {None}
    /\ settled \in Nat \cup {None}

(* A frozen controller is noticed, however many threads poll: once the     *)
(* frozen value is remembered and nothing older is on its way, no answer   *)
(* given StaleAfter or more later is good (controller_status).             *)
FrozenIsNoticed ==
    [][\A t \in Threads :
        /\ thread[t].pc # "idle" /\ thread'[t].pc = "idle"
        /\ settled # None /\ now - settled >= StaleAfter
        => ~answer'.ok]_vars

(* A controller whose heartbeat counts is only taken for lost when the     *)
(* register met the same value in another life, or a whole turn away: two  *)
(* readings of one life are never confused, in whatever order the threads  *)
(* compare them (controller_status over handle_request).                   *)
HealthyIsLeftAlone ==
    answer # None /\ ~answer.ok =>
        \/ ~answer.reading.enabled
        \/ answer.reading.life # answer.met.life
        \/ answer.reading.served - answer.met.served >= Modulus
        \/ answer.met.served - answer.reading.served >= Modulus
=============================================================================
