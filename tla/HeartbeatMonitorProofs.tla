----------------------- MODULE HeartbeatMonitorProofs -----------------------
(* Theorems about HeartbeatMonitor, for any number of gateway threads, any *)
(* register width, any threshold, and any traffic and restarts.            *)
EXTENDS HeartbeatMonitor, TLAPS

(* Bounds are numbers; None is neither a reading nor a time.               *)
Sizes ==
    /\ Modulus \in Nat \ {0} /\ StaleAfter \in Nat
    /\ MaxTime \in Nat /\ MaxServed \in Nat /\ MaxRestarts \in Nat
    /\ None \notin Readings \cup Nat
    /\ None \notin [ok : BOOLEAN, reading : Readings, met : Readings \cup {None}]

(* A reading is one the register gave, in this life of the controller or   *)
(* an earlier one; a frozen register reads zero.                           *)
Given(x) ==
    /\ ~x.enabled => x.value = 0
    /\ x.life <= plc.life
    /\ x.life = plc.life => x.enabled = plc.enabled

(* Once settled: the frozen value is remembered since then at the latest,  *)
(* and nothing else is on its way to any thread.                           *)
Frozen ==
    /\ ~plc.enabled
    /\ last # None /\ last.value = 0
    /\ lastChange <= settled
    /\ \A t \in Threads : Busy(t) =>
           thread[t].pc = "compare" /\ thread[t].reading.life = plc.life

Inv ==
    /\ TypeOK
    /\ last # None => Given(last)
    /\ lastChange <= now
    /\ \A t \in Threads : Busy(t) =>
           /\ Given(thread[t].reading)
           /\ thread[t].pc # "compare" => thread[t].at <= now
           /\ thread[t].pc = "change" => last # None
    /\ settled # None => Frozen
-----------------------------------------------------------------------------
(* The states of a thread that is busy. *)
LEMMA BusyStates ==
    ASSUME TypeOK, NEW t \in Threads, Busy(t)
    PROVE  /\ thread[t].pc \in {"compare", "value", "change"}
           /\ thread[t].reading \in Readings
           /\ thread[t].pc # "compare" => thread[t].at \in Nat
<1>1. thread[t] \in {Idle} \cup [pc : {"compare"}, reading : Readings]
                    \cup [pc : {"value", "change"}, reading : Readings, at : Nat]
  BY DEF TypeOK
<1>2. thread[t] # Idle
  BY DEF Busy, Idle
<1> QED
  BY <1>1, <1>2

LEMMA BeatType ==
    ASSUME Sizes, NEW p \in [enabled : BOOLEAN, life : Nat, served : Nat]
    PROVE  /\ Reading(p) \in Readings
           /\ Served(p) \in [enabled : BOOLEAN, life : Nat, served : Nat]
           /\ Served(p).enabled = p.enabled /\ Served(p).life = p.life
           /\ Reading(p).life = p.life /\ Reading(p).enabled = p.enabled
           /\ ~p.enabled => Reading(p).value = 0
<1>1. Beat(p) \in Int /\ (~p.enabled => Beat(p) = 0)
  <2>1. p.served % Modulus \in Int
    BY DEF Sizes
  <2> QED
    BY <2>1 DEF Beat
<1> QED
  BY <1>1 DEF Reading, Readings, Served

LEMMA InvInit == Sizes /\ Init => Inv
<1> SUFFICES ASSUME Sizes, Init PROVE Inv
  OBVIOUS
<1>1. \A t \in Threads : ~Busy(t)
  BY DEF Init, Busy, Idle
<1>2. TypeOK
  BY DEF Init, TypeOK
<1> QED
  BY <1>1, <1>2 DEF Init, Inv

LEMMA InvNext ==
    ASSUME Sizes, Inv, [Next]_vars
    PROVE  Inv'
<1>0. /\ plc \in [enabled : BOOLEAN, life : Nat, served : Nat]
      /\ now \in Nat /\ lastChange \in Nat /\ last \in Readings \cup {None}
      /\ settled \in Nat \cup {None}
      /\ thread \in [Threads -> {Idle}
                        \cup [pc : {"compare"}, reading : Readings]
                        \cup [pc : {"value", "change"}, reading : Readings, at : Nat]]
  BY DEF Inv, TypeOK
<1>1. CASE Tick
  <2>1. now' = now + 1 /\ UNCHANGED <<plc, last, lastChange, thread, answer, settled>>
    BY <1>1 DEF Tick
  <2>2. now' \in Nat /\ lastChange' <= now'
    BY <1>0, <2>1 DEF Inv
  <2>3. \A t \in Threads : Busy(t)' =>
            /\ Given(thread[t].reading)'
            /\ thread'[t].pc # "compare" => thread'[t].at <= now'
            /\ thread'[t].pc = "change" => last' # None
    <3>1. ASSUME NEW t \in Threads, Busy(t), thread[t].pc # "compare"
          PROVE  thread[t].at <= now + 1
      <4>1. thread[t].at \in Nat /\ thread[t].at <= now
        BY <3>1, BusyStates DEF Inv
      <4> QED
        BY <1>0, <4>1
    <3> QED
      BY <2>1, <3>1 DEF Inv, Busy, Given
  <2> QED
    BY <2>1, <2>2, <2>3 DEF Inv, TypeOK, Frozen, Given, Busy
<1>2. ASSUME plc' = Served(plc) \/ plc' = plc,
             UNCHANGED <<now, last, lastChange, thread, settled>>, TypeOK'
      PROVE  Inv'
  <2>1. plc'.enabled = plc.enabled /\ plc'.life = plc.life
    BY <1>0, <1>2, BeatType
  <2> QED
    BY <1>2, <2>1 DEF Inv, Given, Frozen, Busy
<1>3. CASE OtherRequest
  <2>1. TypeOK'
    BY <1>0, <1>3, BeatType DEF OtherRequest, Inv, TypeOK
  <2> QED
    BY <1>2, <1>3, <2>1 DEF OtherRequest
<1>4. CASE PlcRestart
  <2>1. /\ plc' \in [enabled : BOOLEAN, life : Nat, served : Nat]
        /\ plc'.life = plc.life + 1 /\ settled' = None
        /\ UNCHANGED <<now, last, lastChange, thread, answer>>
    BY <1>0, <1>4 DEF PlcRestart
  <2>2. TypeOK'
    BY <2>1 DEF Inv, TypeOK
  <2>3. ASSUME NEW x \in Readings, Given(x) PROVE Given(x)'
    BY <1>0, <2>1, <2>3 DEF Given, Readings
  <2>4. last' # None => Given(last)'
    BY <1>0, <2>1, <2>3 DEF Inv, Given
  <2>5. \A t \in Threads : Busy(t) => Given(thread[t].reading)'
    <3>1. ASSUME NEW t \in Threads, Busy(t) PROVE Given(thread[t].reading)'
      <4>1. thread[t].reading \in Readings /\ Given(thread[t].reading)
        BY <3>1, BusyStates DEF Inv
      <4> QED
        BY <2>1, <2>3, <4>1 DEF Given
    <3> QED
      BY <3>1
  <2> QED
    BY <2>1, <2>2, <2>4, <2>5 DEF Inv, Busy, Given
<1>5. ASSUME NEW t \in Threads, Snapshot(t) PROVE Inv'
  <2>0. PICK s : s = [pc |-> "compare", reading |-> Reading(plc')]
    OBVIOUS
  <2>1. /\ plc' = Served(plc) /\ thread' = [thread EXCEPT ![t] = s]
        /\ UNCHANGED <<now, last, lastChange, answer, settled>>
    BY <1>5, <2>0 DEF Snapshot
  <2>2. /\ plc' \in [enabled : BOOLEAN, life : Nat, served : Nat]
        /\ plc'.enabled = plc.enabled /\ plc'.life = plc.life
    BY <1>0, <2>1, BeatType
  <2>3. /\ Reading(plc') \in Readings /\ Reading(plc').life = plc'.life
        /\ Reading(plc').enabled = plc'.enabled
        /\ ~plc'.enabled => Reading(plc').value = 0
    BY <2>2, BeatType
  <2>4. /\ s.pc = "compare" /\ s.reading = Reading(plc')
        /\ s \in [pc : {"compare"}, reading : Readings]
    BY <2>0, <2>3
  <2>5. /\ thread'[t] = s /\ \A u \in Threads \ {t} : thread'[u] = thread[u]
        /\ thread' \in [Threads -> {Idle}
                        \cup [pc : {"compare"}, reading : Readings]
                        \cup [pc : {"value", "change"}, reading : Readings, at : Nat]]
    BY <1>0, <2>1, <2>4
  <2>6. TypeOK'
    BY <2>1, <2>2, <2>5 DEF Inv, TypeOK
  <2>7. /\ s.reading.life = plc'.life /\ s.reading.enabled = plc'.enabled
        /\ ~s.reading.enabled => s.reading.value = 0
        /\ s.reading.life <= plc'.life
    BY <2>2, <2>3, <2>4
  <2>8. \A u \in Threads : Busy(u)' =>
           /\ Given(thread[u].reading)'
           /\ thread'[u].pc # "compare" => thread'[u].at <= now'
           /\ thread'[u].pc = "change" => last' # None
    BY <2>1, <2>2, <2>4, <2>5, <2>7 DEF Inv, Busy, Given
  <2>9. settled' # None => Frozen'
    BY <2>1, <2>2, <2>3, <2>4, <2>5 DEF Inv, Frozen, Busy
  <2> QED
    BY <2>1, <2>2, <2>6, <2>8, <2>9 DEF Inv, Given
<1>6. ASSUME NEW t \in Threads, MeetSame(t) PROVE Inv'
  <2>1. /\ thread[t].pc = "compare" /\ Same(t)
        /\ thread' = [thread EXCEPT ![t] = Idle]
        /\ answer' = [ok |-> ~Stale, reading |-> thread[t].reading, met |-> last]
        /\ plc' = Served(plc) \/ plc' = plc
        /\ Settle(t, thread')
        /\ UNCHANGED <<now, last, lastChange>>
    BY <1>6 DEF MeetSame
  <2>2. /\ plc' \in [enabled : BOOLEAN, life : Nat, served : Nat]
        /\ plc'.enabled = plc.enabled /\ plc'.life = plc.life
    BY <1>0, <2>1, BeatType
  <2>3. /\ thread'[t] = Idle /\ \A u \in Threads \ {t} : thread'[u] = thread[u]
        /\ thread' \in [Threads -> {Idle}
                        \cup [pc : {"compare"}, reading : Readings]
                        \cup [pc : {"value", "change"}, reading : Readings, at : Nat]]
    BY <1>0, <2>1
  <2>4. thread[t].reading \in Readings
    BY <2>1, BusyStates DEF Inv, Busy
  <2>5. answer' \in [ok : BOOLEAN, reading : Readings, met : Readings \cup {None}]
    BY <1>0, <2>1, <2>4 DEF Stale
  <2>6. settled' = settled \/ settled' = now
    BY <2>1 DEF Settle
  <2>7. TypeOK'
    BY <1>0, <2>1, <2>2, <2>3, <2>5, <2>6 DEF TypeOK
  <2>8. \A u \in Threads : Busy(u)' =>
           /\ Given(thread[u].reading)'
           /\ thread'[u].pc # "compare" => thread'[u].at <= now'
           /\ thread'[u].pc = "change" => last' # None
    BY <2>1, <2>2, <2>3 DEF Inv, Busy, Given, Idle
  <2>9. CASE settled' = settled
    <3>1. settled' # None => Frozen'
      BY <2>1, <2>2, <2>3, <2>9 DEF Inv, Frozen, Busy, Idle
    <3> QED
      BY <2>1, <2>2, <2>7, <2>8, <3>1 DEF Inv, Given
  <2>10. CASE settled' # settled
    <3>1. settled' = now /\ last.value = Beat(plc) /\ Calm(plc, thread')
      BY <2>1, <2>10 DEF Settle
    <3>2. last # None
      BY <2>1 DEF Same
    <3>3. Frozen'
      BY <2>1, <2>2, <3>1, <3>2 DEF Inv, Frozen, Calm, Beat, Busy
    <3> QED
      BY <2>1, <2>2, <2>7, <2>8, <3>3 DEF Inv, Given
  <2> QED
    BY <2>9, <2>10
<1>7. ASSUME NEW t \in Threads, MeetOther(t) PROVE Inv'
  <2>0. PICK s : s = [pc |-> "value", reading |-> thread[t].reading, at |-> now]
    OBVIOUS
  <2>1. /\ thread[t].pc = "compare" /\ ~Same(t)
        /\ thread' = [thread EXCEPT ![t] = s]
        /\ UNCHANGED <<plc, now, last, lastChange, answer, settled>>
    BY <1>0, <1>7, <2>0 DEF MeetOther
  <2>2. thread[t].reading \in Readings /\ Busy(t) /\ Given(thread[t].reading)
    BY <2>1, BusyStates DEF Inv, Busy
  <2>3. /\ s.pc = "value" /\ s.reading = thread[t].reading /\ s.at = now
        /\ s \in [pc : {"value", "change"}, reading : Readings, at : Nat]
    BY <1>0, <2>0, <2>2
  <2>4. /\ thread'[t] = s /\ \A u \in Threads \ {t} : thread'[u] = thread[u]
        /\ thread' \in [Threads -> {Idle}
                        \cup [pc : {"compare"}, reading : Readings]
                        \cup [pc : {"value", "change"}, reading : Readings, at : Nat]]
    BY <1>0, <2>1, <2>3
  <2>5. TypeOK'
    BY <2>1, <2>4 DEF Inv, TypeOK
  <2>6. \A u \in Threads : Busy(u)' =>
           /\ Given(thread[u].reading)'
           /\ thread'[u].pc # "compare" => thread'[u].at <= now'
           /\ thread'[u].pc = "change" => last' # None
    BY <1>0, <2>1, <2>2, <2>3, <2>4 DEF Inv, Busy, Given
  <2>7. settled = None
    <3>1. SUFFICES ASSUME Frozen PROVE FALSE
      BY DEF Inv
    <3>2. /\ thread[t].reading.life = plc.life /\ ~plc.enabled
          /\ last # None /\ last.value = 0
      BY <2>2, <3>1 DEF Frozen
    <3>3. thread[t].reading.value = 0
      BY <2>2, <3>2 DEF Given
    <3> QED
      BY <2>1, <3>2, <3>3 DEF Same
  <2> QED
    BY <2>1, <2>5, <2>6, <2>7 DEF Inv, Given
<1>8. ASSUME NEW t \in Threads, AssignValue(t) PROVE Inv'
  <2>0. PICK s : s = [thread[t] EXCEPT !.pc = "change"]
    OBVIOUS
  <2>1. /\ thread[t].pc = "value" /\ last' = thread[t].reading
        /\ thread' = [thread EXCEPT ![t] = s]
        /\ UNCHANGED <<plc, now, lastChange, answer, settled>>
    BY <1>0, <1>8, <2>0 DEF AssignValue
  <2>2. /\ thread[t].reading \in Readings /\ Busy(t) /\ Given(thread[t].reading)
        /\ thread[t].at <= now /\ thread[t].at \in Nat
        /\ thread[t] \in [pc : {"value", "change"}, reading : Readings, at : Nat]
    BY <1>0, <2>1, BusyStates DEF Inv, Busy, Idle
  <2>3. /\ s.pc = "change" /\ s.reading = thread[t].reading /\ s.at = thread[t].at
        /\ s \in [pc : {"value", "change"}, reading : Readings, at : Nat]
    BY <2>0, <2>2
  <2>4. /\ thread'[t] = s /\ \A u \in Threads \ {t} : thread'[u] = thread[u]
        /\ thread' \in [Threads -> {Idle}
                        \cup [pc : {"compare"}, reading : Readings]
                        \cup [pc : {"value", "change"}, reading : Readings, at : Nat]]
    BY <1>0, <2>1, <2>3
  <2>5. TypeOK'
    BY <2>1, <2>2, <2>4 DEF Inv, TypeOK
  <2>6. last' # None
    BY <2>1, <2>2 DEF Sizes
  <2>7. \A u \in Threads : Busy(u)' =>
           /\ Given(thread[u].reading)'
           /\ thread'[u].pc # "compare" => thread'[u].at <= now'
           /\ thread'[u].pc = "change" => last' # None
    BY <2>1, <2>2, <2>3, <2>4, <2>6 DEF Inv, Busy, Given
  <2>8. settled = None
    BY <2>1, <2>2 DEF Inv, Frozen
  <2> QED
    BY <2>1, <2>2, <2>5, <2>7, <2>8 DEF Inv, Given
<1>9. ASSUME NEW t \in Threads, AssignChange(t) PROVE Inv'
  <2>1. /\ thread[t].pc = "change" /\ lastChange' = thread[t].at
        /\ thread' = [thread EXCEPT ![t] = Idle]
        /\ answer' = [ok |-> TRUE, reading |-> thread[t].reading, met |-> None]
        /\ Settle(t, thread')
        /\ UNCHANGED <<plc, now, last>>
    BY <1>9 DEF AssignChange
  <2>2. /\ thread[t].reading \in Readings /\ Busy(t)
        /\ thread[t].at <= now /\ thread[t].at \in Nat /\ last # None
    BY <2>1, BusyStates DEF Inv, Busy
  <2>3. /\ thread'[t] = Idle /\ \A u \in Threads \ {t} : thread'[u] = thread[u]
        /\ thread' \in [Threads -> {Idle}
                        \cup [pc : {"compare"}, reading : Readings]
                        \cup [pc : {"value", "change"}, reading : Readings, at : Nat]]
    BY <1>0, <2>1
  <2>4. settled = None
    BY <2>1, <2>2 DEF Inv, Frozen
  <2>5. answer' \in [ok : BOOLEAN, reading : Readings, met : Readings \cup {None}]
    BY <2>1, <2>2
  <2>6. settled' = settled \/ settled' = now
    BY <2>1 DEF Settle
  <2>7. TypeOK'
    BY <1>0, <2>1, <2>2, <2>3, <2>5, <2>6 DEF TypeOK
  <2>8. \A u \in Threads : Busy(u)' =>
           /\ Given(thread[u].reading)'
           /\ thread'[u].pc # "compare" => thread'[u].at <= now'
           /\ thread'[u].pc = "change" => last' # None
    BY <2>1, <2>3 DEF Inv, Busy, Given, Idle
  <2>9. settled' # None => Frozen'
    <3>1. ASSUME settled' # None PROVE Frozen'
      <4>1. settled' = now /\ last.value = Beat(plc) /\ Calm(plc, thread')
        BY <2>1, <2>4, <3>1 DEF Settle
      <4> QED
        BY <2>1, <2>2, <4>1 DEF Frozen, Calm, Beat, Busy
    <3> QED
      BY <3>1
  <2> QED
    BY <2>1, <2>2, <2>7, <2>8, <2>9 DEF Inv, Given
<1>10. CASE UNCHANGED vars
  BY <1>10 DEF vars, Inv, TypeOK, Given, Frozen, Busy
<1> QED
  BY <1>1, <1>3, <1>4, <1>5, <1>6, <1>7, <1>8, <1>9, <1>10 DEF Next

LEMMA Invariant ==
    ASSUME Sizes
    PROVE  Spec => []Inv
BY InvInit, InvNext, PTL DEF Spec

(* The monitor's state keeps its types: what controller_status remembers   *)
(* is a reading it was given, and never a reading of the future.           *)
THEOREM TypeCorrect ==
    ASSUME Sizes
    PROVE  Spec => []TypeOK
<1>1. Inv => TypeOK
  BY DEF Inv
<1> QED
  BY <1>1, Invariant, PTL

(* A frozen controller is noticed within the threshold, for any number of  *)
(* polling threads and any width of the register (controller_status).      *)
THEOREM FrozenNoticed ==
    ASSUME Sizes
    PROVE  Spec => FrozenIsNoticed
<1> DEFINE Notices == \A t \in Threads :
                /\ thread[t].pc # "idle" /\ thread'[t].pc = "idle"
                /\ settled # None /\ now - settled >= StaleAfter
                => ~answer'.ok
<1>1. Inv /\ [Next]_vars => Notices
  <2> SUFFICES ASSUME Inv, [Next]_vars, NEW t \in Threads,
                      thread[t].pc # "idle", thread'[t].pc = "idle",
                      settled # None, now - settled >= StaleAfter
               PROVE  ~answer'.ok
    OBVIOUS
  <2>0. /\ thread \in [Threads -> {Idle}
                        \cup [pc : {"compare"}, reading : Readings]
                        \cup [pc : {"value", "change"}, reading : Readings, at : Nat]]
        /\ now \in Nat /\ lastChange \in Nat /\ settled \in Nat
    BY DEF Inv, TypeOK
  <2>1. Frozen /\ thread[t].pc = "compare"
    BY DEF Inv, Frozen, Busy
  <2>2. Stale
    BY <2>0, <2>1 DEF Frozen, Stale, Sizes
  <2>3. thread' # thread
    OBVIOUS
  <2>4. ~Tick /\ ~OtherRequest /\ ~PlcRestart /\ ~(UNCHANGED vars)
    BY <2>3 DEF Tick, OtherRequest, PlcRestart, vars
  <2>5. ASSUME NEW u \in Threads, u # t,
               Snapshot(u) \/ MeetSame(u) \/ MeetOther(u) \/ AssignValue(u)
                   \/ AssignChange(u)
        PROVE  FALSE
    <3>1. thread'[t] = thread[t]
      BY <2>0, <2>5 DEF Snapshot, MeetSame, MeetOther, AssignValue, AssignChange
    <3> QED
      BY <3>1
  <2>6. Snapshot(t) \/ MeetSame(t) \/ MeetOther(t) \/ AssignValue(t) \/ AssignChange(t)
    BY <2>4, <2>5 DEF Next
  <2>7. ~Snapshot(t) /\ ~AssignValue(t) /\ ~AssignChange(t)
    BY <2>0, <2>1 DEF Snapshot, AssignValue, AssignChange, Busy
  <2>8. ~MeetOther(t)
    <3>1. MeetOther(t) => thread'[t].pc = "value"
      BY <2>0 DEF MeetOther
    <3> QED
      BY <3>1
  <2>9. answer' = [ok |-> ~Stale, reading |-> thread[t].reading, met |-> last]
    BY <2>6, <2>7, <2>8 DEF MeetSame
  <2>10. answer'.ok = ~Stale
    BY <2>9
  <2> QED
    BY <2>2, <2>10
<1>2. Inv /\ [Next]_vars => [Notices]_vars
  BY <1>1
<1> QED
  BY <1>2, Invariant, PTL DEF Spec, FrozenIsNoticed
-----------------------------------------------------------------------------
(* A register that shows one value twice has turned whole turns.           *)
LEMMA WholeTurns ==
    ASSUME Sizes, NEW a \in Nat, NEW b \in Nat, a % Modulus = b % Modulus, a < b
    PROVE  b - a >= Modulus
<1>1. PICK m \in Nat \ {0} : m = Modulus
  BY DEF Sizes
<1>2. PICK p \in Int, q \in Int : p = a \div m /\ q = b \div m
  <2>1. a \div m \in Int /\ b \div m \in Int
    OBVIOUS
  <2> QED
    BY <2>1
<1>3. a = m * p + (a % m) /\ b = m * q + (b % m)
  BY <1>2
<1>4. a % m \in Int /\ b % m \in Int
  OBVIOUS
<1>5. PICK r \in Int : r = a % m /\ r = b % m
  BY <1>1, <1>4
<1>6. m * q - m * p = b - a
  BY <1>3, <1>5
<1>7. m * (q - p) = m * q - m * p
  OBVIOUS
<1>8. q - p >= 1
  <2>1. SUFFICES ASSUME q - p <= 0 PROVE FALSE
    OBVIOUS
  <2>2. m * (q - p) <= 0
    BY <2>1
  <2> QED
    BY <2>2, <1>6, <1>7
<1>9. m * (q - p) >= m
  BY <1>8
<1> QED
  BY <1>1, <1>6, <1>7, <1>9

(* A reading tells what the register showed, and is no later than it.      *)
Past(x) ==
    /\ x.life = plc.life => x.served <= plc.served
    /\ x.enabled => x.value = x.served % Modulus

(* Two readings of one life are of two requests.                           *)
Apart(x, y) ==
    x.life = y.life => x.enabled = y.enabled /\ x.served # y.served

(* What is still to be compared is apart from all it may be compared with. *)
Fresh(t) ==
    /\ last # None => Apart(thread[t].reading, last)
    /\ \A u \in Threads : u # t /\ Busy(u) =>
            Apart(thread[t].reading, thread[u].reading)

Unique ==
    /\ last # None => Past(last)
    /\ \A t \in Threads : Busy(t) => Past(thread[t].reading)
    /\ \A t \in Threads : thread[t].pc = "compare" => Fresh(t)

LEMMA UniqueNext ==
    ASSUME Sizes, Inv, Unique, [Next]_vars
    PROVE  Unique'
<1>0. /\ plc \in [enabled : BOOLEAN, life : Nat, served : Nat]
      /\ last \in Readings \cup {None}
      /\ thread \in [Threads -> {Idle}
                        \cup [pc : {"compare"}, reading : Readings]
                        \cup [pc : {"value", "change"}, reading : Readings, at : Nat]]
      /\ \A t \in Threads : thread[t].pc = "compare" => Busy(t)
      /\ \A t \in Threads : Busy(t) => thread[t].reading \in Readings
  BY BusyStates DEF Inv, TypeOK, Busy
<1>1. ASSUME plc' = Served(plc) \/ plc' = plc, UNCHANGED <<last, thread>>
      PROVE  Unique'
  <2>1. plc'.life = plc.life /\ plc.served <= plc'.served /\ plc'.served \in Nat
    BY <1>0, <1>1 DEF Served
  <2>2. ASSUME NEW x \in Readings, Past(x)
        PROVE  /\ x.life = plc'.life => x.served <= plc'.served
               /\ x.enabled => x.value = x.served % Modulus
    BY <1>0, <2>1, <2>2 DEF Past, Readings
  <2> QED
    BY <1>0, <1>1, <2>2 DEF Unique, Past, Fresh, Apart, Busy
<1>2. CASE PlcRestart
  <2>1. plc'.life = plc.life + 1 /\ UNCHANGED <<last, thread>>
    BY <1>2 DEF PlcRestart
  <2>2. ASSUME NEW x \in Readings, Past(x), Given(x)
        PROVE  /\ x.life # plc'.life
               /\ x.enabled => x.value = x.served % Modulus
    BY <1>0, <2>1, <2>2 DEF Past, Given, Readings
  <2> QED
    BY <1>0, <2>1, <2>2 DEF Inv, Unique, Past, Fresh, Apart, Busy
<1>3. ASSUME NEW t \in Threads, Snapshot(t) PROVE Unique'
  <2>0. PICK s : s = [pc |-> "compare", reading |-> Reading(plc')]
    OBVIOUS
  <2>1. /\ plc' = Served(plc) /\ thread' = [thread EXCEPT ![t] = s]
        /\ last' = last
    BY <1>3, <2>0 DEF Snapshot
  <2>2. PICK x : x = Reading(plc')
    OBVIOUS
  <2>3. /\ plc'.life = plc.life /\ plc'.enabled = plc.enabled
        /\ plc'.served = plc.served + 1 /\ plc'.served \in Nat
    BY <1>0, <2>1 DEF Served
  <2>4. /\ x.life = plc'.life /\ x.served = plc'.served
        /\ x.enabled = plc'.enabled
        /\ x.enabled => x.value = x.served % Modulus
    BY <2>2 DEF Reading, Beat
  <2>5. thread'[t].pc = "compare" /\ thread'[t].reading = x
    BY <1>0, <2>0, <2>1, <2>2
  <2>6. \A u \in Threads \ {t} : thread'[u] = thread[u]
    BY <1>0, <2>1
  <2>7. ASSUME NEW y \in Readings, Past(y), Given(y)
        PROVE  /\ y.life = plc'.life => y.served <= plc'.served
               /\ y.enabled => y.value = y.served % Modulus
               /\ Apart(x, y) /\ Apart(y, x)
    BY <1>0, <2>3, <2>4, <2>7 DEF Past, Given, Apart, Readings
  <2>8. last' # None => Past(last)'
    BY <1>0, <2>1, <2>7 DEF Inv, Unique, Past
  <2>9. \A u \in Threads : Busy(u)' => Past(thread[u].reading)'
    <3>1. ASSUME NEW u \in Threads, Busy(u)' PROVE Past(thread[u].reading)'
      <4>1. CASE u = t
        BY <2>3, <2>4, <2>5, <4>1 DEF Past
      <4>2. CASE u # t
        <5>1. /\ thread'[u] = thread[u] /\ thread[u].reading \in Readings
              /\ Past(thread[u].reading) /\ Given(thread[u].reading)
          BY <1>0, <2>6, <3>1, <4>2 DEF Inv, Unique, Busy
        <5> QED
          BY <2>7, <5>1 DEF Past
      <4> QED
        BY <4>1, <4>2
    <3> QED
      BY <3>1
  <2>10. \A u \in Threads \ {t} : Busy(u) =>
            Apart(x, thread[u].reading) /\ Apart(thread[u].reading, x)
    BY <1>0, <2>7 DEF Inv, Unique
  <2>11. last # None => Apart(x, last)
    BY <1>0, <2>7 DEF Inv, Unique
  <2>12. \A u \in Threads : thread'[u].pc = "compare" => Fresh(u)'
    <3>1. Fresh(t)'
      BY <2>1, <2>5, <2>6, <2>10, <2>11 DEF Fresh, Busy, Apart
    <3>2. ASSUME NEW u \in Threads \ {t}, thread'[u].pc = "compare"
          PROVE  Fresh(u)'
      <4>1. Fresh(u) /\ Busy(u) /\ thread'[u] = thread[u]
        BY <1>0, <2>6, <3>2 DEF Unique
      <4> QED
        BY <2>1, <2>5, <2>6, <2>10, <4>1 DEF Fresh, Busy, Apart
    <3> QED
      BY <3>1, <3>2
  <2> QED
    BY <2>8, <2>9, <2>12 DEF Unique
<1>4. ASSUME NEW t \in Threads, MeetSame(t) \/ AssignChange(t) PROVE Unique'
  <2>1. /\ thread' = [thread EXCEPT ![t] = Idle] /\ last' = last
        /\ plc' = Served(plc) \/ plc' = plc
    BY <1>4 DEF MeetSame, AssignChange
  <2>2. plc'.life = plc.life /\ plc.served <= plc'.served /\ plc'.served \in Nat
    BY <1>0, <2>1 DEF Served
  <2>3. ASSUME NEW x \in Readings, Past(x)
        PROVE  /\ x.life = plc'.life => x.served <= plc'.served
               /\ x.enabled => x.value = x.served % Modulus
    BY <1>0, <2>2, <2>3 DEF Past, Readings
  <2>4. /\ thread'[t].pc = "idle"
        /\ \A u \in Threads \ {t} : thread'[u] = thread[u]
    BY <1>0, <2>1 DEF Idle
  <2> QED
    BY <1>0, <2>1, <2>3, <2>4 DEF Unique, Past, Fresh, Apart, Busy
<1>5. ASSUME NEW t \in Threads, MeetOther(t) \/ AssignValue(t) PROVE Unique'
  <2>1. /\ thread[t].pc \in {"compare", "value"} /\ plc' = plc
        /\ \A u \in Threads \ {t} : thread'[u] = thread[u]
    BY <1>0, <1>5 DEF MeetOther, AssignValue
  <2>2. Busy(t) /\ thread[t].reading \in Readings /\ Past(thread[t].reading)
    BY <1>0, <2>1 DEF Unique, Busy
  <2>3. thread'[t].pc \in {"value", "change"} /\ thread'[t].reading = thread[t].reading
    <3>1. CASE MeetOther(t)
      BY <1>0, <3>1 DEF MeetOther
    <3>2. CASE AssignValue(t)
      <4>1. thread[t].pc = "value" /\ thread' = [thread EXCEPT ![t].pc = "change"]
        BY <3>2 DEF AssignValue
      <4>2. thread[t] \in [pc : {"value", "change"}, reading : Readings, at : Nat]
        BY <1>0, <4>1 DEF Idle
      <4> QED
        BY <1>0, <4>1, <4>2
    <3> QED
      BY <1>5, <3>1, <3>2
  <2>4. last' = last \/ last' = thread[t].reading
    BY <1>5 DEF MeetOther, AssignValue
  <2>5. last' # None => Past(last)'
    BY <2>1, <2>2, <2>4 DEF Unique, Past
  <2>6. \A u \in Threads : Busy(u)' => Past(thread[u].reading)'
    BY <2>1, <2>2, <2>3 DEF Unique, Past, Busy
  <2>7. ASSUME NEW u \in Threads, thread'[u].pc = "compare" PROVE Fresh(u)'
    <3>1. u # t /\ thread'[u] = thread[u] /\ Fresh(u)
      BY <2>1, <2>3, <2>7 DEF Unique
    <3>2. last' # None => Apart(thread[u].reading, last')
      BY <2>2, <2>4, <3>1 DEF Fresh
    <3>3. \A v \in Threads : v # u /\ Busy(v)' =>
             Apart(thread[u].reading, thread'[v].reading)
      BY <2>1, <2>2, <2>3, <3>1 DEF Fresh, Busy
    <3> QED
      BY <3>1, <3>2, <3>3 DEF Fresh, Apart
  <2> QED
    BY <2>5, <2>6, <2>7 DEF Unique
<1>6. CASE UNCHANGED vars
  BY <1>1, <1>6 DEF vars
<1>7. CASE Tick \/ OtherRequest
  BY <1>1, <1>7 DEF Tick, OtherRequest
<1> QED
  BY <1>2, <1>3, <1>4, <1>5, <1>6, <1>7 DEF Next

(* A controller whose heartbeat counts is taken for lost only over two     *)
(* lives of it or a whole turn of its register, for any number of threads  *)
(* that overtake one another (controller_status).                          *)
THEOREM HealthyLeftAlone ==
    ASSUME Sizes
    PROVE  Spec => []HealthyIsLeftAlone
<1>1. Init => Unique /\ HealthyIsLeftAlone
  <2> SUFFICES ASSUME Init PROVE Unique /\ HealthyIsLeftAlone
    OBVIOUS
  <2>1. \A t \in Threads : thread[t].pc = "idle"
    BY DEF Init, Idle
  <2> QED
    BY <2>1 DEF Init, Unique, Busy, HealthyIsLeftAlone
<1>2. ASSUME Inv, Unique, HealthyIsLeftAlone, [Next]_vars
      PROVE  HealthyIsLeftAlone'
  <2>1. CASE answer' = answer
    BY <1>2, <2>1 DEF HealthyIsLeftAlone
  <2>2. ASSUME NEW t \in Threads, AssignChange(t) PROVE HealthyIsLeftAlone'
    <3>1. answer'.ok = TRUE
      BY <2>2 DEF AssignChange
    <3> QED
      BY <3>1 DEF HealthyIsLeftAlone
  <2>3. ASSUME NEW t \in Threads, MeetSame(t) PROVE HealthyIsLeftAlone'
    <3>1. PICK x \in Readings, y \in Readings :
            /\ x = thread[t].reading /\ y = last
            /\ x.value = y.value /\ Past(x) /\ Past(y) /\ Apart(x, y)
      <4>1. /\ thread[t].pc = "compare" /\ Same(t) /\ TypeOK
            /\ Busy(t) /\ Fresh(t)
        BY <2>3, <1>2 DEF MeetSame, Inv, Unique, Busy
      <4>2. thread[t].reading \in Readings /\ last \in Readings
        BY <4>1, BusyStates DEF TypeOK, Same
      <4> QED
        BY <4>1, <4>2, <1>2 DEF Same, Fresh, Unique
    <3>2. answer' = [ok |-> ~Stale, reading |-> x, met |-> y]
      BY <2>3, <3>1 DEF MeetSame
    <3>3. answer'.reading = x /\ answer'.met = y
      BY <3>2
    <3>4. ASSUME x.enabled, x.life = y.life
          PROVE  x.served - y.served >= Modulus \/ y.served - x.served >= Modulus
      <4>1. PICK a \in Nat, b \in Nat : a = x.served /\ b = y.served
        BY <3>1 DEF Readings
      <4>2. a # b /\ a % Modulus = b % Modulus
        BY <3>1, <3>4, <4>1 DEF Past, Apart
      <4>3. a < b \/ b < a
        BY <4>2
      <4> QED
        BY <4>1, <4>2, <4>3, WholeTurns
    <3> QED
      BY <3>3, <3>4 DEF HealthyIsLeftAlone
  <2> QED
    BY <1>2, <2>1, <2>2, <2>3
    DEF Next, Tick, OtherRequest, PlcRestart, Snapshot, MeetOther, AssignValue, vars
<1>3. Inv /\ Unique /\ HealthyIsLeftAlone /\ [Next]_vars
        => Unique' /\ HealthyIsLeftAlone'
  BY <1>2, UniqueNext
<1> QED
  BY <1>1, <1>3, Invariant, PTL DEF Spec
=============================================================================
