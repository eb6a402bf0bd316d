------------------------- MODULE DispatchPathProofs -------------------------
(* Theorems about DispatchPath, for every set of requests, identifiers and *)
(* set-points, any number of tries and restarts, and any cache size.       *)
EXTENDS DispatchPath, FiniteSetTheorems, TLAPS

(* How the threads of one request hang together.  A request nobody posted  *)
(* has no command; a thread that writes a set-point has checked its range; *)
(* an answer ends a thread, a refusal by policy ends it before it sent     *)
(* anything, and the answer applied is given for an executed write.        *)
Thread(q) ==
    /\ api[q].pc = "new" => gateway[q].pc = "absent" /\ api[q].decision = "none"
    /\ api[q].pc # "new" => command[q] \in Commands(q)
    /\ gateway[q].pc = "absent" => gateway[q].n = 0
    /\ gateway[q].pc = "over" <=> gateway[q].answer # "none"
    /\ gateway[q].pc = "write" => ~OutOfRange(q)
    /\ gateway[q].answer = "policy" => gateway[q].n = 0
    /\ gateway[q].answer = "applied" \/ gateway[q].pc = "read" => q \in applied
    /\ api[q].decision = "accepted" => q \in applied
    /\ api[q].decision = "rejected" => gateway[q].answer = "policy"
    /\ q \in applied => gateway[q].n # 0

(* A frame was sent by a thread that counted it, is zero when it is safe,  *)
(* and fits the registers.                                                 *)
Sent(f) ==
    /\ Magnitude(f.setpoint) <= RegisterMax
    /\ f.safe => f.setpoint = 0
    /\ gateway[f.by].n # 0

Inv ==
    /\ TypeOK
    /\ command = [q \in Requests |-> command[q]]
    /\ \A q \in Requests : Thread(q)
    /\ \A f \in wire : Sent(f)
-----------------------------------------------------------------------------
LEMMA StepCases ==
    ASSUME [Next]_vars
    PROVE  \/ \E q \in Requests : Submit(q) \/ Answer(q) \/ TimeOut(q) \/ Record(q)
           \/ \E q \in Requests : Admit(q) \/ Retry(q) \/ GiveUp(q) \/ ReadBack(q)
           \/ \E f \in wire : Execute(f) \/ Lose(f)
           \/ ApiRestart \/ GatewayRestart \/ PlcRestart
           \/ UNCHANGED vars
BY DEF Next, ApiStep, GatewayStep

LEMMA Constants ==
    /\ Setpoints \subseteq Int
    /\ SiteCapacity \in Nat /\ RegisterMax \in Nat /\ SignedMax \in Nat
    /\ PlcCapacity \in Nat /\ Tries \in Nat /\ Tries > 0
    /\ CacheSize \in Nat /\ CacheSize > 0 /\ MaxRestarts \in Nat
BY ConstantsAssumption

LEMMA ZeroFits == Magnitude(0) = 0 /\ 0 \in Power
BY Constants, SMT DEF Magnitude, Power

(* What a request asks for. *)
LEMMA CommandType ==
    ASSUME NEW q \in Requests, NEW c \in Commands(q) \cup {NoCommand(q)}
    PROVE  /\ c.setpoint \in Setpoints \cup {0}
           /\ c.setpoint \in Int
           /\ c.id \in Ids \cup Requests
           /\ c.kind # "dispatch" => c.setpoint = 0
           /\ c \in Commands(q) => c.kind \in {"dispatch", "safe_state"}
<1>1. CASE c = NoCommand(q)
  <2>1. c = [kind |-> "none", id |-> q, setpoint |-> 0]
    BY <1>1 DEF NoCommand
  <2> QED
    BY <2>1, Constants DEF Commands
<1>2. CASE c \in [kind : {"dispatch"}, id : Ids \cup {q},
                   setpoint : {s \in Setpoints : Magnitude(s) <= SiteCapacity}]
  <2>1. c.kind = "dispatch" /\ c.id \in Ids \cup {q} /\ c.setpoint \in Setpoints
    BY <1>2
  <2> QED
    BY <2>1, Constants
<1>3. CASE c = [kind |-> "safe_state", id |-> q, setpoint |-> 0]
  BY <1>3
<1> QED
  BY <1>1, <1>2, <1>3 DEF Commands

LEMMA InvInit == Init => Inv
<1> SUFFICES ASSUME Init PROVE Inv
  OBVIOUS
<1>1. \A q \in Requests : command[q] \in Commands(q) \cup {NoCommand(q)}
  BY DEF Init
<1>2. /\ api \in [Requests -> ApiState]
      /\ gateway \in [Requests -> GatewayState]
  BY Constants, ZeroFits, SMT DEF Init, ApiState, GatewayState
<1>3. plc \in Registers
  BY Constants, ZeroFits, SMT DEF Init, Registers, Started
<1>4. TypeOK
  BY <1>1, <1>2, <1>3, Constants, SMT DEF Init, TypeOK
<1>5. \A q \in Requests : Thread(q)
  BY DEF Init, Thread
<1> QED
  BY <1>4, <1>5 DEF Init, Inv

(* A step that only moves the API thread of q on. *)
LEMMA ApiMoves ==
    ASSUME Inv, NEW q \in Requests, NEW now \in ApiState,
           api' = [api EXCEPT ![q] = now],
           api[q].pc # "new", now.pc # "new",
           now.decision = "accepted" => q \in applied,
           now.decision = "rejected" => gateway[q].answer = "policy",
           UNCHANGED <<command, gateway, seen, admitted, wire, plc, applied, restarts>>
    PROVE  Inv'
<1>1. api \in [Requests -> ApiState]
  BY DEF Inv, TypeOK
<1>2. api' \in [Requests -> ApiState] /\ api'[q] = now
  BY <1>1
<1>3. TypeOK'
  BY <1>2 DEF Inv, TypeOK
<1>4. Thread(q)'
  BY <1>2 DEF Inv, Thread, OutOfRange
<1>5. ASSUME NEW r \in Requests, r # q PROVE Thread(r)'
  <2>1. api'[r] = api[r]
    BY <1>1, <1>5
  <2> QED
    BY <2>1 DEF Inv, Thread, OutOfRange
<1> QED
  BY <1>3, <1>4, <1>5 DEF Inv, Sent

LEMMA UnrecordedType ==
    Unrecorded \in ApiState /\ Unrecorded.pc = "lost" /\ Unrecorded.decision = "none"
BY ZeroFits DEF Unrecorded, ApiState

LEMMA ApiInv ==
    ASSUME Inv, NEW q \in Requests,
           Submit(q) \/ Answer(q) \/ TimeOut(q) \/ Record(q)
    PROVE  Inv'
<1>0. /\ api \in [Requests -> ApiState] /\ api[q] \in ApiState
      /\ gateway \in [Requests -> GatewayState] /\ gateway[q] \in GatewayState
  BY DEF Inv, TypeOK
<1>1. CASE Submit(q)
  <2>1. PICK c \in Commands(q) : command' = [command EXCEPT ![q] = c]
    BY <1>1 DEF Submit
  <2>2. command'[q] = c /\ \A r \in Requests \ {q} : command'[r] = command[r]
    BY <2>1 DEF Inv
  <2>3. api'[q] = [api[q] EXCEPT !.pc = "calling"]
        /\ \A r \in Requests \ {q} : api'[r] = api[r]
    BY <1>0, <1>1 DEF Submit
  <2>4. api' \in [Requests -> ApiState]
    BY <1>0, <1>1 DEF Submit, ApiState
  <2>5. TypeOK'
    BY <1>1, <2>2, <2>4 DEF Submit, Inv, TypeOK
  <2>6. Thread(q)'
    BY <1>0, <1>1, <2>2, <2>3 DEF Submit, Inv, Thread, ApiState
  <2>7. \A r \in Requests \ {q} : Thread(r)'
    BY <1>1, <2>2, <2>3 DEF Submit, Inv, Thread, OutOfRange
  <2>8. command' = [r \in Requests |-> command'[r]]
    BY <2>1 DEF Inv
  <2> QED
    BY <1>1, <2>5, <2>6, <2>7, <2>8 DEF Submit, Inv, Sent
<1>2. CASE Answer(q)
  <2> DEFINE now == [pc |-> "recording", decision |-> Decision(gateway[q].answer),
                     measured |-> gateway[q].measured]
  <2>1. gateway[q].answer \in {"applied", "policy", "unavailable"}
    BY <1>0, <1>2 DEF Answer, Inv, Thread, GatewayState
  <2>2. now \in ApiState
    BY <1>0, <2>1 DEF ApiState, GatewayState, Decision
  <2>3. /\ now.decision = "accepted" => q \in applied
        /\ now.decision = "rejected" => gateway[q].answer = "policy"
    BY <2>1 DEF Decision, Inv, Thread
  <2> HIDE DEF now
  <2>4. now.pc # "new"
    BY DEF now
  <2>5. CASE api' = [api EXCEPT ![q] = now]
    BY <1>2, <2>2, <2>3, <2>4, <2>5, ApiMoves DEF Answer
  <2>6. CASE api' = [api EXCEPT ![q] = Unrecorded]
    BY <1>2, <2>6, UnrecordedType, ApiMoves DEF Answer
  <2> QED
    BY <1>2, <2>5, <2>6 DEF Answer, now
<1>3. CASE TimeOut(q)
  <2> DEFINE now == [api[q] EXCEPT !.pc = "recording", !.decision = "failed"]
  <2>1. api' = [api EXCEPT ![q] = now]
    BY <1>0, <1>3 DEF TimeOut
  <2>2. now \in ApiState /\ now.pc # "new" /\ now.decision = "failed"
    BY <1>0 DEF ApiState
  <2> HIDE DEF now
  <2> QED
    BY <1>3, <2>1, <2>2, ApiMoves DEF TimeOut
<1>4. CASE Record(q)
  <2> DEFINE now == [api[q] EXCEPT !.pc = "done"]
  <2>1. now \in ApiState /\ now.pc # "new" /\ now.decision = api[q].decision
    BY <1>0 DEF ApiState
  <2>2. /\ api[q].decision = "accepted" => q \in applied
        /\ api[q].decision = "rejected" => gateway[q].answer = "policy"
    BY DEF Inv, Thread
  <2>3. api' = [api EXCEPT ![q] = now] \/ api' = [api EXCEPT ![q] = Unrecorded]
    BY <1>0, <1>4 DEF Record
  <2> HIDE DEF now
  <2>4. CASE api' = [api EXCEPT ![q] = now]
    BY <1>4, <2>1, <2>2, <2>4, ApiMoves DEF Record
  <2>5. CASE api' = [api EXCEPT ![q] = Unrecorded]
    BY <1>4, <2>5, UnrecordedType, ApiMoves DEF Record
  <2> QED
    BY <2>3, <2>4, <2>5
<1> QED
  BY <1>1, <1>2, <1>3, <1>4
-----------------------------------------------------------------------------
(* A step of the gateway thread of q, or of the controller for it. *)
LEMMA ThreadMoves ==
    ASSUME Inv, NEW q \in Requests, NEW now \in GatewayState,
           gateway' = [gateway EXCEPT ![q] = now],
           UNCHANGED <<command, api, restarts>>,
           seen' \in Seq(Ids \cup Requests), Len(seen') <= CacheSize,
           admitted' \in Seq(Ids \cup Requests),
           plc' \in Registers,
           applied \subseteq applied', applied' \subseteq applied \cup {q},
           wire' \subseteq Frame,
           \A f \in wire' \ wire :
               /\ f.by = q /\ now.n # 0
               /\ Magnitude(f.setpoint) <= RegisterMax
               /\ f.safe => f.setpoint = 0,
           api[q].pc # "new", now.pc # "absent",
           now.pc = "over" <=> now.answer # "none",
           now.pc = "write" => ~OutOfRange(q),
           now.answer = "policy" => now.n = 0,
           now.answer = "applied" \/ now.pc = "read" => q \in applied',
           q \in applied' => now.n # 0,
           gateway[q].n # 0 => now.n # 0,
           gateway[q].answer = "policy" => now.answer = "policy"
    PROVE  Inv'
<1>1. gateway \in [Requests -> GatewayState]
  BY DEF Inv, TypeOK
<1>2. /\ gateway' \in [Requests -> GatewayState] /\ gateway'[q] = now
      /\ \A r \in Requests \ {q} : gateway'[r] = gateway[r]
  BY <1>1
<1>3. applied' \subseteq Requests
  BY DEF Inv, TypeOK
<1>4. TypeOK'
  BY <1>2, <1>3 DEF Inv, TypeOK
<1>5. Thread(q)'
  BY <1>2 DEF Inv, Thread, OutOfRange
<1>6. ASSUME NEW r \in Requests, r # q PROVE Thread(r)'
  <2>1. gateway'[r] = gateway[r] /\ (r \in applied' <=> r \in applied)
    BY <1>2, <1>6
  <2> QED
    BY <2>1 DEF Inv, Thread, OutOfRange
<1>7. ASSUME NEW f \in wire' PROVE Sent(f)'
  <2>1. CASE f \in wire
    <3>1. f.by \in Requests
      BY <2>1 DEF Inv, TypeOK, Frame
    <3> QED
      BY <2>1, <3>1, <1>2 DEF Inv, Sent
  <2>2. CASE f \notin wire
    <3>1. /\ f.by = q /\ now.n # 0
          /\ Magnitude(f.setpoint) <= RegisterMax /\ (f.safe => f.setpoint = 0)
      BY <2>2
    <3>2. gateway'[f.by].n # 0
      BY <3>1, <1>2
    <3> QED
      BY <3>1, <3>2 DEF Sent
  <2> QED
    BY <2>1, <2>2
<1> QED
  BY <1>4, <1>5, <1>6, <1>7 DEF Inv

(* A thread that has begun belongs to a posted command. *)
LEMMA BegunIsPosted ==
    ASSUME Inv, NEW q \in Requests, gateway[q].pc # "absent"
    PROVE  /\ api[q].pc # "new"
           /\ command[q] \in Commands(q)
           /\ command[q].setpoint \in Setpoints \cup {0}
           /\ command[q].setpoint \in Int
           /\ command[q].kind \in {"dispatch", "safe_state"}
           /\ command[q].kind # "dispatch" => command[q].setpoint = 0
<1>1. api[q].pc # "new" /\ command[q] \in Commands(q)
  BY DEF Inv, Thread
<1> QED
  BY <1>1, CommandType

(* A thread ends with an answer. *)
LEMMA OverInv ==
    ASSUME Inv, NEW q \in Requests, NEW answer \in {"applied", "unavailable"},
           NEW power \in Power, Over(q, answer, power),
           gateway[q].pc \in {"write", "read", "rescue"}, gateway[q].n # 0,
           answer = "applied" => q \in applied,
           UNCHANGED <<command, api, restarts, seen, admitted>>,
           plc' \in Registers,
           applied \subseteq applied', applied' \subseteq applied \cup {q},
           wire' \subseteq wire
    PROVE  Inv'
<1> DEFINE now == [gateway[q] EXCEPT !.pc = "over", !.answer = answer,
                                     !.measured = power]
<1>1. gateway \in [Requests -> GatewayState] /\ gateway[q] \in GatewayState
  BY DEF Inv, TypeOK
<1>2. gateway' = [gateway EXCEPT ![q] = now]
  BY <1>1 DEF Over
<1>3. /\ now \in GatewayState /\ now.pc = "over" /\ now.answer = answer
      /\ now.n = gateway[q].n
  BY <1>1 DEF GatewayState
<1> HIDE DEF now
<1>4. api[q].pc # "new"
  BY BegunIsPosted
<1>5. gateway[q].answer # "policy"
  BY DEF Inv, Thread
<1>6. /\ seen' \in Seq(Ids \cup Requests) /\ Len(seen') <= CacheSize
      /\ admitted' \in Seq(Ids \cup Requests) /\ wire' \subseteq Frame
  BY DEF Inv, TypeOK
<1> QED
  BY <1>2, <1>3, <1>4, <1>5, <1>6, ThreadMoves

(* A thread begins an exchange. *)
LEMMA BeginInv ==
    ASSUME Inv, NEW q \in Requests, NEW pc \in {"write", "rescue"}, Begin(q, pc),
           pc = "write" => ~OutOfRange(q),
           gateway[q].pc \in {"absent", "write", "read"},
           api[q].pc # "new",
           UNCHANGED <<command, api, restarts, plc, applied>>,
           seen' \in Seq(Ids \cup Requests), Len(seen') <= CacheSize,
           admitted' \in Seq(Ids \cup Requests)
    PROVE  Inv'
<1> DEFINE now == [gateway[q] EXCEPT !.pc = pc, !.n = 1]
           f == [by |-> q, n |-> 1, safe |-> pc = "rescue" \/ ~IsDispatch(q),
                 setpoint |-> IF pc = "rescue" THEN 0 ELSE command[q].setpoint]
<1>1. gateway \in [Requests -> GatewayState] /\ gateway[q] \in GatewayState
  BY DEF Inv, TypeOK
<1>2. gateway' = [gateway EXCEPT ![q] = now]
  BY <1>1 DEF Begin
<1>3. /\ now \in GatewayState /\ now.pc = pc /\ now.n = 1
      /\ now.answer = gateway[q].answer
  <2>1. pc \in {"absent", "write", "read", "rescue", "over", "dead"} /\ 1 \in 0..Tries
    BY Constants
  <2> QED
    BY <1>1, <2>1 DEF GatewayState
<1>4. command[q] \in Commands(q)
  BY DEF Inv, Thread
<1>5. /\ command[q].setpoint \in Setpoints \cup {0}
      /\ command[q].kind # "dispatch" => command[q].setpoint = 0
  BY <1>4, CommandType
<1>6. f \in Frame
  BY <1>5, Constants DEF Frame
<1>7. f.by = q /\ Magnitude(f.setpoint) <= RegisterMax /\ (f.safe => f.setpoint = 0)
  <2>1. CASE pc = "rescue"
    BY <2>1, ZeroFits, Constants
  <2>2. CASE pc = "write"
    <3>1. command[q].setpoint \in Int
      BY <1>4, CommandType
    <3>2. Magnitude(command[q].setpoint) <= RegisterMax
      BY <2>2, <3>1, Constants DEF OutOfRange, Magnitude
    <3> QED
      BY <2>2, <3>2, <1>5 DEF IsDispatch
  <2> QED
    BY <2>1, <2>2
<1>8. wire' = wire \cup {f}
  BY DEF Begin
<1> HIDE DEF now, f
<1>9. /\ gateway[q].answer = "none"
      /\ plc' \in Registers /\ wire' \subseteq Frame
  BY <1>6, <1>8 DEF Inv, TypeOK, Thread
<1>10. \A g \in wire' \ wire : g = f
  BY <1>8
<1>11. \A g \in wire' \ wire :
          /\ g.by = q /\ now.n # 0
          /\ Magnitude(g.setpoint) <= RegisterMax
          /\ g.safe => g.setpoint = 0
  BY <1>3, <1>7, <1>10
<1>12. now.answer = "none" /\ now.pc \notin {"absent", "over", "read"} /\ now.n # 0
  BY <1>3, <1>9
<1>13. applied \subseteq applied' /\ applied' \subseteq applied \cup {q}
  OBVIOUS
<1> QED
  BY <1>2, <1>3, <1>9, <1>11, <1>12, <1>13, ThreadMoves

(* The replay cache never holds more than its size. *)
LEMMA RememberType ==
    ASSUME Inv, NEW id \in Ids \cup Requests
    PROVE  /\ Remember(id) \in Seq(Ids \cup Requests)
           /\ Len(Remember(id)) <= CacheSize
           /\ Len(Remember(id)) = IF Len(seen) = CacheSize THEN CacheSize
                                  ELSE Len(seen) + 1
<1>1. seen \in Seq(Ids \cup Requests) /\ Len(seen) \in Nat /\ Len(seen) <= CacheSize
  BY DEF Inv, TypeOK
<1>2. CASE Len(seen) = CacheSize
  <2>1. seen # <<>>
    BY <1>1, <1>2, Constants
  <2>2. Tail(seen) \in Seq(Ids \cup Requests) /\ Len(Tail(seen)) = CacheSize - 1
    BY <1>1, <1>2, <2>1
  <2> QED
    BY <1>2, <2>2, Constants DEF Remember
<1>3. CASE Len(seen) # CacheSize
  BY <1>1, <1>3, Constants DEF Remember
<1> QED
  BY <1>2, <1>3

LEMMA AdmitInv ==
    ASSUME Inv, NEW q \in Requests, Admit(q)
    PROVE  Inv'
<1>1. /\ gateway \in [Requests -> GatewayState] /\ gateway[q] \in GatewayState
      /\ seen \in Seq(Ids \cup Requests) /\ Len(seen) <= CacheSize
      /\ admitted \in Seq(Ids \cup Requests)
      /\ plc \in Registers /\ wire \subseteq Frame
  BY DEF Inv, TypeOK
<1>2. /\ api[q].pc # "new" /\ gateway[q].pc = "absent"
      /\ UNCHANGED <<command, api, plc, applied, restarts>>
  BY DEF Admit
<1>3. /\ command[q] \in Commands(q) /\ command[q].id \in Ids \cup Requests
      /\ gateway[q].n = 0 /\ gateway[q].answer = "none" /\ q \notin applied
  <2>1. command[q] \in Commands(q)
    BY <1>2 DEF Inv, Thread
  <2> QED
    BY <1>2, <2>1, CommandType DEF Inv, Thread
<1>4. ASSUME Over(q, "policy", 0), UNCHANGED wire,
             seen' \in Seq(Ids \cup Requests), Len(seen') <= CacheSize,
             admitted' \in Seq(Ids \cup Requests)
      PROVE  Inv'
  <2> DEFINE now == [gateway[q] EXCEPT !.pc = "over", !.answer = "policy",
                                       !.measured = 0]
  <2>1. gateway' = [gateway EXCEPT ![q] = now]
    BY <1>1, <1>4 DEF Over
  <2>2. now \in GatewayState /\ now.pc = "over" /\ now.answer = "policy" /\ now.n = 0
    BY <1>1, <1>3, ZeroFits DEF GatewayState
  <2> HIDE DEF now
  <2>3. /\ plc' \in Registers /\ wire' \subseteq Frame /\ q \notin applied'
        /\ applied \subseteq applied' /\ applied' \subseteq applied \cup {q}
        /\ \A f \in wire' \ wire : FALSE
    BY <1>1, <1>2, <1>3, <1>4
  <2> QED
    BY <1>2, <1>3, <1>4, <2>1, <2>2, <2>3, ThreadMoves
<1>5. CASE Over(q, "policy", 0) /\ UNCHANGED <<seen, admitted, wire>>
  BY <1>1, <1>4, <1>5
<1>6. ASSUME seen' = Remember(command[q].id), admitted' = Append(admitted, command[q].id),
             \/ Over(q, "policy", 0) /\ UNCHANGED wire
             \/ ~OutOfRange(q) /\ Begin(q, "write")
      PROVE  Inv'
  <2>1. seen' \in Seq(Ids \cup Requests) /\ Len(seen') <= CacheSize
    BY <1>3, <1>6, RememberType
  <2>2. admitted' \in Seq(Ids \cup Requests)
    BY <1>1, <1>3, <1>6
  <2> QED
    BY <1>2, <1>4, <1>6, <2>1, <2>2, BeginInv
<1> QED
  BY <1>5, <1>6 DEF Admit

LEMMA RetryInv ==
    ASSUME Inv, NEW q \in Requests, Retry(q)
    PROVE  Inv'
<1> DEFINE now == [gateway[q] EXCEPT !.n = @ + 1]
           safe == gateway[q].pc = "rescue" \/ ~IsDispatch(q)
           f == [by |-> q, n |-> gateway[q].n + 1, safe |-> safe,
                 setpoint |-> IF safe THEN 0 ELSE command[q].setpoint]
<1>1. /\ gateway \in [Requests -> GatewayState] /\ gateway[q] \in GatewayState
      /\ gateway[q].n \in 0..Tries
  BY DEF Inv, TypeOK, GatewayState
<1>2. /\ gateway[q].pc \in {"write", "rescue"} /\ gateway[q].n < Tries
      /\ UNCHANGED <<command, api, seen, admitted, plc, applied, restarts>>
  BY DEF Retry, Exchanging
<1>3. gateway' = [gateway EXCEPT ![q] = now]
  BY <1>1 DEF Retry
<1>4. wire' = wire \cup {f}
  BY DEF Retry, Outstanding
<1>5. /\ api[q].pc # "new" /\ command[q].setpoint \in Setpoints \cup {0}
      /\ command[q].setpoint \in Int
  BY <1>2, BegunIsPosted
<1>6. gateway[q].n + 1 \in 1..Tries
  BY <1>1, <1>2, Constants
<1>7. f \in Frame
  BY <1>5, <1>6, Constants DEF Frame
<1>8. f.by = q /\ Magnitude(f.setpoint) <= RegisterMax /\ (f.safe => f.setpoint = 0)
  <2>1. CASE safe
    BY <2>1, ZeroFits, Constants
  <2>2. CASE ~safe
    <3>1. ~OutOfRange(q)
      BY <1>2, <2>2 DEF Inv, Thread
    <3>2. Magnitude(command[q].setpoint) <= RegisterMax
      BY <3>1, <1>5, Constants DEF OutOfRange, Magnitude
    <3> QED
      BY <2>2, <3>2
  <2> QED
    BY <2>1, <2>2
<1>9. /\ now \in GatewayState /\ now.n # 0 /\ now.pc = gateway[q].pc
      /\ now.answer = gateway[q].answer
  BY <1>1, <1>6 DEF GatewayState
<1> HIDE DEF now, f
<1>10. /\ gateway[q].answer = "none"
       /\ now.pc = "write" => ~OutOfRange(q)
  BY <1>2, <1>9 DEF Inv, Thread
<1>11. /\ seen' \in Seq(Ids \cup Requests) /\ Len(seen') <= CacheSize
       /\ admitted' \in Seq(Ids \cup Requests)
       /\ plc' \in Registers /\ wire' \subseteq Frame
       /\ applied \subseteq applied' /\ applied' \subseteq applied \cup {q}
  BY <1>2, <1>4, <1>7 DEF Inv, TypeOK
<1>12. \A g \in wire' \ wire :
          /\ g.by = q /\ now.n # 0
          /\ Magnitude(g.setpoint) <= RegisterMax
          /\ g.safe => g.setpoint = 0
  BY <1>4, <1>8, <1>9
<1>13. now.answer = "none" /\ now.pc \in {"write", "rescue"}
  BY <1>2, <1>9, <1>10
<1> QED
  BY <1>2, <1>3, <1>5, <1>9, <1>10, <1>11, <1>12, <1>13, ThreadMoves

LEMMA EndsInv ==
    ASSUME Inv, NEW q \in Requests, GiveUp(q) \/ ReadBack(q)
    PROVE  Inv'
<1>1. /\ seen \in Seq(Ids \cup Requests) /\ Len(seen) <= CacheSize
      /\ admitted \in Seq(Ids \cup Requests)
      /\ plc \in Registers /\ plc.measured \in Power
  BY DEF Inv, TypeOK, Registers
<1>2. /\ gateway[q].pc \in {"write", "read", "rescue"}
      /\ UNCHANGED <<command, api, seen, admitted, plc, applied, restarts>>
  BY DEF GiveUp, ReadBack, Exchanging
<1>3. api[q].pc # "new"
  BY <1>2, BegunIsPosted
<1>4. gateway[q].n # 0
  <2>1. CASE GiveUp(q)
    BY <2>1, Constants DEF GiveUp
  <2>2. CASE ReadBack(q)
    BY <2>2 DEF ReadBack, Inv, Thread
  <2> QED
    BY <2>1, <2>2
<1>5. CASE /\ gateway[q].pc \in {"write", "read"}
           /\ Begin(q, "rescue")
  BY <1>1, <1>2, <1>3, <1>5, BeginInv
<1>6. CASE Over(q, "unavailable", 0) /\ UNCHANGED wire
  BY <1>1, <1>2, <1>4, <1>6, ZeroFits, OverInv
<1>7. CASE /\ gateway[q].pc = "read"
           /\ Over(q, "applied", plc.measured) /\ UNCHANGED wire
  <2>1. q \in applied
    BY <1>7 DEF Inv, Thread
  <2> QED
    BY <1>1, <1>2, <1>4, <1>7, <2>1, OverInv
<1> QED
  BY <1>5, <1>6, <1>7 DEF GiveUp, ReadBack
-----------------------------------------------------------------------------
(* A frame that fits leaves registers that fit. *)
LEMMA WrittenFits ==
    ASSUME NEW p \in Registers, NEW f \in Frame, Magnitude(f.setpoint) <= RegisterMax
    PROVE  Written(p, f) \in Registers
<1> DEFINE set == [p EXCEPT !.import = Import(f.setpoint),
                            !.export = Export(f.setpoint),
                            !.mode = IF f.safe THEN "safe_state" ELSE "dispatch"]
<1> HIDE DEF set
<1>1. f.setpoint \in Int /\ f.safe \in BOOLEAN
  <2>1. f.setpoint \in Setpoints \cup {0} /\ f.safe \in BOOLEAN
    BY SMT DEF Frame
  <2>2. Setpoints \subseteq Int /\ 0 \in Int
    BY Constants
  <2> QED
    BY <2>1, <2>2
<1>2. Import(f.setpoint) \in 0..RegisterMax /\ Export(f.setpoint) \in 0..RegisterMax
  BY <1>1, Constants DEF Import, Export, Magnitude
<1>3. set \in Registers
  BY <1>2 DEF Registers, set
<1>4. p.alarm \cup {"invalid"} \in SUBSET {"safe", "invalid"}
  BY DEF Registers
<1>5. [p EXCEPT !.alarm = @ \cup {"invalid"}] \in Registers
  BY <1>4 DEF Registers
<1>6. ASSUME f.setpoint \in Power
      PROVE  [set EXCEPT !.measured = f.setpoint,
                         !.state = IF f.safe THEN "safe_state" ELSE "active",
                         !.alarm = IF f.safe THEN {"safe"} ELSE {}] \in Registers
  BY <1>3, <1>6 DEF Registers
<1>7. CASE Refused(f)
  BY <1>5, <1>7 DEF Written
<1>8. CASE ~Refused(f) /\ Unmeasurable(f)
  BY <1>3, <1>8 DEF Written, set
<1>9. CASE ~Refused(f) /\ ~Unmeasurable(f)
  BY <1>6, <1>9 DEF Written, Unmeasurable, set
<1> QED
  BY <1>7, <1>8, <1>9

LEMMA ExecuteInv ==
    ASSUME Inv, NEW f \in wire, Execute(f)
    PROVE  Inv'
<1> DEFINE q == f.by
<1>1. /\ gateway \in [Requests -> GatewayState] /\ f \in Frame /\ q \in Requests
      /\ seen \in Seq(Ids \cup Requests) /\ Len(seen) <= CacheSize
      /\ admitted \in Seq(Ids \cup Requests)
      /\ wire \subseteq Frame /\ plc \in Registers
  BY DEF Inv, TypeOK, Frame
<1>2. /\ wire' = wire \ {f} /\ plc' = Written(plc, f)
      /\ UNCHANGED <<command, api, seen, admitted, restarts>>
      /\ applied' = applied \/ applied' = applied \cup {q}
  BY DEF Execute
<1>3. Magnitude(f.setpoint) <= RegisterMax /\ gateway[q].n # 0
  BY DEF Inv, Sent
<1>4. plc' \in Registers
  BY <1>1, <1>2, <1>3, WrittenFits
<1>5. gateway[q] \in GatewayState /\ gateway[q].pc # "absent" /\ Thread(q)
  BY <1>1, <1>3 DEF Inv, Thread
<1>6. api[q].pc # "new" /\ command[q].kind \in {"dispatch", "safe_state"}
  BY <1>1, <1>5, BegunIsPosted
<1>7. /\ applied \subseteq applied' /\ applied' \subseteq applied \cup {q}
      /\ wire' \subseteq wire /\ wire' \subseteq Frame
  BY <1>1, <1>2
<1>8. \A g \in wire' \ wire : FALSE
  BY <1>7
<1> HIDE DEF q
<1>9. CASE UNCHANGED gateway
  <2> DEFINE now == gateway[q]
  <2>1. gateway' = [gateway EXCEPT ![q] = now]
    BY <1>1, <1>9
  <2>2. /\ now \in GatewayState /\ now.n # 0 /\ now.pc # "absent"
        /\ now.pc = "over" <=> now.answer # "none"
        /\ now.pc = "write" => ~OutOfRange(q)
        /\ now.answer = "policy" => now.n = 0
        /\ now.answer = "applied" \/ now.pc = "read" => q \in applied'
    BY <1>3, <1>5, <1>7 DEF Thread
  <2>3. /\ gateway[q].n # 0 => now.n # 0
        /\ gateway[q].answer = "policy" => now.answer = "policy"
    OBVIOUS
  <2> HIDE DEF now
  <2> QED
    BY <1>1, <1>2, <1>4, <1>6, <1>7, <1>8, <2>1, <2>2, <2>3, ThreadMoves
<1>10. CASE /\ Acknowledged(f) /\ f = Outstanding(q) /\ gateway[q].pc = "write"
            /\ gateway' = [gateway EXCEPT ![q].pc = "read"]
  <2> DEFINE now == [gateway[q] EXCEPT !.pc = "read"]
  <2>1. gateway' = [gateway EXCEPT ![q] = now]
    BY <1>1, <1>10
  <2>2. f.safe = ~IsDispatch(q)
    BY <1>10 DEF Outstanding
  <2>3. Own(f)
    BY <1>6, <2>2 DEF Own, IsDispatch, q
  <2>4. q \in applied'
    BY <1>10, <2>3 DEF Execute, q
  <2>5. /\ now \in GatewayState /\ now.n # 0 /\ now.pc = "read"
        /\ now.answer = "none"
    BY <1>3, <1>5, <1>10 DEF GatewayState, Thread
  <2>6. gateway[q].answer = "none"
    BY <1>5, <1>10 DEF Thread
  <2> HIDE DEF now
  <2> QED
    BY <1>1, <1>2, <1>4, <1>6, <1>7, <1>8, <2>1, <2>4, <2>5, <2>6, ThreadMoves
<1>11. CASE gateway[q].pc = "rescue" /\ Over(q, "unavailable", 0)
  BY <1>1, <1>2, <1>3, <1>4, <1>7, <1>11, ZeroFits, OverInv
<1> QED
  BY <1>9, <1>10, <1>11 DEF Execute, q

LEMMA LoseInv ==
    ASSUME Inv, NEW f \in wire, Lose(f)
    PROVE  Inv'
<1>1. wire' \subseteq wire /\ UNCHANGED <<command, api, gateway, seen, admitted,
                                          plc, applied, restarts>>
  BY DEF Lose
<1> QED
  BY <1>1 DEF Inv, TypeOK, Thread, OutOfRange, Sent

LEMMA StutterInv ==
    ASSUME Inv, UNCHANGED vars
    PROVE  Inv'
BY DEF vars, Inv, TypeOK, Thread, OutOfRange, Sent

LEMMA ApiRestartInv ==
    ASSUME Inv, ApiRestart
    PROVE  Inv'
<1>1. /\ api \in [Requests -> ApiState] /\ restarts \in 0..MaxRestarts
  BY DEF Inv, TypeOK
<1>2. /\ restarts' \in 0..MaxRestarts
      /\ UNCHANGED <<command, gateway, seen, admitted, wire, plc, applied>>
  BY <1>1, Constants DEF ApiRestart
<1>3. ASSUME NEW q \in Requests
      PROVE  /\ api'[q] \in ApiState /\ api'[q].decision \in {api[q].decision, "none"}
             /\ api'[q].pc = "new" <=> api[q].pc = "new"
  <2>1. api[q] \in ApiState
    BY <1>1
  <2>2. api'[q] = IF api[q].pc \in {"calling", "recording"}
                  THEN Unrecorded ELSE api[q]
    BY DEF ApiRestart
  <2> QED
    BY <2>1, <2>2, UnrecordedType
<1>4. api' \in [Requests -> ApiState]
  <2>1. api' = [q \in Requests |-> api'[q]]
    BY DEF ApiRestart
  <2> QED
    BY <1>3, <2>1
<1>5. TypeOK'
  BY <1>2, <1>4 DEF Inv, TypeOK
<1>6. \A q \in Requests : Thread(q)'
  BY <1>2, <1>3 DEF Inv, Thread, OutOfRange
<1> QED
  BY <1>2, <1>5, <1>6 DEF Inv, Sent

LEMMA GatewayRestartInv ==
    ASSUME Inv, GatewayRestart
    PROVE  Inv'
<1>1. /\ gateway \in [Requests -> GatewayState] /\ restarts \in 0..MaxRestarts
  BY DEF Inv, TypeOK
<1>2. /\ restarts' \in 0..MaxRestarts
      /\ seen' = <<>> /\ admitted' = <<>>
      /\ UNCHANGED <<command, api, wire, plc, applied>>
  BY <1>1, Constants DEF GatewayRestart
<1>3. ASSUME NEW q \in Requests
      PROVE  /\ gateway'[q] \in GatewayState
             /\ gateway'[q].n = gateway[q].n /\ gateway'[q].answer = gateway[q].answer
             /\ \/ gateway'[q].pc = gateway[q].pc
                \/ /\ gateway[q].pc \in {"write", "read", "rescue"}
                   /\ gateway'[q].pc = "dead"
  <2>1. gateway[q] \in GatewayState
    BY <1>1
  <2>2. gateway'[q] = IF gateway[q].pc \in {"write", "read", "rescue"}
                      THEN [gateway[q] EXCEPT !.pc = "dead"] ELSE gateway[q]
    BY DEF GatewayRestart
  <2>3. CASE gateway[q].pc \in {"write", "read", "rescue"}
    <3>1. gateway'[q] = [gateway[q] EXCEPT !.pc = "dead"]
      BY <2>2, <2>3
    <3> QED
      BY <2>1, <2>3, <3>1 DEF GatewayState
  <2>4. CASE gateway[q].pc \notin {"write", "read", "rescue"}
    BY <2>1, <2>2, <2>4
  <2> QED
    BY <2>3, <2>4
<1>4. gateway' \in [Requests -> GatewayState]
  <2>1. gateway' = [q \in Requests |-> gateway'[q]]
    BY DEF GatewayRestart
  <2> QED
    BY <1>3, <2>1
<1>5. TypeOK'
  BY <1>2, <1>4, Constants DEF Inv, TypeOK
<1>6. \A q \in Requests : Thread(q)'
  BY <1>2, <1>3 DEF Inv, Thread, OutOfRange
<1>7. \A f \in wire : f.by \in Requests
  BY DEF Inv, TypeOK, Frame
<1>8. \A f \in wire' : Sent(f)'
  BY <1>2, <1>3, <1>7 DEF Inv, Sent
<1> QED
  BY <1>2, <1>5, <1>6, <1>8 DEF Inv

LEMMA PlcRestartInv ==
    ASSUME Inv, PlcRestart
    PROVE  Inv'
<1>1. /\ restarts' \in 0..MaxRestarts /\ wire' = {} /\ plc' = Started
      /\ UNCHANGED <<command, api, gateway, seen, admitted, applied>>
  BY Constants DEF PlcRestart, Inv, TypeOK
<1>2. plc' \in Registers
  BY <1>1, Constants, ZeroFits, SMT DEF Registers, Started
<1> QED
  BY <1>1, <1>2 DEF Inv, TypeOK, Thread, OutOfRange

LEMMA InvNext == Inv /\ [Next]_vars => Inv'
<1> SUFFICES ASSUME Inv, [Next]_vars PROVE Inv'
  OBVIOUS
<1>1. CASE \E q \in Requests : Submit(q) \/ Answer(q) \/ TimeOut(q) \/ Record(q)
  BY <1>1, ApiInv
<1>2. CASE \E q \in Requests : Admit(q) \/ Retry(q) \/ GiveUp(q) \/ ReadBack(q)
  BY <1>2, AdmitInv, RetryInv, EndsInv
<1>3. CASE \E f \in wire : Execute(f) \/ Lose(f)
  BY <1>3, ExecuteInv, LoseInv
<1>4. CASE ApiRestart \/ GatewayRestart \/ PlcRestart
  BY <1>4, ApiRestartInv, GatewayRestartInv, PlcRestartInv
<1>5. CASE UNCHANGED vars
  BY <1>5, StutterInv
<1> QED
  BY <1>1, <1>2, <1>3, <1>4, <1>5, StepCases

(* The threads, the frames and the evidence always hang together. *)
THEOREM Connected == Spec => []Inv
BY InvInit, InvNext, PTL DEF Spec

(* Registers keep to the register map and every thread to its class: the   *)
(* gateway's range check is enough for the import and export registers of  *)
(* any set of set-points (ot_gateway.py, modbus_tcp.py).                   *)
THEOREM TypeCorrect == Spec => []TypeOK
<1>1. Inv => TypeOK
  BY DEF Inv
<1> QED
  BY <1>1, Connected, PTL

(* An attempt recorded as accepted was executed whole by the controller,   *)
(* whatever was lost, retried, overtaken or restarted (app.py dispatch).   *)
THEOREM EvidenceIsTrue == Spec => []AcceptedWasApplied
<1>1. Inv => AcceptedWasApplied
  BY DEF Inv, Thread, AcceptedWasApplied
<1> QED
  BY <1>1, Connected, PTL

(* An attempt recorded as rejected never reached the wire.                 *)
THEOREM RejectionIsSilent == Spec => []RejectedSentNothing
<1>1. Inv => RejectedSentNothing
  BY DEF Inv, Thread, RejectedSentNothing
<1> QED
  BY <1>1, Connected, PTL
-----------------------------------------------------------------------------
(* The replay cache is the last CacheSize identifiers admitted, and any    *)
(* CacheSize + 1 of them in a row differ.                                  *)
Lately == IF Len(admitted) < CacheSize THEN Len(admitted) ELSE CacheSize
Window ==
    /\ Len(seen) = Lately
    /\ \A i \in 1..Len(seen) : seen[i] = admitted[Len(admitted) - Len(seen) + i]
    /\ \A i, j \in 1..Len(admitted) :
           i < j /\ j - i <= CacheSize => admitted[i] # admitted[j]

LEMMA WindowMoves ==
    ASSUME Inv, Window, NEW id \in Ids \cup Requests, ~Known(id),
           seen' = Remember(id), admitted' = Append(admitted, id)
    PROVE  Window'
<1> DEFINE n == Len(admitted)
           m == Len(seen)
<1>1. /\ seen \in Seq(Ids \cup Requests) /\ admitted \in Seq(Ids \cup Requests)
      /\ n \in Nat /\ m \in Nat /\ CacheSize \in Nat /\ CacheSize > 0
  BY Constants DEF Inv, TypeOK
<1>2. /\ m = IF n < CacheSize THEN n ELSE CacheSize
      /\ \A i \in 1..m : seen[i] = admitted[n - m + i]
      /\ \A i, j \in 1..n : i < j /\ j - i <= CacheSize => admitted[i] # admitted[j]
  BY DEF Window, Lately
<1>3. /\ Len(admitted') = n + 1 /\ admitted'[n + 1] = id
      /\ \A i \in 1..n : admitted'[i] = admitted[i]
  BY <1>1
<1>4. Len(seen') = IF m = CacheSize THEN CacheSize ELSE m + 1
  BY RememberType
<1>5. ASSUME NEW i \in 1..Len(seen')
      PROVE  seen'[i] = admitted'[Len(admitted') - Len(seen') + i]
  <2>1. CASE m = CacheSize
    <3>1. seen' = Append(Tail(seen), id) /\ Len(Tail(seen)) = m - 1
          /\ Tail(seen) \in Seq(Ids \cup Requests)
      BY <1>1, <2>1 DEF Remember
    <3>2. CASE i = m
      BY <1>1, <1>3, <1>4, <2>1, <3>1, <3>2
    <3>3. CASE i # m
      <4>1. i \in 1..(m - 1)
        BY <1>1, <1>4, <2>1, <3>3
      <4>2. seen'[i] = seen[i + 1]
        BY <1>1, <2>1, <3>1, <4>1
      <4>3. i + 1 \in 1..m /\ n - m + (i + 1) \in 1..n
        BY <1>1, <1>2, <4>1
      <4>4. seen[i + 1] = admitted[n - m + (i + 1)]
        BY <1>2, <4>3
      <4>5. Len(admitted') - Len(seen') + i = n - m + (i + 1)
        BY <1>1, <1>3, <1>4, <2>1, <4>1
      <4> QED
        BY <1>3, <4>2, <4>3, <4>4, <4>5
    <3> QED
      BY <3>2, <3>3
  <2>2. CASE m # CacheSize
    <3>1. seen' = Append(seen, id) /\ n = m /\ Len(seen') = m + 1
      BY <1>1, <1>2, <1>4, <2>2 DEF Remember
    <3>2. CASE i = m + 1
      BY <1>1, <1>3, <3>1, <3>2
    <3>3. CASE i # m + 1
      <4>1. i \in 1..m
        BY <1>1, <3>1, <3>3
      <4>2. seen'[i] = seen[i]
        BY <1>1, <3>1, <4>1
      <4>3. n - m + i = i /\ Len(admitted') - Len(seen') + i = i /\ i \in 1..n
        BY <1>1, <1>3, <3>1, <4>1
      <4>4. seen[i] = admitted[i]
        BY <1>2, <4>1, <4>3
      <4> QED
        BY <1>3, <4>2, <4>3, <4>4
    <3> QED
      BY <3>2, <3>3
  <2> QED
    BY <2>1, <2>2
<1>6. ASSUME NEW i \in 1..n, n + 1 - i <= CacheSize
      PROVE  admitted[i] # id
  <2>1. i - (n - m) \in 1..m
    BY <1>1, <1>2, <1>6
  <2>2. seen[i - (n - m)] = admitted[n - m + (i - (n - m))]
    BY <1>2, <2>1
  <2>3. n - m + (i - (n - m)) = i
    BY <1>1
  <2>4. i - (n - m) \in DOMAIN seen
    BY <1>1, <2>1
  <2> QED
    BY <2>2, <2>3, <2>4 DEF Known
<1>7. ASSUME NEW i \in 1..(n + 1), NEW j \in 1..(n + 1), i < j, j - i <= CacheSize
      PROVE  admitted'[i] # admitted'[j]
  <2>1. i \in 1..n
    BY <1>1, <1>7
  <2>2. CASE j = n + 1
    BY <1>3, <1>6, <1>7, <2>1, <2>2
  <2>3. CASE j # n + 1
    <3>1. j \in 1..n
      BY <1>1, <2>3
    <3> QED
      BY <1>2, <1>3, <1>7, <2>1, <3>1
  <2> QED
    BY <2>2, <2>3
<1>8. Len(seen') = IF n + 1 < CacheSize THEN n + 1 ELSE CacheSize
  BY <1>1, <1>2, <1>4
<1> QED
  BY <1>3, <1>5, <1>7, <1>8 DEF Window, Lately

LEMMA WindowNext == Inv /\ Window /\ [Next]_vars => Window'
<1> SUFFICES ASSUME Inv, Window, [Next]_vars PROVE Window'
  OBVIOUS
<1>1. CASE UNCHANGED <<seen, admitted>>
  BY <1>1 DEF Window, Lately
<1>2. CASE \E q \in Requests : Admit(q)
  <2>1. PICK q \in Requests : Admit(q)
    BY <1>2
  <2>2. command[q].id \in Ids \cup Requests
    BY CommandType DEF Inv, TypeOK
  <2> QED
    BY <1>1, <2>1, <2>2, WindowMoves DEF Admit
<1>3. CASE GatewayRestart
  <2>1. seen' = <<>> /\ admitted' = <<>>
    BY <1>3 DEF GatewayRestart
  <2> QED
    BY <2>1, Constants DEF Window, Lately
<1>4. CASE \E q \in Requests : Submit(q) \/ Answer(q) \/ TimeOut(q) \/ Record(q)
  BY <1>1, <1>4 DEF Submit, Answer, TimeOut, Record
<1>5. CASE \E q \in Requests : Retry(q) \/ GiveUp(q) \/ ReadBack(q)
  BY <1>1, <1>5 DEF Retry, GiveUp, ReadBack
<1>6. CASE \E f \in wire : Execute(f) \/ Lose(f)
  BY <1>1, <1>6 DEF Execute, Lose
<1>7. CASE ApiRestart \/ PlcRestart \/ UNCHANGED vars
  BY <1>1, <1>7 DEF ApiRestart, PlcRestart, vars
<1> QED
  BY <1>2, <1>3, <1>4, <1>5, <1>6, <1>7, StepCases

(* CacheSize identifiers in a row that all differ are CacheSize.           *)
LEMMA RowCounts ==
    ASSUME Inv, Window, NEW j \in 1..Len(admitted), j > CacheSize
    PROVE  Cardinality({admitted[k] : k \in (j - CacheSize)..(j - 1)}) = CacheSize
<1> DEFINE K == (j - CacheSize)..(j - 1)
           T == {admitted[k] : k \in K}
           f == [k \in K |-> admitted[k]]
<1>1. /\ j \in Nat /\ CacheSize \in Nat /\ CacheSize > 0
      /\ Len(admitted) \in Nat /\ j <= Len(admitted)
  BY Constants DEF Inv, TypeOK
<1>2. IsFiniteSet(K) /\ Cardinality(K) = CacheSize
  <2> DEFINE a == j - CacheSize
             b == j - 1
  <2>1. a \in Int /\ b \in Int /\ a <= b /\ b - a + 1 = CacheSize
    BY <1>1
  <2>2. IsFiniteSet(a..b) /\ Cardinality(a..b) = CacheSize
    <3> HIDE DEF a, b
    <3>1. IsFiniteSet(a..b) /\ Cardinality(a..b) = IF a > b THEN 0 ELSE b - a + 1
      BY <2>1, FS_Interval
    <3>2. ~(a > b)
      BY <2>1
    <3> QED
      BY <2>1, <3>1, <3>2
  <2> QED
    BY <2>2
<1>3. f \in Bijection(K, T)
  <2>1. ASSUME NEW a \in K, NEW b \in K, a < b
        PROVE  admitted[a] # admitted[b]
    <3>1. a \in 1..Len(admitted) /\ b \in 1..Len(admitted) /\ b - a <= CacheSize
      BY <1>1
    <3> QED
      BY <2>1, <3>1 DEF Window
  <2>2. ASSUME NEW a \in K, NEW b \in K, f[a] = f[b]
        PROVE  a = b
    <3>1. a \in Int /\ b \in Int
      BY <1>1
    <3>2. ~(a < b) /\ ~(b < a)
      BY <2>1, <2>2
    <3> QED
      BY <3>1, <3>2
  <2> QED
    BY <2>2 DEF Bijection, Injection, Surjection, IsInjective
<1>4. ExistsBijection(K, T)
  BY <1>3 DEF ExistsBijection
<1> QED
  BY <1>2, <1>4, FS_Bijection

LEMMA WindowAdmits == Inv /\ Window => AdmittedOncePerCache
<1> SUFFICES ASSUME Inv, Window, NEW i \in DOMAIN admitted, NEW j \in DOMAIN admitted,
                    i < j, admitted[i] = admitted[j]
             PROVE  Cardinality({admitted[k] : k \in (i + 1)..(j - 1)}) >= CacheSize
  BY DEF AdmittedOncePerCache
<1> DEFINE S == {admitted[k] : k \in (i + 1)..(j - 1)}
           T == {admitted[k] : k \in (j - CacheSize)..(j - 1)}
<1>1. /\ i \in 1..Len(admitted) /\ j \in 1..Len(admitted) /\ Len(admitted) \in Nat
      /\ CacheSize \in Nat
  BY Constants DEF Inv, TypeOK
<1>2. j - i > CacheSize
  BY <1>1 DEF Window
<1>3. T \subseteq S
  BY <1>1, <1>2
<1>4. IsFiniteSet(S)
  <2> DEFINE a == i + 1
             b == j - 1
             f == [k \in a..b |-> admitted[k]]
  <2>1. a \in Int /\ b \in Int
    BY <1>1
  <2>2. IsFiniteSet(a..b)
    <3> HIDE DEF a, b
    <3> QED
      BY <2>1, FS_Interval
  <2>3. f \in Surjection(a..b, S)
    BY DEF Surjection
  <2> HIDE DEF a, b, f, S
  <2> QED
    BY <2>2, <2>3, FS_Surjection DEF ExistsSurjection
<1>5. Cardinality(T) = CacheSize
  <2>1. j > CacheSize
    BY <1>1, <1>2
  <2> QED
    BY <1>1, <2>1, RowCounts
<1>6. Cardinality(T) <= Cardinality(S)
  BY <1>3, <1>4, FS_Subset
<1> QED
  BY <1>5, <1>6

(* A command identifier is admitted again only after a whole cache of      *)
(* others, for a cache of any size and any traffic (_reject_replay).       *)
THEOREM NoEarlyReplay == Spec => []AdmittedOncePerCache
<1>1. Init => Window
  BY Constants DEF Init, Window, Lately
<1>2. Spec => []Window
  BY <1>1, WindowNext, Connected, PTL DEF Spec
<1> QED
  BY <1>2, WindowAdmits, Connected, PTL
-----------------------------------------------------------------------------
(* When every set-point fits a signed register no write latches half-way,  *)
(* and the controller in its safe state is at zero.                        *)
LEMMA SafeNext ==
    ASSUME Setpoints \subseteq Power, Inv, SafeStateMeansZero, [Next]_vars
    PROVE  SafeStateMeansZero'
<1>1. CASE UNCHANGED plc
  BY <1>1 DEF SafeStateMeansZero
<1>2. CASE PlcRestart
  BY <1>2 DEF PlcRestart, Started, SafeStateMeansZero
<1>3. ASSUME NEW f \in wire, Execute(f) PROVE SafeStateMeansZero'
  <2> DEFINE set == [plc EXCEPT !.import = Import(f.setpoint),
                                !.export = Export(f.setpoint),
                                !.mode = IF f.safe THEN "safe_state" ELSE "dispatch"]
             new == [set EXCEPT !.measured = f.setpoint,
                                !.state = IF f.safe THEN "safe_state" ELSE "active",
                                !.alarm = IF f.safe THEN {"safe"} ELSE {}]
  <2>1. f \in Frame /\ plc \in Registers /\ (f.safe => f.setpoint = 0)
    BY DEF Inv, TypeOK, Sent
  <2>2. f.setpoint \in Power
    <3>1. f.setpoint \in Setpoints \cup {0}
      BY <2>1 DEF Frame
    <3> QED
      BY <3>1, ZeroFits
  <2>3. plc' = Written(plc, f)
    BY <1>3 DEF Execute
  <2>4. CASE Refused(f)
    <3>1. plc' = [plc EXCEPT !.alarm = @ \cup {"invalid"}]
      BY <2>3, <2>4 DEF Written
    <3> QED
      BY <2>1, <3>1 DEF SafeStateMeansZero, Registers
  <2>5. CASE ~Refused(f)
    <3>1. plc' = new
      BY <2>2, <2>3, <2>5 DEF Written, Unmeasurable
    <3>2. /\ plc'.import = Import(f.setpoint) /\ plc'.export = Export(f.setpoint)
          /\ plc'.mode = (IF f.safe THEN "safe_state" ELSE "dispatch")
          /\ plc'.measured = f.setpoint
          /\ plc'.state = IF f.safe THEN "safe_state" ELSE "active"
      BY <2>1, <3>1 DEF Registers
    <3>3. plc'.state = "safe_state" => f.safe
      BY <3>2
    <3>4. f.safe => Import(f.setpoint) = 0 /\ Export(f.setpoint) = 0
      BY <2>1 DEF Import, Export
    <3> QED
      BY <2>1, <3>2, <3>3, <3>4 DEF SafeStateMeansZero
  <2> QED
    BY <2>4, <2>5
<1>4. CASE \E q \in Requests : Submit(q) \/ Answer(q) \/ TimeOut(q) \/ Record(q)
  BY <1>1, <1>4 DEF Submit, Answer, TimeOut, Record
<1>5. CASE \E q \in Requests : Admit(q) \/ Retry(q) \/ GiveUp(q) \/ ReadBack(q)
  BY <1>1, <1>5 DEF Admit, Retry, GiveUp, ReadBack
<1>6. CASE \E f \in wire : Lose(f)
  BY <1>1, <1>6 DEF Lose
<1>7. CASE ApiRestart \/ GatewayRestart \/ UNCHANGED vars
  BY <1>1, <1>7 DEF ApiRestart, GatewayRestart, vars
<1> QED
  BY <1>2, <1>3, <1>4, <1>5, <1>6, <1>7, StepCases

(* A controller in its safe state has zero registers and says so, provided *)
(* every set-point fits a signed register; without it a half-done write    *)
(* contradicts it (modbus_tcp.py _handle_write).                           *)
THEOREM SafeMeansZero ==
    ASSUME Setpoints \subseteq Power
    PROVE  Spec => []SafeStateMeansZero
<1>1. Init => SafeStateMeansZero
  BY DEF Init, Started, SafeStateMeansZero
<1>2. Inv /\ SafeStateMeansZero /\ [Next]_vars => SafeStateMeansZero'
  BY SafeNext
<1> QED
  BY <1>1, <1>2, Connected, PTL DEF Spec
-----------------------------------------------------------------------------
(* Every frame under way carries a set-point of a thread that has sent.    *)
FramesAsk == \A f \in wire : f.setpoint \in Asked

LEMMA ZeroIsAsked ==
    /\ 0 \in Asked /\ 0 \in Asked'
    /\ Limits(0) /\ Import(0) = 0 /\ Export(0) = 0
<1>1. 0 \in Asked /\ 0 \in Asked'
  BY DEF Asked
<1>2. Limits(0)
  BY Constants, ZeroFits DEF Limits
<1>3. Import(0) = 0 /\ Export(0) = 0
  BY DEF Import, Export
<1> QED
  BY <1>1, <1>2, <1>3

LEMMA AskedIsWithinSite ==
    ASSUME Inv, NEW s \in Asked
    PROVE  s \in Int /\ Magnitude(s) <= SiteCapacity
<1>1. CASE s = 0
  BY <1>1, Constants, ZeroFits
<1>2. CASE \E q \in Requests : IsDispatch(q) /\ s = command[q].setpoint
  <2>1. PICK q \in Requests : IsDispatch(q) /\ s = command[q].setpoint
    BY <1>2
  <2>2. PICK c : c = command[q]
    OBVIOUS
  <2>3. c \in Commands(q) \cup {NoCommand(q)} /\ c.kind = "dispatch"
    BY <2>1, <2>2 DEF Inv, TypeOK, IsDispatch
  <2>4. c \in [kind : {"dispatch"}, id : Ids \cup {q},
               setpoint : {x \in Setpoints : Magnitude(x) <= SiteCapacity}]
    BY <2>3 DEF Commands, NoCommand
  <2>5. c.setpoint \in Setpoints /\ Magnitude(c.setpoint) <= SiteCapacity
    BY <2>4
  <2> QED
    BY <2>1, <2>2, <2>5, Constants
<1> QED
  BY <1>1, <1>2 DEF Asked

(* A thread that has sent a frame keeps its command and its count.         *)
LEMMA SendersStay ==
    ASSUME Inv, [Next]_vars, NEW q \in Requests, gateway[q].n # 0
    PROVE  command'[q] = command[q] /\ gateway'[q].n # 0
<1>0. /\ gateway \in [Requests -> GatewayState] /\ gateway[q] \in GatewayState
      /\ \A r \in Requests : gateway[r].n \in Nat
  BY DEF Inv, TypeOK, GatewayState
<1>1. api[q].pc # "new" /\ gateway[q].pc # "absent"
  BY DEF Inv, Thread
<1>2. ASSUME NEW r \in Requests, Submit(r)
      PROVE  command'[q] = command[q] /\ gateway'[q].n # 0
  <2>1. r # q
    BY <1>1, <1>2 DEF Submit
  <2>2. \E c \in Commands(r) : command' = [command EXCEPT ![r] = c]
    BY <1>2 DEF Submit
  <2>3. gateway' = gateway
    BY <1>2 DEF Submit
  <2> QED
    BY <2>1, <2>2, <2>3 DEF Inv
<1>3. ASSUME NEW r \in Requests, Answer(r) \/ TimeOut(r) \/ Record(r)
      PROVE  command'[q] = command[q] /\ gateway'[q].n # 0
  BY <1>3 DEF Answer, TimeOut, Record
<1>4. ASSUME NEW r \in Requests, NEW a, NEW power, Over(r, a, power)
      PROVE  gateway'[q].n # 0
  <2>1. gateway'[q].n = gateway[q].n
    BY <1>0, <1>4 DEF Over, GatewayState
  <2> QED
    BY <2>1
<1>5. ASSUME NEW r \in Requests, NEW pc, Begin(r, pc)
      PROVE  gateway'[q].n # 0
  <2>1. gateway'[q].n = 1 \/ gateway'[q] = gateway[q]
    BY <1>0, <1>5 DEF Begin, GatewayState
  <2> QED
    BY <2>1
<1>6. ASSUME NEW r \in Requests, Admit(r) \/ GiveUp(r) \/ ReadBack(r)
      PROVE  command'[q] = command[q] /\ gateway'[q].n # 0
  <2>1. command' = command
    BY <1>6 DEF Admit, GiveUp, ReadBack
  <2>2. \/ \E a, power : Over(r, a, power)
        \/ \E pc : Begin(r, pc)
    BY <1>6 DEF Admit, GiveUp, ReadBack
  <2> QED
    BY <1>4, <1>5, <2>1, <2>2
<1>7. ASSUME NEW r \in Requests, Retry(r)
      PROVE  command'[q] = command[q] /\ gateway'[q].n # 0
  <2>1. command' = command
    BY <1>7 DEF Retry
  <2>2. gateway' = [gateway EXCEPT ![r].n = @ + 1]
    BY <1>7 DEF Retry
  <2>3. gateway'[q].n = gateway[q].n \/ gateway'[q].n = gateway[q].n + 1
    BY <1>0, <2>2 DEF GatewayState
  <2>4. gateway'[q].n # 0
    BY <1>0, <2>3
  <2> QED
    BY <2>1, <2>4
<1>8. ASSUME NEW f \in wire, Execute(f) \/ Lose(f)
      PROVE  command'[q] = command[q] /\ gateway'[q].n # 0
  <2>1. command' = command
    BY <1>8 DEF Execute, Lose
  <2>2. CASE UNCHANGED gateway
    BY <2>1, <2>2
  <2>3. CASE gateway' = [gateway EXCEPT ![f.by].pc = "read"]
    BY <1>0, <2>1, <2>3 DEF GatewayState
  <2>4. CASE Over(f.by, "unavailable", 0)
    <3>1. f.by \in Requests
      BY DEF Inv, TypeOK, Frame
    <3> QED
      BY <1>4, <2>1, <2>4, <3>1
  <2> QED
    BY <1>8, <2>2, <2>3, <2>4 DEF Execute, Lose
<1>9. CASE GatewayRestart
  <2>1. gateway'[q] = gateway[q] \/ gateway'[q] = [gateway[q] EXCEPT !.pc = "dead"]
    BY <1>9 DEF GatewayRestart
  <2>2. gateway'[q].n = gateway[q].n
    BY <1>0, <2>1 DEF GatewayState
  <2> QED
    BY <1>9, <2>2 DEF GatewayRestart
<1>10. CASE ApiRestart \/ PlcRestart \/ UNCHANGED vars
  BY <1>10 DEF ApiRestart, PlcRestart, vars
<1> QED
  BY <1>2, <1>3, <1>6, <1>7, <1>8, <1>9, <1>10, StepCases

LEMMA AskedGrows == Inv /\ [Next]_vars => Asked \subseteq Asked'
<1> SUFFICES ASSUME Inv, [Next]_vars, NEW s \in Asked PROVE s \in Asked'
  OBVIOUS
<1>1. CASE s = 0
  BY <1>1, ZeroIsAsked
<1>2. CASE \E q \in Requests : IsDispatch(q) /\ gateway[q].n # 0 /\ s = command[q].setpoint
  <2>1. PICK q \in Requests : IsDispatch(q) /\ gateway[q].n # 0 /\ s = command[q].setpoint
    BY <1>2
  <2>2. command'[q] = command[q] /\ gateway'[q].n # 0
    BY <2>1, SendersStay
  <2> QED
    BY <2>1, <2>2 DEF Asked, IsDispatch
<1> QED
  BY <1>1, <1>2 DEF Asked

(* The set-point a thread puts into a frame.                               *)
LEMMA OwnIsAsked ==
    ASSUME NEW q \in Requests, NEW x,
           x = 0 \/ (IsDispatch(q)' /\ x = command'[q].setpoint),
           gateway'[q].n # 0
    PROVE  x \in Asked'
BY ZeroIsAsked DEF Asked

LEMMA FramesNext == Inv /\ FramesAsk /\ [Next]_vars => FramesAsk'
<1> SUFFICES ASSUME Inv, FramesAsk, [Next]_vars PROVE FramesAsk'
  OBVIOUS
<1>0. /\ gateway \in [Requests -> GatewayState]
      /\ \A q \in Requests : gateway[q].n \in Nat
  BY DEF Inv, TypeOK, GatewayState
<1>1. ASSUME \A f \in wire' : f \in wire \/ f.setpoint \in Asked' PROVE FramesAsk'
  BY <1>1, AskedGrows DEF FramesAsk
<1>2. CASE wire' \subseteq wire
  BY <1>1, <1>2
<1>3. ASSUME NEW q \in Requests, NEW pc, Begin(q, pc), UNCHANGED command,
             pc = "rescue" \/ command[q] \in Commands(q)
      PROVE  FramesAsk'
  <2>1. PICK x : x = IF pc = "rescue" THEN 0 ELSE command[q].setpoint
    OBVIOUS
  <2>2. \A f \in wire' : f \in wire \/ f.setpoint = x
    BY <1>3, <2>1 DEF Begin
  <2>3. gateway'[q].n = 1
    BY <1>0, <1>3 DEF Begin, GatewayState
  <2>4. x = 0 \/ (IsDispatch(q)' /\ x = command'[q].setpoint)
    BY <1>3, <2>1, CommandType DEF IsDispatch
  <2>5. x \in Asked'
    BY <2>3, <2>4, OwnIsAsked
  <2> QED
    BY <1>1, <2>2, <2>5
<1>4. ASSUME NEW q \in Requests, Retry(q) PROVE FramesAsk'
  <2>1. PICK o : o = Outstanding(q)
    OBVIOUS
  <2>2. wire' = wire \cup {[o EXCEPT !.n = @ + 1]} /\ UNCHANGED command
    BY <1>4, <2>1 DEF Retry
  <2>3. o.setpoint = 0 \/ (IsDispatch(q) /\ o.setpoint = command[q].setpoint)
    BY <2>1 DEF Outstanding
  <2>4. [o EXCEPT !.n = @ + 1].setpoint = o.setpoint
    BY <2>1 DEF Outstanding
  <2>5. gateway'[q].n = gateway[q].n + 1
    BY <1>0, <1>4 DEF Retry, GatewayState
  <2>6. gateway'[q].n # 0
    BY <1>0, <2>5
  <2>7. o.setpoint \in Asked'
    BY <2>2, <2>3, <2>6, OwnIsAsked DEF IsDispatch
  <2> QED
    BY <1>1, <2>2, <2>4, <2>7
<1>5. ASSUME NEW q \in Requests, Admit(q) PROVE FramesAsk'
  <2>1. UNCHANGED command /\ (wire' = wire \/ Begin(q, "write"))
    BY <1>5 DEF Admit
  <2>2. command[q] \in Commands(q)
    BY <1>5 DEF Admit, Inv, Thread
  <2> QED
    BY <1>2, <1>3, <2>1, <2>2
<1>6. ASSUME NEW q \in Requests, GiveUp(q) \/ ReadBack(q) PROVE FramesAsk'
  <2>1. UNCHANGED command /\ (wire' = wire \/ Begin(q, "rescue"))
    BY <1>6 DEF GiveUp, ReadBack
  <2> QED
    BY <1>2, <1>3, <2>1
<1>7. CASE \E q \in Requests : Submit(q) \/ Answer(q) \/ TimeOut(q) \/ Record(q)
  BY <1>2, <1>7 DEF Submit, Answer, TimeOut, Record
<1>8. CASE \E f \in wire : Execute(f) \/ Lose(f)
  BY <1>2, <1>8 DEF Execute, Lose
<1>9. CASE ApiRestart \/ GatewayRestart \/ PlcRestart \/ UNCHANGED vars
  BY <1>2, <1>9 DEF ApiRestart, GatewayRestart, PlcRestart, vars
<1> QED
  BY <1>4, <1>5, <1>6, <1>7, <1>8, <1>9, StepCases

LEMMA PowerNext == Inv /\ FramesAsk /\ PowerIsAsked /\ [Next]_vars => PowerIsAsked'
<1> SUFFICES ASSUME Inv, FramesAsk, PowerIsAsked, [Next]_vars PROVE PowerIsAsked'
  OBVIOUS
<1>0. Asked \subseteq Asked' /\ plc \in Registers
  BY AskedGrows DEF Inv, TypeOK
<1>1. PICK s \in Asked : Limits(s) /\ plc.import = Import(s) /\ plc.export = Export(s)
  BY DEF PowerIsAsked
<1>2. plc.measured \in Asked /\ Limits(plc.measured)
  BY DEF PowerIsAsked
<1>3. ASSUME plc'.import = plc.import, plc'.export = plc.export,
             plc'.measured = plc.measured
      PROVE  PowerIsAsked'
  BY <1>0, <1>1, <1>2, <1>3 DEF PowerIsAsked, Limits
<1>4. CASE UNCHANGED plc
  BY <1>3, <1>4
<1>5. CASE PlcRestart
  <2>1. plc'.import = 0 /\ plc'.export = 0 /\ plc'.measured = 0
    BY <1>5 DEF PlcRestart, Started
  <2> QED
    BY <2>1, ZeroIsAsked DEF PowerIsAsked, Limits
<1>6. ASSUME NEW f \in wire, Execute(f) PROVE PowerIsAsked'
  <2> DEFINE set == [plc EXCEPT !.import = Import(f.setpoint),
                                !.export = Export(f.setpoint),
                                !.mode = IF f.safe THEN "safe_state" ELSE "dispatch"]
             new == [set EXCEPT !.measured = f.setpoint,
                                !.state = IF f.safe THEN "safe_state" ELSE "active",
                                !.alarm = IF f.safe THEN {"safe"} ELSE {}]
  <2>1. plc' = Written(plc, f)
    BY <1>6 DEF Execute
  <2>2. CASE Refused(f)
    <3>1. plc' = [plc EXCEPT !.alarm = @ \cup {"invalid"}]
      BY <2>1, <2>2 DEF Written
    <3> QED
      BY <1>0, <1>3, <3>1 DEF Registers
  <2>3. CASE ~Refused(f)
    <3>1. PICK x : x = f.setpoint
      OBVIOUS
    <3>2. x \in Asked /\ x \in Asked'
      BY <1>0, <3>1 DEF FramesAsk
    <3>3. Limits(x)
      <4>1. x \in Int /\ Magnitude(x) \in Int /\ Magnitude(x) <= SiteCapacity
        BY <3>2, AskedIsWithinSite DEF Magnitude
      <4>2. Magnitude(x) <= PlcCapacity
        BY <2>3, <3>1, <4>1, Constants DEF Refused
      <4> QED
        BY <4>1, <4>2 DEF Limits
    <3>4. set.import = Import(x) /\ set.export = Export(x)
          /\ set.measured = plc.measured
      BY <1>0, <3>1 DEF Registers
    <3>5. new.import = Import(x) /\ new.export = Export(x) /\ new.measured = x
      BY <1>0, <3>1 DEF Registers
    <3>6. plc' = set \/ plc' = new
      BY <2>1, <2>3 DEF Written
    <3> HIDE DEF set, new
    <3>7. plc'.import = Import(x) /\ plc'.export = Export(x)
          /\ plc'.measured \in {x, plc.measured}
      BY <3>4, <3>5, <3>6
    <3>8. plc'.measured \in Asked' /\ Limits(plc'.measured)
      BY <1>0, <1>2, <3>2, <3>3, <3>7
    <3> QED
      BY <3>2, <3>3, <3>7, <3>8 DEF PowerIsAsked, Limits
  <2> QED
    BY <2>2, <2>3
<1>7. CASE \E q \in Requests : Submit(q) \/ Answer(q) \/ TimeOut(q) \/ Record(q)
  BY <1>4, <1>7 DEF Submit, Answer, TimeOut, Record
<1>8. CASE \E q \in Requests : Admit(q) \/ Retry(q) \/ GiveUp(q) \/ ReadBack(q)
  BY <1>4, <1>8 DEF Admit, Retry, GiveUp, ReadBack
<1>9. CASE \E f \in wire : Lose(f)
  BY <1>4, <1>9 DEF Lose
<1>10. CASE ApiRestart \/ GatewayRestart \/ UNCHANGED vars
  BY <1>4, <1>10 DEF ApiRestart, GatewayRestart, vars
<1> QED
  BY <1>5, <1>6, <1>7, <1>8, <1>9, <1>10, StepCases

(* Whatever frames are retried, late or lost, whatever restarts and even   *)
(* after a write that was left half done, the controller is never set to,  *)
(* nor measures, a power that no admitted dispatch asked for, that exceeds *)
(* the site's or its own capacity, or that imports and exports at once     *)
(* (contracts.py's bound on a set-point, modbus_tcp.py _handle_write).     *)
THEOREM PowerStaysAsked == Spec => []PowerIsAsked
<1>1. Init => FramesAsk /\ PowerIsAsked
  <2> SUFFICES ASSUME Init PROVE FramesAsk /\ PowerIsAsked
    OBVIOUS
  <2>1. wire = {} /\ plc.import = 0 /\ plc.export = 0 /\ plc.measured = 0
    BY DEF Init, Started
  <2> QED
    BY <2>1, ZeroIsAsked DEF FramesAsk, PowerIsAsked
<1>2. Inv /\ FramesAsk /\ PowerIsAsked /\ [Next]_vars => FramesAsk' /\ PowerIsAsked'
  BY FramesNext, PowerNext
<1> QED
  BY <1>1, <1>2, Connected, PTL DEF Spec
=============================================================================
