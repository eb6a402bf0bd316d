--------------------------- MODULE DecisionsProofs ---------------------------
(* Theorems about Decisions, for every set of runs, results, request        *)
(* threads and keys, any number of requests, and any number of writes by   *)
(* a second worker.                                                        *)
EXTENDS Decisions, TLAPS

(* What a request thread has loaded stays with it: a run, a validated      *)
(* result, and for a replan its scenario and then its candidate.           *)
ThreadInv ==
    \A c \in Clients :
        /\ thread[c].pc # "idle" => thread[c].of \in Runs /\ thread[c].seen \in Passed
        /\ thread[c].pc \in {"replan", "notice"} => thread[c].scenario \in Scenarios
        /\ thread[c].pc = "notice" => thread[c].candidate \in Runs

TypeInv == TypeOK /\ ThreadInv
-----------------------------------------------------------------------------
(* The steps of Next, by what they do to the tables. *)
LEMMA StepCases ==
    ASSUME [Next]_vars
    PROVE  \/ \E r \in Runs : Submit(r) \/ Move(r) \/ LoadNotice(r) \/ Report(r)
           \/ \E c \in Clients, r \in Runs, v \in Verdicts : AskDecision(c, r, v)
           \/ \E c \in Clients, r \in Runs : AskControl(c, r) \/ AskDispatch(c, r)
           \/ \E c \in Clients, r \in Runs, s \in Scenarios, k \in Keys \cup {None} :
                 AskReplan(c, r, s, k)
           \/ \E c \in Clients : CheckDecision(c) \/ InsertDecision(c)
           \/ \E c \in Clients : Simulate(c) \/ Dispatch(c) \/ GatewayAnswers(c)
           \/ \E c \in Clients : CreateCandidate(c) \/ CommitNotice(c) \/ Abandon(c)
           \/ UNCHANGED vars
BY DEF Next, QueueStep, RequestStep

(* A worker's write leaves a run, and once there a run stays there. *)
LEMMA WritesType ==
    ASSUME TypeOK, NEW r \in Runs, NEW y \in Queue!Run, Writes(r, y)
    PROVE  run' \in [Runs -> Queue!Run] /\ takeovers' \in 0..MaxTakeovers
BY ConstantsAssumption DEF Writes, TypeOK

(* The thread a request begins with. *)
LEMMA BeginType ==
    ASSUME TypeInv, NEW c \in Clients, NEW r \in Runs, NEW request \in Thread,
           request.pc \in {"replan", "notice"} => request.scenario \in Scenarios,
           request.pc # "notice", Begin(c, r, request)
    PROVE  TypeInv'
<1> DEFINE t == [request EXCEPT !.of = r, !.seen = run[r].result]
<1>1. t \in Thread /\ t.of \in Runs /\ t.seen \in Passed
      /\ t.pc = request.pc /\ t.scenario = request.scenario
  BY ConstantsAssumption DEF Begin, Validated, Thread
<1>2. thread' = [thread EXCEPT ![c] = t]
  BY DEF Begin, Becomes
<1>3. requests' \in 0..MaxRequests
  BY ConstantsAssumption DEF Begin, TypeInv, TypeOK
<1>4. TypeOK'
  BY <1>1, <1>2, <1>3 DEF Begin, TypeInv, TypeOK, tables
<1>5. ThreadInv'
  BY <1>1, <1>2 DEF TypeInv, TypeOK, ThreadInv
<1> QED
  BY <1>4, <1>5 DEF TypeInv

LEMMA FreeType == Free \in Thread /\ Free.pc = "idle"
BY DEF Free, Thread, Verdicts

LEMMA TypeInit == Init => TypeInv
<1> SUFFICES ASSUME Init PROVE TypeInv
  OBVIOUS
<1>1. TypeOK
  BY FreeType, ConstantsAssumption
     DEF Init, TypeOK, Queue!Run, Queue!NoRun, Queue!Status, DayAhead, Asked
<1>2. ThreadInv
  BY FreeType DEF Init, ThreadInv
<1> QED
  BY <1>1, <1>2 DEF TypeInv

LEMMA QueueType ==
    ASSUME TypeInv, NEW r \in Runs, QueueStep(r)
    PROVE  TypeInv'
<1>1. NewRun \in Queue!Run /\ DayAhead \in Asked
  BY DEF NewRun, Queue!Run, Queue!Status, DayAhead, Asked
<1>2. CASE Submit(r)
  <2>1. run' \in [Runs -> Queue!Run] /\ takeovers' \in 0..MaxTakeovers
    BY <1>1, <1>2, WritesType DEF Submit, TypeInv
  <2> QED
    BY <1>1, <1>2, <2>1 DEF Submit, TypeInv, TypeOK, ThreadInv, history
<1>3. CASE Move(r)
  <2>1. PICK s \in Moved : Writes(r, [run[r] EXCEPT !.status = s])
    BY <1>3 DEF Move
  <2>2. [run[r] EXCEPT !.status = s] \in Queue!Run
    BY DEF TypeInv, TypeOK, Moved, Queue!Run, Queue!Status, Queue!Terminal,
           Queue!Reported, Queue!Classified
  <2>3. run' \in [Runs -> Queue!Run] /\ takeovers' \in 0..MaxTakeovers
    BY <2>1, <2>2, WritesType DEF TypeInv
  <2> QED
    BY <1>3, <2>3 DEF Move, TypeInv, TypeOK, ThreadInv, tables, history
<1>4. CASE LoadNotice(r)
  <2>1. PICK p \in Payloads : loaded' = [loaded EXCEPT ![r] = @ \cup {p}]
    BY <1>4 DEF LoadNotice, TypeInv, TypeOK, Notice, Queue!Run
  <2> QED
    BY <1>4, <2>1 DEF LoadNotice, TypeInv, TypeOK, ThreadInv, history
<1>5. CASE Report(r)
  <2>1. PICK y \in [status : Queue!Reported, result : Payloads] : Writes(r, y)
    BY <1>5 DEF Report
  <2>2. y \in Queue!Run
    BY DEF Queue!Run, Queue!Status, Queue!Terminal
  <2>3. run' \in [Runs -> Queue!Run] /\ takeovers' \in 0..MaxTakeovers
    BY <2>1, <2>2, WritesType DEF TypeInv
  <2>4. basis' \in [Runs -> Payloads \cup {None}]
    BY <1>5 DEF Report, TypeInv, TypeOK
  <2> QED
    BY <1>5, <2>3, <2>4 DEF Report, TypeInv, TypeOK, ThreadInv, history
<1> QED
  BY <1>2, <1>3, <1>4, <1>5 DEF QueueStep

LEMMA RequestType ==
    ASSUME TypeInv, NEW c \in Clients, RequestStep(c)
    PROVE  TypeInv'
<1> DEFINE t == thread[c]
<1>0. t \in Thread /\ thread \in [Clients -> Thread]
  BY DEF TypeInv, TypeOK
<1>1. ASSUME NEW r \in Runs, NEW v \in Verdicts, AskDecision(c, r, v)
      PROVE  TypeInv'
  <2>1. [Free EXCEPT !.pc = "decide", !.verdict = v] \in Thread
    BY DEF Free, Thread, Verdicts
  <2> QED
    BY <1>1, <2>1, BeginType DEF AskDecision, Free
<1>2. ASSUME NEW r \in Runs, AskControl(c, r) \/ AskDispatch(c, r)
      PROVE  TypeInv'
  <2>1. /\ [Free EXCEPT !.pc = "control"] \in Thread
        /\ [Free EXCEPT !.pc = "dispatch"] \in Thread
    BY DEF Free, Thread, Verdicts
  <2> QED
    BY <1>2, <2>1, BeginType DEF AskControl, AskDispatch, Free
<1>3. ASSUME NEW r \in Runs, NEW s \in Scenarios, NEW k \in Keys \cup {None},
             AskReplan(c, r, s, k)
      PROVE  TypeInv'
  <2> DEFINE request == [Free EXCEPT !.pc = "replan", !.scenario = s, !.key = k]
  <2>1. request \in Thread /\ request.pc = "replan" /\ request.scenario = s
    BY DEF Free, Thread, Verdicts
  <2>2. Begin(c, r, request)
    BY <1>3 DEF AskReplan
  <2> HIDE DEF request
  <2> QED
    BY <2>1, <2>2, BeginType
<1>4. ASSUME Becomes(c, Free) PROVE thread' \in [Clients -> Thread] /\ ThreadInv'
  BY <1>0, <1>4, FreeType DEF Becomes, TypeInv, ThreadInv
<1>5. CASE CheckDecision(c)
  <2>1. CASE Becomes(c, Free)
    BY <1>4, <1>5, <2>1 DEF CheckDecision, TypeInv, TypeOK, tables, history
  <2>2. CASE Becomes(c, [t EXCEPT !.pc = "insert"])
    <3>1. [t EXCEPT !.pc = "insert"] \in Thread
      BY <1>0 DEF Thread
    <3>2. ThreadInv'
      BY <1>0, <1>5, <2>2, <3>1 DEF CheckDecision, Becomes, TypeInv, ThreadInv, Thread
    <3> QED
      BY <1>5, <2>2, <3>1, <3>2
         DEF CheckDecision, Becomes, TypeInv, TypeOK, tables, history
  <2> QED
    BY <1>5, <2>1, <2>2 DEF CheckDecision
<1>6. CASE InsertDecision(c)
  <2>1. t.of \in Runs /\ DecisionOf(c) \in Approval
    BY <1>0, <1>6, ConstantsAssumption
       DEF InsertDecision, TypeInv, ThreadInv, DecisionOf, Approval, Thread
  <2>2. approval' \in [Runs -> Approval \cup {None}]
    BY <1>6, <2>1 DEF InsertDecision, TypeInv, TypeOK
  <2> QED
    BY <1>4, <1>6, <2>2 DEF InsertDecision, TypeInv, TypeOK, history
<1>7. CASE Simulate(c)
  <2>1. control' \in [Runs -> Payloads \cup {None}]
    BY <1>0, <1>7 DEF Simulate, TypeInv, TypeOK, Thread
  <2> QED
    BY <1>4, <1>7, <2>1 DEF Simulate, TypeInv, TypeOK, history
<1>8. CASE Dispatch(c)
  <2>1. CASE Becomes(c, Free)
    BY <1>4, <1>8, <2>1 DEF Dispatch, TypeInv, TypeOK, tables, history
  <2>2. CASE Becomes(c, [t EXCEPT !.pc = "gateway"])
    <3>1. [t EXCEPT !.pc = "gateway"] \in Thread
      BY <1>0 DEF Thread
    <3>2. ThreadInv'
      BY <1>0, <1>8, <2>2, <3>1 DEF Dispatch, Becomes, TypeInv, ThreadInv, Thread
    <3> QED
      BY <1>8, <2>2, <3>1, <3>2
         DEF Dispatch, Becomes, TypeInv, TypeOK, tables, history
  <2> QED
    BY <1>8, <2>1, <2>2 DEF Dispatch
<1>9. CASE GatewayAnswers(c) \/ Abandon(c)
  BY <1>4, <1>9 DEF GatewayAnswers, Abandon, TypeInv, TypeOK, tables, history
<1>10. CASE CreateCandidate(c)
  <2>1. t.scenario \in Scenarios /\ t.key \in Keys \cup {None} /\ t.of \in Runs
        /\ t.seen \in Passed
    BY <1>0, <1>10 DEF CreateCandidate, TypeInv, ThreadInv, Thread
  <2>2. run' \in [Runs -> Queue!Run] /\ asked' \in [Runs -> Asked]
    <3>1. NewRun \in Queue!Run
      BY DEF NewRun, Queue!Run, Queue!Status
    <3>2. [kind |-> "real_time", key |-> t.key, scenario |-> t.scenario] \in Asked
      BY <2>1 DEF Asked
    <3>3. run \in [Runs -> Queue!Run] /\ asked \in [Runs -> Asked]
      BY DEF TypeInv, TypeOK
    <3>4. CASE UNCHANGED <<run, asked>>
      BY <3>3, <3>4
    <3>5. ASSUME NEW r \in Runs, run' = [run EXCEPT ![r] = NewRun],
                 asked' = [asked EXCEPT ![r] = [kind |-> "real_time", key |-> t.key,
                                                scenario |-> t.scenario]]
          PROVE  run' \in [Runs -> Queue!Run] /\ asked' \in [Runs -> Asked]
      <4>1. run' \in [Runs -> Queue!Run]
        BY <3>1, <3>3, <3>5
      <4>2. asked' \in [Runs -> Asked]
        BY <3>2, <3>3, <3>5
      <4> QED
        BY <4>1, <4>2
    <3>6. \/ UNCHANGED <<run, asked>>
          \/ \E r \in Runs :
                /\ run' = [run EXCEPT ![r] = NewRun]
                /\ asked' = [asked EXCEPT ![r] = [kind |-> "real_time", key |-> t.key,
                                                  scenario |-> t.scenario]]
      BY <1>10 DEF CreateCandidate
    <3> QED
      BY <3>4, <3>5, <3>6
  <2>3. thread' \in [Clients -> Thread] /\ ThreadInv'
    <3>1. CASE Becomes(c, Free)
      BY <1>4, <3>1
    <3>2. ASSUME NEW r \in Runs, NEW b \in BOOLEAN,
                 Becomes(c, [t EXCEPT !.pc = "notice", !.candidate = r, !.created = b])
          PROVE  thread' \in [Clients -> Thread] /\ ThreadInv'
      <4> DEFINE u == [t EXCEPT !.pc = "notice", !.candidate = r, !.created = b]
      <4>1. /\ u \in Thread /\ u.of = t.of /\ u.seen = t.seen
            /\ u.scenario = t.scenario /\ u.candidate = r
        BY <1>0 DEF Thread
      <4>2. thread' = [thread EXCEPT ![c] = u]
        BY <3>2 DEF Becomes
      <4> HIDE DEF u
      <4> QED
        BY <1>0, <2>1, <4>1, <4>2 DEF TypeInv, ThreadInv
    <3>3. \/ Becomes(c, Free)
          \/ \E r \in Runs, b \in BOOLEAN :
                Becomes(c, [t EXCEPT !.pc = "notice", !.candidate = r, !.created = b])
      BY <1>10 DEF CreateCandidate, WithKey
    <3> QED
      BY <3>1, <3>2, <3>3
  <2> QED
    BY <1>10, <2>2, <2>3 DEF CreateCandidate, TypeInv, TypeOK, history
<1>11. CASE CommitNotice(c)
  <2>1. /\ t.scenario \in Scenarios /\ t.key \in Keys \cup {None}
        /\ t.of \in Runs /\ t.candidate \in Runs
    BY <1>0, <1>11 DEF CommitNotice, TypeInv, ThreadInv, Thread
  <2>2. notice' \in [Runs -> Notice \cup {None}]
    BY <1>11, <2>1 DEF CommitNotice, TypeInv, TypeOK, Notice
  <2>3. noted' \subseteq [key : Keys \cup {None}, candidate : Runs,
                          baseline : Runs, scenario : Scenarios]
    BY <1>11, <2>1 DEF CommitNotice, Noted, TypeInv, TypeOK
  <2> QED
    BY <1>4, <1>11, <2>2, <2>3 DEF CommitNotice, TypeInv, TypeOK
<1> QED
  BY <1>1, <1>2, <1>3, <1>5, <1>6, <1>7, <1>8, <1>9, <1>10, <1>11 DEF RequestStep

LEMMA TypeStep == TypeInv /\ [Next]_vars => TypeInv'
<1>1. ASSUME TypeInv, UNCHANGED vars PROVE TypeInv'
  BY <1>1 DEF vars, TypeInv, TypeOK, ThreadInv
<1> QED
  BY <1>1, QueueType, RequestType DEF Next

LEMMA TypeInvariant == Spec => []TypeInv
BY TypeInit, TypeStep, PTL DEF Spec

(* Type correctness of every reachable state, for all constants. *)
THEOREM TypeCorrect == Spec => []TypeOK
BY TypeInvariant, PTL DEF TypeInv
-----------------------------------------------------------------------------
(* What a step does to each table, whichever action it is. *)

(* A run, once submitted, stays; and without a takeover a step leaves a    *)
(* result that is there alone.                                             *)
RunMoves ==
    /\ takeovers' = 0 => takeovers = 0
    /\ \A r \in Runs :
          /\ Queue!Present(run[r]) => Queue!Present(run'[r])
          /\ ~Queue!Present(run'[r]) => run'[r] = run[r]
          /\ takeovers' = 0 /\ run[r].result # None =>
                run'[r].result = run[r].result

ResultsEndWithRuns == \A r \in Runs : ~Queue!Present(run[r]) => run[r].result = None

LEMMA WritesMove ==
    ASSUME TypeInv, ResultsEndWithRuns, NEW r \in Runs, NEW y \in Queue!Run,
           Queue!Present(y), Writes(r, y)
    PROVE  RunMoves
<1>1. run' = [run EXCEPT ![r] = y] /\ run \in [Runs -> Queue!Run]
  BY DEF Writes, TypeInv, TypeOK
<1>2. ASSUME takeovers' = 0
      PROVE  takeovers = 0 /\ Alone!Step(run[r], y)
  BY <1>2 DEF Writes, TypeInv, TypeOK
<1>3. ASSUME Alone!Step(run[r], y), run[r].result # None
      PROVE  y.result = run[r].result
  <2>1. Queue!Present(run[r]) /\ ~Alone!Open(run[r])
    BY <1>3 DEF ResultsEndWithRuns, Alone!Open
  <2>2. Alone!Claimed(run[r], y) \/ Alone!CancelWritten(run[r], y)
    BY <1>3, <2>1 DEF Alone!Step, Alone!Submitted, Alone!Requeued, Alone!Reports,
                      Alone!Fails, Alone!Present, Queue!Present
  <2> QED
    BY <1>1, <2>2 DEF Alone!Claimed, Alone!CancelWritten, Queue!Run
<1> QED
  BY <1>1, <1>2, <1>3 DEF RunMoves

LEMMA RunStep ==
    ASSUME TypeInv, ResultsEndWithRuns, [Next]_vars
    PROVE  RunMoves /\ ResultsEndWithRuns'
<1>0. NewRun \in Queue!Run /\ Queue!Present(NewRun) /\ NewRun.result = None
  BY DEF NewRun, Queue!Run, Queue!Status, Queue!Present
<1>1. RunMoves
  <2>1. ASSUME UNCHANGED <<run, takeovers>> PROVE RunMoves
    BY <2>1 DEF RunMoves
  <2>2. ASSUME NEW r \in Runs, Submit(r) PROVE RunMoves
    BY <1>0, <2>2, WritesMove DEF Submit
  <2>3. ASSUME NEW r \in Runs, Move(r) PROVE RunMoves
    <3>1. PICK s \in Moved : Writes(r, [run[r] EXCEPT !.status = s])
      BY <2>3 DEF Move
    <3>2. /\ [run[r] EXCEPT !.status = s] \in Queue!Run
          /\ Queue!Present([run[r] EXCEPT !.status = s])
      BY DEF TypeInv, TypeOK, Moved, Queue!Run, Queue!Status, Queue!Terminal,
             Queue!Reported, Queue!Classified, Queue!Present
    <3> QED
      BY <3>1, <3>2, WritesMove
  <2>4. ASSUME NEW r \in Runs, Report(r) PROVE RunMoves
    <3>1. PICK y \in [status : Queue!Reported, result : Payloads] : Writes(r, y)
      BY <2>4 DEF Report
    <3>2. y \in Queue!Run /\ Queue!Present(y)
      BY DEF Queue!Run, Queue!Status, Queue!Terminal, Queue!Reported, Queue!Present
    <3> QED
      BY <3>1, <3>2, WritesMove
  <2>5. ASSUME NEW c \in Clients, CreateCandidate(c) PROVE RunMoves
    <3>1. ASSUME NEW r \in Runs, Queue!Submitted(run[r], NewRun),
                 run' = [run EXCEPT ![r] = NewRun], UNCHANGED takeovers
          PROVE  RunMoves
      BY <1>0, <3>1 DEF RunMoves, ResultsEndWithRuns, Queue!Submitted, TypeInv, TypeOK
    <3> QED
      BY <2>1, <2>5, <3>1 DEF CreateCandidate
  <2> QED
    BY <2>1, <2>2, <2>3, <2>4, <2>5, StepCases
       DEF LoadNotice, AskDecision, AskControl, AskDispatch, AskReplan, Begin,
           CheckDecision, InsertDecision, Simulate, Dispatch, GatewayAnswers,
           CommitNotice, Abandon, vars
<1> QED
  BY <1>1 DEF RunMoves, ResultsEndWithRuns

(* Decisions and notices stand. *)
LEMMA TablesStand ==
    ASSUME TypeInv, [Next]_vars
    PROVE  /\ \A r \in Runs : approval[r] # None => approval'[r] = approval[r]
           /\ \A r \in Runs : notice[r] # None => notice'[r] = notice[r]
<1>1. ASSUME UNCHANGED approval
      PROVE  \A r \in Runs : approval[r] # None => approval'[r] = approval[r]
  BY <1>1
<1>2. ASSUME NEW c \in Clients, InsertDecision(c)
      PROVE  \A r \in Runs : approval[r] # None => approval'[r] = approval[r]
  BY <1>2 DEF InsertDecision, TypeInv, TypeOK
<1>3. ASSUME UNCHANGED notice
      PROVE  \A r \in Runs : notice[r] # None => notice'[r] = notice[r]
  BY <1>3
<1>4. ASSUME NEW c \in Clients, CommitNotice(c)
      PROVE  \A r \in Runs : notice[r] # None => notice'[r] = notice[r]
  BY <1>4 DEF CommitNotice, Answers, TypeInv, TypeOK
<1> QED
  BY <1>1, <1>2, <1>3, <1>4, StepCases
     DEF Submit, Move, LoadNotice, Report, AskDecision, AskControl, AskDispatch,
         AskReplan, Begin, CheckDecision, InsertDecision, Simulate, Dispatch,
         GatewayAnswers, CreateCandidate, CommitNotice, Abandon, tables, vars

(* A decision, once recorded, is never replaced, however many threads      *)
(* decide on the run at once.                                              *)
THEOREM DecisionsAreFinal == Spec => DecisionIsFinal
<1>1. TypeInv /\ [Next]_vars
          => [\A r \in Runs : approval[r] # None => approval'[r] = approval[r]]_vars
  BY TablesStand
<1> QED
  BY <1>1, TypeInvariant, PTL DEF Spec, DecisionIsFinal
-----------------------------------------------------------------------------
(* How a request thread moves: it loads a run, keeps what it loaded, or     *)
(* goes on past the check that its result is approved.                     *)
Loads(t, u) ==
    /\ t.pc = "idle" /\ u.pc \in {"decide", "control", "dispatch", "replan"}
    /\ u.of \in Runs /\ u.seen = run[u.of].result
Keeps(t, u) == t.pc # "idle" /\ u.of = t.of /\ u.seen = t.seen
Candidate(u) == u.key # None => asked'[u.candidate].key = u.key

ThreadMoves ==
    \A c \in Clients :
        LET t == thread[c]
            u == thread'[c]
        IN  \/ u = t \/ u.pc = "idle"
            \/ Loads(t, u) /\ UNCHANGED run
            \/ Keeps(t, u) /\ u.pc = "insert"
            \/ /\ Keeps(t, u) /\ u.pc \in {"gateway", "notice"}
               /\ Approved(approval[t.of], t.seen) /\ UNCHANGED approval
               /\ u.pc = "notice" => Candidate(u)

LEMMA ThreadStep == ASSUME TypeInv, [Next]_vars PROVE ThreadMoves
<1>0. thread \in [Clients -> Thread]
  BY DEF TypeInv, TypeOK
<1>1. ASSUME UNCHANGED thread PROVE ThreadMoves
  BY <1>1 DEF ThreadMoves
<1>2. ASSUME NEW c \in Clients, Becomes(c, Free) PROVE ThreadMoves
  BY <1>0, <1>2, FreeType DEF ThreadMoves, Becomes
<1>3. ASSUME NEW c \in Clients, NEW r \in Runs, NEW request \in Thread,
             request.pc \in {"decide", "control", "dispatch", "replan"},
             Begin(c, r, request)
      PROVE  ThreadMoves
  <2> DEFINE u == [request EXCEPT !.of = r, !.seen = run[r].result]
  <2>1. u.pc = request.pc /\ u.of = r /\ u.seen = run[r].result
    BY DEF Thread
  <2>2. thread' = [thread EXCEPT ![c] = u] /\ thread[c].pc = "idle" /\ UNCHANGED run
    BY <1>3 DEF Begin, Becomes
  <2>3. Loads(thread[c], u)
    BY <1>3, <2>1, <2>2 DEF Loads
  <2> HIDE DEF u
  <2> QED
    BY <1>0, <2>2, <2>3 DEF ThreadMoves
<1>4. ASSUME NEW c \in Clients, NEW r \in Runs, NEW v \in Verdicts, AskDecision(c, r, v)
      PROVE  ThreadMoves
  <2>1. /\ [Free EXCEPT !.pc = "decide", !.verdict = v] \in Thread
        /\ [Free EXCEPT !.pc = "decide", !.verdict = v].pc = "decide"
    BY DEF Free, Thread, Verdicts
  <2> QED
    BY <1>3, <1>4, <2>1 DEF AskDecision
<1>5. ASSUME NEW c \in Clients, NEW r \in Runs, AskControl(c, r) \/ AskDispatch(c, r)
      PROVE  ThreadMoves
  <2>1. /\ [Free EXCEPT !.pc = "control"] \in Thread
        /\ [Free EXCEPT !.pc = "control"].pc = "control"
        /\ [Free EXCEPT !.pc = "dispatch"] \in Thread
        /\ [Free EXCEPT !.pc = "dispatch"].pc = "dispatch"
    BY DEF Free, Thread, Verdicts
  <2> QED
    BY <1>3, <1>5, <2>1 DEF AskControl, AskDispatch
<1>6. ASSUME NEW c \in Clients, NEW r \in Runs, NEW s \in Scenarios,
             NEW k \in Keys \cup {None}, AskReplan(c, r, s, k)
      PROVE  ThreadMoves
  <2>1. /\ [Free EXCEPT !.pc = "replan", !.scenario = s, !.key = k] \in Thread
        /\ [Free EXCEPT !.pc = "replan", !.scenario = s, !.key = k].pc = "replan"
    BY DEF Free, Thread, Verdicts
  <2> QED
    BY <1>3, <1>6, <2>1 DEF AskReplan
<1>7. ASSUME NEW c \in Clients, thread[c].pc # "idle",
             \/ Becomes(c, [thread[c] EXCEPT !.pc = "insert"])
             \/ /\ Becomes(c, [thread[c] EXCEPT !.pc = "gateway"])
                /\ Approved(approval[thread[c].of], thread[c].seen)
                /\ UNCHANGED approval
      PROVE  ThreadMoves
  <2> DEFINE t == thread[c]
  <2>1. /\ Keeps(t, [t EXCEPT !.pc = "insert"])
        /\ Keeps(t, [t EXCEPT !.pc = "gateway"])
        /\ [t EXCEPT !.pc = "insert"].pc = "insert"
        /\ [t EXCEPT !.pc = "gateway"].pc = "gateway"
    BY <1>0, <1>7 DEF Keeps, Thread
  <2> QED
    BY <1>0, <1>7, <2>1 DEF Becomes, ThreadMoves
<1>8. ASSUME NEW c \in Clients, CreateCandidate(c) PROVE ThreadMoves
  <2> DEFINE t == thread[c]
             Goes(r, b) == [t EXCEPT !.pc = "notice", !.candidate = r, !.created = b]
  <2>1. ASSUME NEW r \in Runs, NEW b \in BOOLEAN, Becomes(c, Goes(r, b)),
               Approved(approval[t.of], t.seen), t.pc = "replan",
               t.key # None => asked'[r].key = t.key, UNCHANGED approval
        PROVE  ThreadMoves
    <3>1. /\ Keeps(t, Goes(r, b)) /\ Goes(r, b).pc = "notice"
          /\ Candidate(Goes(r, b))
      BY <1>0, <2>1 DEF Keeps, Candidate, Thread
    <3>2. thread' = [thread EXCEPT ![c] = Goes(r, b)]
      BY <2>1 DEF Becomes
    <3> HIDE DEF Goes
    <3> QED
      BY <1>0, <2>1, <3>1, <3>2 DEF ThreadMoves
  <2>2. CASE Becomes(c, Free)
    BY <1>2, <2>2
  <2>3. CASE \E r \in Runs : /\ asked' = [asked EXCEPT ![r] =
                                    [kind |-> "real_time", key |-> t.key,
                                     scenario |-> t.scenario]]
                             /\ Becomes(c, Goes(r, TRUE))
                             /\ Approved(approval[t.of], t.seen)
    <3>1. PICK r \in Runs :
             /\ asked' = [asked EXCEPT ![r] = [kind |-> "real_time", key |-> t.key,
                                               scenario |-> t.scenario]]
             /\ Becomes(c, Goes(r, TRUE)) /\ Approved(approval[t.of], t.seen)
      BY <2>3
    <3>2. asked'[r].key = t.key
      BY <3>1 DEF TypeInv, TypeOK
    <3>3. t.pc = "replan" /\ UNCHANGED approval
      BY <1>8 DEF CreateCandidate
    <3> HIDE DEF Goes
    <3> QED
      BY <2>1, <3>1, <3>2, <3>3
  <2>4. CASE \E r \in WithKey(t.key) : /\ Becomes(c, Goes(r, FALSE))
                                       /\ UNCHANGED asked
                                       /\ Approved(approval[t.of], t.seen)
    BY <1>8, <2>1, <2>4 DEF CreateCandidate, WithKey
  <2> QED
    BY <1>8, <2>2, <2>3, <2>4 DEF CreateCandidate
<1> QED
  BY <1>1, <1>2, <1>4, <1>5, <1>6, <1>7, <1>8, StepCases
     DEF Submit, Move, LoadNotice, Report, CheckDecision, InsertDecision, Simulate,
         Dispatch, GatewayAnswers, CommitNotice, Abandon, history, tables, vars
-----------------------------------------------------------------------------
(* Every use of a result rests on a decision about that result. *)
UseInv ==
    /\ \A c \in Clients : thread[c].pc \in {"gateway", "notice"} =>
          Approved(approval[thread[c].of], thread[c].seen)
    /\ \A r \in Runs : control[r] # None =>
          Approved(approval[r], control[r]) /\ control[r] \in Passed

LEMMA UseStep == TypeInv /\ UseInv /\ [Next]_vars => UseInv'
<1> SUFFICES ASSUME TypeInv, UseInv, [Next]_vars PROVE UseInv'
  OBVIOUS
<1>1. /\ \A r \in Runs : approval[r] # None => approval'[r] = approval[r]
      /\ ThreadMoves /\ TypeInv'
  BY TablesStand, ThreadStep, TypeStep
<1>2. ASSUME NEW c \in Clients, thread'[c].pc \in {"gateway", "notice"}
      PROVE  Approved(approval'[thread'[c].of], thread'[c].seen)
  <2>1. Approved(approval[thread'[c].of], thread'[c].seen) /\ thread'[c].of \in Runs
    BY <1>1, <1>2 DEF ThreadMoves, Loads, Keeps, UseInv, TypeInv, ThreadInv
  <2> QED
    BY <1>1, <2>1 DEF Approved
<1>3. ASSUME NEW r \in Runs, control'[r] # None
      PROVE  Approved(approval'[r], control'[r]) /\ control'[r] \in Passed
  <2>1. CASE control'[r] = control[r]
    BY <1>1, <1>3, <2>1 DEF UseInv, Approved
  <2>2. ASSUME NEW c \in Clients, Simulate(c), control'[r] # control[r]
        PROVE  Approved(approval'[r], control'[r]) /\ control'[r] \in Passed
    BY <2>2 DEF Simulate, TypeInv, TypeOK, ThreadInv
  <2> QED
    BY <2>1, <2>2, StepCases
       DEF Submit, Move, LoadNotice, Report, AskDecision, AskControl, AskDispatch,
           AskReplan, Begin, CheckDecision, InsertDecision, Dispatch, GatewayAnswers,
           CreateCandidate, CommitNotice, Abandon, tables, vars
<1> QED
  BY <1>2, <1>3 DEF UseInv

LEMMA UseInvariant == Spec => []UseInv
<1>1. Init => UseInv
  BY DEF Init, UseInv, Free
<1> QED
  BY <1>1, UseStep, TypeInvariant, PTL DEF Spec

(* What is at the gateway or was simulated is a validated result that an   *)
(* operator approved, that very result, however stale the row the request  *)
(* loaded and whatever a second worker wrote in between.                   *)
THEOREM SentResultsAreApproved == Spec => []SentWasApproved
<1>1. TypeInv /\ UseInv => SentWasApproved
  BY DEF TypeInv, ThreadInv, UseInv, Approved, SentWasApproved
<1> QED
  BY <1>1, TypeInvariant, UseInvariant, PTL
-----------------------------------------------------------------------------
(* As long as no second worker has written to a run, the results decided   *)
(* on, and those the request threads loaded, are the runs' results.        *)
CurrentInv ==
    /\ ResultsEndWithRuns
    /\ takeovers = 0 =>
          /\ \A r \in Runs : approval[r] # None => run[r].result = approval[r].result
          /\ \A c \in Clients : thread[c].pc # "idle" =>
                run[thread[c].of].result = thread[c].seen

LEMMA ApprovalStep ==
    ASSUME TypeInv, [Next]_vars, NEW r \in Runs, approval'[r] # approval[r]
    PROVE  \E c \in Clients : /\ thread[c].pc = "insert" /\ thread[c].of = r
                              /\ approval'[r].result = thread[c].seen
                              /\ UNCHANGED <<run, takeovers>>
<1>1. ASSUME NEW c \in Clients, InsertDecision(c)
      PROVE  /\ thread[c].pc = "insert" /\ thread[c].of = r
             /\ approval'[r].result = thread[c].seen /\ UNCHANGED <<run, takeovers>>
  BY <1>1 DEF InsertDecision, DecisionOf, TypeInv, TypeOK
<1> QED
  BY <1>1, StepCases
     DEF Submit, Move, LoadNotice, Report, AskDecision, AskControl, AskDispatch,
         AskReplan, Begin, CheckDecision, Simulate, Dispatch, GatewayAnswers,
         CreateCandidate, CommitNotice, Abandon, tables, vars

LEMMA CurrentStep == TypeInv /\ CurrentInv /\ [Next]_vars => CurrentInv'
<1> SUFFICES ASSUME TypeInv, CurrentInv, [Next]_vars PROVE CurrentInv'
  OBVIOUS
<1>1. RunMoves /\ ResultsEndWithRuns' /\ ThreadMoves /\ TypeInv'
  BY RunStep, ThreadStep, TypeStep DEF CurrentInv
<1>2. ASSUME takeovers' = 0, NEW r \in Runs, approval'[r] # None
      PROVE  run'[r].result = approval'[r].result
  <2>1. takeovers = 0
    BY <1>1, <1>2 DEF RunMoves
  <2>2. CASE approval'[r] = approval[r]
    <3>1. run[r].result = approval[r].result /\ approval[r] \in Approval
      BY <1>2, <2>1, <2>2 DEF CurrentInv, TypeInv, TypeOK
    <3>2. run[r].result # None
      BY <3>1, ConstantsAssumption DEF Approval
    <3> QED
      BY <1>1, <1>2, <2>2, <3>1, <3>2 DEF RunMoves
  <2>3. CASE approval'[r] # approval[r]
    <3>1. PICK c \in Clients : /\ thread[c].pc = "insert" /\ thread[c].of = r
                               /\ approval'[r].result = thread[c].seen
                               /\ UNCHANGED <<run, takeovers>>
      BY <2>3, ApprovalStep
    <3> QED
      BY <2>1, <3>1 DEF CurrentInv
  <2> QED
    BY <2>2, <2>3
<1>3. ASSUME takeovers' = 0, NEW c \in Clients, thread'[c].pc # "idle"
      PROVE  run'[thread'[c].of].result = thread'[c].seen
  <2>1. takeovers = 0
    BY <1>1, <1>3 DEF RunMoves
  <2>2. CASE Loads(thread[c], thread'[c]) /\ UNCHANGED run
    BY <2>2 DEF Loads
  <2>3. CASE /\ thread[c].pc # "idle" /\ thread'[c].of = thread[c].of
             /\ thread'[c].seen = thread[c].seen
    <3>1. /\ run[thread[c].of].result = thread[c].seen /\ thread[c].of \in Runs
          /\ thread[c].seen # None
      BY <2>1, <2>3, ConstantsAssumption DEF CurrentInv, TypeInv, ThreadInv
    <3> QED
      BY <1>1, <1>3, <2>3, <3>1 DEF RunMoves
  <2> QED
    BY <1>1, <1>3, <2>2, <2>3 DEF ThreadMoves, Keeps
<1> QED
  BY <1>1, <1>2, <1>3 DEF CurrentInv

LEMMA CurrentInvariant == Spec => []CurrentInv
<1>1. Init => CurrentInv
  BY DEF Init, CurrentInv, ResultsEndWithRuns, Queue!NoRun, Free
<1> QED
  BY <1>1, CurrentStep, TypeInvariant, PTL DEF Spec

(* Without a second worker's write, a decision is for ever about the       *)
(* result the run has.                                                     *)
THEOREM DecisionsStayCurrent == Spec => []DecisionStaysCurrent
BY CurrentInvariant, PTL DEF CurrentInv, DecisionStaysCurrent
-----------------------------------------------------------------------------
(* A notice's baseline is approved, and what a candidate's workers loaded  *)
(* and reported is the baseline's approved result.                         *)
NoticeInv ==
    \A r \in Runs :
        /\ notice[r] # None =>
              /\ approval[notice[r].baseline] # None
              /\ approval[notice[r].baseline].verdict = "approved"
        /\ \A p \in Payloads : p \in loaded[r] \/ p = basis[r] =>
              /\ notice[r] # None
              /\ takeovers = 0 => p = approval[notice[r].baseline].result

LEMMA NoticeStep ==
    TypeInv /\ UseInv /\ CurrentInv /\ NoticeInv /\ [Next]_vars => NoticeInv'
<1> SUFFICES ASSUME TypeInv, UseInv, CurrentInv, NoticeInv, [Next]_vars,
                    NEW r \in Runs
             PROVE  /\ notice'[r] # None =>
                          /\ approval'[notice'[r].baseline] # None
                          /\ approval'[notice'[r].baseline].verdict = "approved"
                    /\ \A p \in Payloads : p \in loaded'[r] \/ p = basis'[r] =>
                          /\ notice'[r] # None
                          /\ takeovers' = 0 => p = approval'[notice'[r].baseline].result
  BY DEF NoticeInv
<1>1. /\ \A q \in Runs : approval[q] # None => approval'[q] = approval[q]
      /\ \A q \in Runs : notice[q] # None => notice'[q] = notice[q]
      /\ RunMoves
  BY TablesStand, RunStep DEF CurrentInv
<1>2. notice[r] # None => notice[r].baseline \in Runs
  BY DEF TypeInv, TypeOK, Notice
<1>3. CASE notice[r] # None
  <2>1. /\ approval[notice[r].baseline] # None
        /\ approval'[notice'[r].baseline] = approval[notice[r].baseline]
        /\ approval[notice[r].baseline].verdict = "approved"
    BY <1>1, <1>2, <1>3 DEF NoticeInv
  <2>2. ASSUME NEW p \in Payloads, p \in loaded'[r] \/ p = basis'[r], takeovers' = 0
        PROVE  p = approval[notice[r].baseline].result
    <3>1. takeovers = 0
      BY <1>1, <2>2 DEF RunMoves
    <3>2. CASE p \in loaded[r] \/ p = basis[r]
      BY <3>1, <3>2 DEF NoticeInv
    <3>3. ASSUME NEW q \in Runs, LoadNotice(q), p \notin loaded[r], p # basis[r]
          PROVE  p = approval[notice[r].baseline].result
      <4>1. p = run[notice[r].baseline].result
        BY <2>2, <3>3 DEF LoadNotice, TypeInv, TypeOK
      <4> QED
        BY <1>2, <1>3, <2>1, <3>1, <4>1 DEF CurrentInv
    <3>4. ASSUME NEW q \in Runs, Report(q) PROVE p \in loaded[r] \/ p = basis[r]
      BY <2>2, <3>4 DEF Report, TypeInv, TypeOK
    <3>5. ASSUME UNCHANGED <<loaded, basis>> PROVE p \in loaded[r] \/ p = basis[r]
      BY <2>2, <3>5
    <3>6. \/ \E q \in Runs : LoadNotice(q) \/ Report(q)
          \/ UNCHANGED <<loaded, basis>>
      BY StepCases
         DEF Submit, Move, AskDecision, AskControl, AskDispatch, AskReplan, Begin,
             CheckDecision, InsertDecision, Simulate, Dispatch, GatewayAnswers,
             CreateCandidate, CommitNotice, Abandon, tables, vars
    <3> QED
      BY <3>2, <3>3, <3>4, <3>5, <3>6
  <2> QED
    BY <1>1, <1>3, <2>1, <2>2
<1>4. CASE notice[r] = None
  <2>1. \A p \in Payloads : p \notin loaded[r] /\ p # basis[r]
    BY <1>4 DEF NoticeInv
  <2>2. \A p \in Payloads : p \notin loaded'[r] /\ p # basis'[r]
    <3>1. ASSUME NEW q \in Runs, LoadNotice(q) PROVE loaded'[r] = loaded[r]
      BY <1>4, <3>1 DEF LoadNotice, TypeInv, TypeOK
    <3>2. ASSUME NEW q \in Runs, Report(q) PROVE basis'[r] = basis[r]
      BY <2>1, <3>2 DEF Report, TypeInv, TypeOK
    <3> QED
      BY <2>1, <3>1, <3>2, StepCases
         DEF LoadNotice, Report, Submit, Move, AskDecision, AskControl, AskDispatch,
             AskReplan, Begin, CheckDecision, InsertDecision, Simulate, Dispatch,
             GatewayAnswers, CreateCandidate, CommitNotice, Abandon, tables, vars
  <2>3. ASSUME NEW c \in Clients, CommitNotice(c), notice'[r] # None
        PROVE  /\ approval'[notice'[r].baseline] # None
               /\ approval'[notice'[r].baseline].verdict = "approved"
    <3>1. /\ thread[c].pc = "notice" /\ UNCHANGED approval
          /\ notice'[r].baseline = thread[c].of
      BY <1>4, <2>3 DEF CommitNotice, TypeInv, TypeOK
    <3> QED
      BY <3>1 DEF UseInv, Approved
  <2>4. (\A c \in Clients : ~CommitNotice(c)) => UNCHANGED notice
    BY StepCases
       DEF LoadNotice, Report, Submit, Move, AskDecision, AskControl, AskDispatch,
           AskReplan, Begin, CheckDecision, InsertDecision, Simulate, Dispatch,
           GatewayAnswers, CreateCandidate, Abandon, tables, vars
  <2> QED
    BY <1>4, <2>2, <2>3, <2>4
<1> QED
  BY <1>3, <1>4

LEMMA NoticeInvariant == Spec => []NoticeInv
<1>1. Init => NoticeInv
  BY ConstantsAssumption DEF Init, NoticeInv
<1> QED
  BY <1>1, NoticeStep, TypeInvariant, UseInvariant, CurrentInvariant, PTL DEF Spec

(* A real-time result rests on an approved baseline, and without a second  *)
(* worker's write on exactly the baseline result that was approved.        *)
THEOREM ReplansFollowApprovals == Spec => []ReplanFollowsApproval
<1>1. TypeInv /\ NoticeInv => ReplanFollowsApproval
  <2> SUFFICES ASSUME TypeInv, NoticeInv, NEW r \in Runs, basis[r] # None
               PROVE  /\ notice[r] # None
                      /\ LET a == approval[notice[r].baseline]
                         IN  /\ a # None /\ a.verdict = "approved"
                             /\ takeovers = 0 => a.result = basis[r]
    BY DEF ReplanFollowsApproval
  <2>1. basis[r] \in Payloads
    BY DEF TypeInv, TypeOK
  <2> QED
    BY <2>1 DEF NoticeInv
<1> QED
  BY <1>1, TypeInvariant, NoticeInvariant, PTL
-----------------------------------------------------------------------------
(* A key names one candidate, and what was answered with it is its notice. *)
KeyInv ==
    /\ \A r \in Runs : asked[r].key # None => Queue!Present(run[r])
    /\ \A q, r \in Runs : asked[q].key = asked[r].key /\ asked[r].key # None => q = r
    /\ \A c \in Clients : thread[c].pc = "notice" /\ thread[c].key # None =>
          asked[thread[c].candidate].key = thread[c].key
    /\ \A m \in noted :
          /\ notice[m.candidate] = [baseline |-> m.baseline, scenario |-> m.scenario]
          /\ m.key # None => asked[m.candidate].key = m.key

(* A run is asked for once, under a key no other run has.                  *)
LEMMA AskedStep ==
    ASSUME TypeInv, ResultsEndWithRuns, [Next]_vars
    PROVE  \/ UNCHANGED asked
           \/ \E r \in Runs : /\ ~Queue!Present(run[r]) /\ Queue!Present(run'[r])
                              /\ \A q \in Runs : q # r => asked'[q] = asked[q]
                              /\ asked'[r].key # None =>
                                    \A q \in Runs : asked[q].key # asked'[r].key
<1>1. ASSUME NEW r \in Runs, Submit(r)
      PROVE  /\ ~Queue!Present(run[r]) /\ Queue!Present(run'[r])
             /\ \A q \in Runs : q # r => asked'[q] = asked[q]
             /\ asked'[r].key = None
  BY <1>1 DEF Submit, Writes, Queue!Submitted, Queue!Present, NewRun, DayAhead,
              TypeInv, TypeOK
<1>2. ASSUME NEW c \in Clients, CreateCandidate(c), asked' # asked
      PROVE  \E r \in Runs : /\ ~Queue!Present(run[r]) /\ Queue!Present(run'[r])
                             /\ \A q \in Runs : q # r => asked'[q] = asked[q]
                             /\ asked'[r].key # None =>
                                   \A q \in Runs : asked[q].key # asked'[r].key
  <2>1. PICK r \in Runs :
           /\ Queue!Submitted(run[r], NewRun) /\ run' = [run EXCEPT ![r] = NewRun]
           /\ asked' = [asked EXCEPT ![r] =
                           [kind |-> "real_time", key |-> thread[c].key,
                            scenario |-> thread[c].scenario]]
           /\ WithKey(thread[c].key) = {}
    BY <1>2 DEF CreateCandidate
  <2> QED
    BY <2>1 DEF Queue!Submitted, Queue!Present, NewRun, WithKey, TypeInv, TypeOK
<1> QED
  BY <1>1, <1>2, StepCases
     DEF Move, LoadNotice, Report, AskDecision, AskControl, AskDispatch, AskReplan,
         Begin, CheckDecision, InsertDecision, Simulate, Dispatch, GatewayAnswers,
         CommitNotice, Abandon, tables, vars

LEMMA NotedStep ==
    ASSUME TypeInv, [Next]_vars, NEW m \in noted', m \notin noted
    PROVE  \E c \in Clients :
               /\ thread[c].pc = "notice" /\ m = Noted(thread[c]) /\ UNCHANGED asked
               /\ notice'[m.candidate] = [baseline |-> m.baseline,
                                          scenario |-> m.scenario]
<1>1. ASSUME NEW c \in Clients, CommitNotice(c)
      PROVE  /\ thread[c].pc = "notice" /\ m = Noted(thread[c]) /\ UNCHANGED asked
             /\ notice'[m.candidate] = [baseline |-> m.baseline,
                                        scenario |-> m.scenario]
  <2>1. m = Noted(thread[c]) /\ thread[c].pc = "notice" /\ UNCHANGED asked
    BY <1>1 DEF CommitNotice
  <2>2. thread[c].candidate \in Runs
    BY <2>1 DEF TypeInv, ThreadInv
  <2> QED
    BY <1>1, <2>1, <2>2 DEF CommitNotice, Answers, Noted, TypeInv, TypeOK
<1> QED
  BY <1>1, StepCases
     DEF Submit, Move, LoadNotice, Report, AskDecision, AskControl, AskDispatch,
         AskReplan, Begin, CheckDecision, InsertDecision, Simulate, Dispatch,
         GatewayAnswers, CreateCandidate, Abandon, history, vars

LEMMA KeyStep == TypeInv /\ CurrentInv /\ KeyInv /\ [Next]_vars => KeyInv'
<1> SUFFICES ASSUME TypeInv, CurrentInv, KeyInv, [Next]_vars PROVE KeyInv'
  OBVIOUS
<1>1. /\ \A q \in Runs : notice[q] # None => notice'[q] = notice[q]
      /\ RunMoves /\ ThreadMoves /\ TypeInv'
  BY TablesStand, RunStep, ThreadStep, TypeStep DEF CurrentInv
<1>2. \A r \in Runs : asked[r].key # None => asked'[r] = asked[r]
  BY AskedStep DEF KeyInv, CurrentInv
<1>3. \A r \in Runs : asked'[r].key # None => Queue!Present(run'[r])
  BY <1>1, AskedStep DEF KeyInv, CurrentInv, RunMoves
<1>4. \A q, r \in Runs : asked'[q].key = asked'[r].key /\ asked'[r].key # None => q = r
  BY AskedStep DEF KeyInv, CurrentInv
<1>5. ASSUME NEW c \in Clients, thread'[c].pc = "notice", thread'[c].key # None
      PROVE  asked'[thread'[c].candidate].key = thread'[c].key
  <2>1. CASE thread'[c] = thread[c]
    BY <1>2, <1>5, <2>1 DEF KeyInv, TypeInv, ThreadInv
  <2>2. CASE Candidate(thread'[c])
    BY <1>5, <2>2 DEF Candidate
  <2> QED
    BY <1>1, <1>5, <2>1, <2>2 DEF ThreadMoves, Loads
<1>6. ASSUME NEW m \in noted'
      PROVE  /\ notice'[m.candidate] = [baseline |-> m.baseline,
                                        scenario |-> m.scenario]
             /\ m.key # None => asked'[m.candidate].key = m.key
  <2>1. m.candidate \in Runs
    BY <1>1 DEF TypeInv, TypeOK
  <2>2. CASE m \in noted
    <3>1. /\ notice[m.candidate] = [baseline |-> m.baseline, scenario |-> m.scenario]
          /\ notice[m.candidate] # None
          /\ m.key # None => asked[m.candidate].key = m.key
      BY <2>2, NullIsNoRow DEF KeyInv, TypeInv, TypeOK, Notice
    <3> QED
      BY <1>1, <1>2, <2>1, <3>1
  <2>3. CASE m \notin noted
    BY <2>3, NotedStep DEF Noted, KeyInv
  <2> QED
    BY <2>2, <2>3
<1> QED
  BY <1>3, <1>4, <1>5, <1>6 DEF KeyInv

LEMMA KeyInvariant == Spec => []KeyInv
<1>1. Init => KeyInv
  BY DEF Init, KeyInv, DayAhead, Free
<1> QED
  BY <1>1, KeyStep, TypeInvariant, CurrentInvariant, PTL DEF Spec

(* Requests with one idempotency key that were answered with a notice were *)
(* answered with the same candidate, baseline and scenario.                *)
THEOREM KeysNameOneNotice == Spec => []NoticesAgree
<1>1. TypeInv /\ KeyInv => NoticesAgree
  <2> SUFFICES ASSUME TypeInv, KeyInv, NEW m \in noted, NEW n \in noted,
                      m.key = n.key, m.key # None
               PROVE  m = n
    BY DEF NoticesAgree
  <2>1. /\ m \in [key : Keys \cup {None}, candidate : Runs,
                  baseline : Runs, scenario : Scenarios]
        /\ n \in [key : Keys \cup {None}, candidate : Runs,
                  baseline : Runs, scenario : Scenarios]
    BY DEF TypeInv, TypeOK
  <2>2. asked[m.candidate].key = m.key /\ asked[n.candidate].key = m.key
    BY DEF KeyInv
  <2>3. m.candidate = n.candidate
    BY <2>1, <2>2 DEF KeyInv
  <2>4. [baseline |-> m.baseline, scenario |-> m.scenario]
            = [baseline |-> n.baseline, scenario |-> n.scenario]
    BY <2>3 DEF KeyInv
  <2>5. m.baseline = n.baseline /\ m.scenario = n.scenario
    BY <2>4
  <2> QED
    BY <2>1, <2>3, <2>5
<1> QED
  BY <1>1, TypeInvariant, KeyInvariant, PTL
-----------------------------------------------------------------------------
(* The runs here are the queue's: nothing an operator does moves a run     *)
(* otherwise than RunLifecycle lets it, and RunQueue implements that.      *)

(* A step writes one run at most; only what a second worker did counts as  *)
(* a takeover.                                                             *)
OneRunMoves ==
    \/ UNCHANGED <<run, takeovers>>
    \/ \E r \in Runs, y \in Queue!Run :
          /\ run' = [run EXCEPT ![r] = y]
          /\ Queue!Step(run[r], y)
          /\ takeovers' = 0 => Alone!Step(run[r], y)

LEMMA SubmittedAlone ==
    ASSUME NEW x, NEW y, Queue!Submitted(x, y)
    PROVE  Queue!Step(x, y) /\ Alone!Step(x, y)
BY DEF Queue!Step, Alone!Step, Queue!Submitted, Alone!Submitted, Queue!Present,
       Alone!Present, Queue!NoRun, Alone!NoRun

LEMMA WritesOneRun ==
    ASSUME TypeInv, NEW r \in Runs, NEW y \in Queue!Run,
           Queue!Step(run[r], y), Writes(r, y)
    PROVE  OneRunMoves
<1>1. takeovers \in Nat /\ run' = [run EXCEPT ![r] = y]
  BY ConstantsAssumption DEF TypeInv, TypeOK, Writes
<1>2. takeovers' = 0 => Alone!Step(run[r], y)
  BY <1>1 DEF Writes
<1> QED
  BY <1>1, <1>2 DEF OneRunMoves

LEMMA RunsMove == ASSUME TypeInv, [Next]_vars PROVE OneRunMoves
<1>0. NewRun \in Queue!Run
  BY DEF NewRun, Queue!Run, Queue!Status
<1>1. ASSUME UNCHANGED <<run, takeovers>> PROVE OneRunMoves
  BY <1>1 DEF OneRunMoves
<1>2. ASSUME NEW r \in Runs, Submit(r) PROVE OneRunMoves
  <2>1. Queue!Submitted(run[r], NewRun) /\ Writes(r, NewRun)
    BY <1>2 DEF Submit
  <2> QED
    BY <1>0, <2>1, SubmittedAlone, WritesOneRun
<1>3. ASSUME NEW r \in Runs, Move(r) PROVE OneRunMoves
  <2>1. PICK s \in Moved : /\ Moves(run[r], [run[r] EXCEPT !.status = s])
                           /\ Writes(r, [run[r] EXCEPT !.status = s])
    BY <1>3 DEF Move
  <2>2. [run[r] EXCEPT !.status = s] \in Queue!Run
    BY DEF TypeInv, TypeOK, Moved, Queue!Run, Queue!Status, Queue!Terminal,
           Queue!Reported, Queue!Classified
  <2>3. Queue!Step(run[r], [run[r] EXCEPT !.status = s])
    BY <2>1 DEF Moves, Queue!Step
  <2> QED
    BY <2>1, <2>2, <2>3, WritesOneRun
<1>4. ASSUME NEW r \in Runs, Report(r) PROVE OneRunMoves
  <2>1. PICK y \in [status : Queue!Reported, result : Payloads] :
            Queue!Reports(run[r], y) /\ Writes(r, y)
    BY <1>4 DEF Report
  <2>2. y \in Queue!Run
    BY DEF Queue!Run, Queue!Status, Queue!Terminal
  <2>3. Queue!Step(run[r], y)
    BY <2>1 DEF Queue!Step
  <2> QED
    BY <2>1, <2>2, <2>3, WritesOneRun
<1>5. ASSUME NEW c \in Clients, CreateCandidate(c) PROVE OneRunMoves
  <2>1. ASSUME NEW r \in Runs, Queue!Submitted(run[r], NewRun),
               run' = [run EXCEPT ![r] = NewRun]
        PROVE  OneRunMoves
    <3>1. Queue!Step(run[r], NewRun) /\ Alone!Step(run[r], NewRun)
      BY <2>1, SubmittedAlone
    <3> QED
      BY <1>0, <2>1, <3>1 DEF OneRunMoves
  <2> QED
    BY <1>1, <1>5, <2>1 DEF CreateCandidate
<1> QED
  BY <1>1, <1>2, <1>3, <1>4, <1>5, StepCases
     DEF LoadNotice, AskDecision, AskControl, AskDispatch, AskReplan, Begin,
         CheckDecision, InsertDecision, Simulate, Dispatch, GatewayAnswers,
         CommitNotice, Abandon, vars

LEMMA RunsBegin == Init => Queue!Init /\ Alone!Init
BY DEF Init, Queue!Init, Alone!Init, Queue!NoRun, Alone!NoRun

(* The runs that operators decide on, replan from and release are those of *)
(* a queue shared by any number of workers, as RunQueue implements it.     *)
THEOREM RunsAreTheQueues == Spec => Queue!Spec
<1>1. TypeInv /\ [Next]_vars => [Queue!Next]_<<run, TRUE>>
  <2> SUFFICES ASSUME TypeInv, OneRunMoves PROVE [Queue!Next]_<<run, TRUE>>
    BY RunsMove
  <2>1. CASE UNCHANGED run
    BY <2>1
  <2>2. ASSUME NEW r \in Runs, NEW y \in Queue!Run,
               run' = [run EXCEPT ![r] = y], Queue!Step(run[r], y)
        PROVE  Queue!Next
    BY <2>2 DEF TypeInv, TypeOK, Queue!Next
  <2> QED
    BY <2>1, <2>2 DEF OneRunMoves
<1> QED
  BY <1>1, RunsBegin, TypeInvariant, PTL DEF Spec, Queue!Spec

(* Without a second worker they are those of the queue of one worker,      *)
(* where a result is committed once.                                       *)
THEOREM RunsAreTheQueuesAlone ==
    ASSUME MaxTakeovers = 0
    PROVE  Spec => Alone!Spec
<1>1. TypeInv /\ [Next]_vars => [Alone!Next]_<<run, FALSE>>
  <2> SUFFICES ASSUME TypeInv, TypeInv', OneRunMoves
               PROVE  [Alone!Next]_<<run, FALSE>>
    BY RunsMove, TypeStep
  <2>1. CASE UNCHANGED run
    BY <2>1
  <2>2. takeovers' = 0
    BY DEF TypeInv, TypeOK
  <2>3. ASSUME NEW r \in Runs, NEW y \in Queue!Run,
               run' = [run EXCEPT ![r] = y], Alone!Step(run[r], y)
        PROVE  Alone!Next
    <3>1. y \in Alone!Run
      BY DEF Queue!Run, Alone!Run, Queue!Status, Alone!Status, Queue!Terminal,
             Alone!Terminal, Queue!Reported, Alone!Reported, Queue!Classified,
             Alone!Classified
    <3>2. run \in [Runs -> Alone!Run]
      BY DEF TypeInv, TypeOK, Queue!Run, Alone!Run, Queue!Status, Alone!Status,
             Queue!Terminal, Alone!Terminal, Queue!Reported, Alone!Reported,
             Queue!Classified, Alone!Classified
    <3> QED
      BY <2>3, <3>1, <3>2 DEF Alone!Next
  <2> QED
    BY <2>1, <2>2, <2>3 DEF OneRunMoves
<1> QED
  BY <1>1, RunsBegin, TypeInvariant, PTL DEF Spec, Alone!Spec
-----------------------------------------------------------------------------
(* And the other way round: whatever the queue promises it may do to a run *)
(* is a step here, once the ways a run can fail are told apart no more.    *)
Coarse(x) == [x EXCEPT !.status = IF @ \in Queue!Classified THEN "failed" ELSE @]

(* The forms in which Submit, Move and Report write a run.                 *)
Written(x, y) ==
    \/ Queue!Submitted(x, y) /\ y = NewRun
    \/ \E s \in Moved : y = [x EXCEPT !.status = s] /\ Moves(x, y)
    \/ Queue!Reports(x, y)

(* No step the queue can take is left out by what Decisions checks: each   *)
(* one, with its failure read as "failed", is a write of Submit, Move or   *)
(* Report, and one a single worker can take counts as no takeover.         *)
THEOREM QueueIsCovered ==
    ASSUME NEW x \in Queue!Run, NEW y \in Queue!Run, Queue!Step(x, y)
    PROVE  /\ Written(Coarse(x), Coarse(y))
           /\ Alone!Step(x, y) => Alone!Step(Coarse(x), Coarse(y))
<1> DEFINE cx == Coarse(x)
           cy == Coarse(y)
<1>0. cx \in Queue!Run /\ cx.result = x.result /\ cy.result = y.result
  BY DEF Coarse, Queue!Run, Queue!Status, Queue!Terminal, Queue!Classified
<1>1. /\ x.status \notin Queue!Classified => cx = x
      /\ x.status \in Queue!Classified => cx = [x EXCEPT !.status = "failed"]
      /\ y.status \notin Queue!Classified => cy = y
      /\ y.status \in Queue!Classified => cy = [y EXCEPT !.status = "failed"]
  BY DEF Coarse, Queue!Run
<1>2. /\ Queue!Present(x) => Queue!Present(cx)
      /\ Alone!Present(x) => Alone!Present(cx)
      /\ Alone!Open(x) => Alone!Open(cx)
      /\ \A s \in Queue!Status \ Queue!Classified :
            y = [x EXCEPT !.status = s] => cy = [cx EXCEPT !.status = s]
      /\ \A s \in Queue!Classified :
            y = [x EXCEPT !.status = s] => cy = [cx EXCEPT !.status = "failed"]
  BY <1>0, <1>1 DEF Queue!Run, Queue!Present, Alone!Present, Alone!Open,
                    Queue!Classified
<1>3. \A s \in {"queued", "running", "cancel_requested", "cancelled"} :
          s \in Moved /\ s \in Queue!Status \ Queue!Classified
  BY DEF Moved, Queue!Status, Queue!Terminal, Queue!Classified
<1>4. "failed" \in Moved /\ "failed" \in Queue!Classified
      /\ "failed" \in Alone!Classified /\ Alone!Classified = Queue!Classified
      /\ Queue!Open(cx)
  BY DEF Moved, Queue!Classified, Alone!Classified, Queue!Open
<1> HIDE DEF cx, cy
<1>5. ASSUME Queue!Submitted(x, y) \/ Alone!Submitted(x, y)
      PROVE  Written(cx, cy) /\ Alone!Step(cx, cy)
  <2>1. cx = x /\ cy = y /\ y = NewRun /\ Queue!Submitted(x, y) /\ Alone!Submitted(x, y)
    BY <1>1, <1>5 DEF Queue!Submitted, Alone!Submitted, Queue!Present, Alone!Present,
                      Queue!NoRun, Alone!NoRun, NewRun, Queue!Classified
  <2> QED
    BY <2>1 DEF Written, Alone!Step
<1>6. ASSUME Queue!Claimed(x, y) PROVE Written(cx, cy) /\ Alone!Step(cx, cy)
  <2>1. cx = x /\ cy = [cx EXCEPT !.status = "running"]
    BY <1>1, <1>2, <1>3, <1>6 DEF Queue!Claimed, Queue!Classified
  <2>2. Queue!Claimed(cx, cy) /\ Alone!Claimed(cx, cy)
    BY <1>6, <2>1 DEF Queue!Claimed, Alone!Claimed
  <2> QED
    BY <1>3, <2>1, <2>2 DEF Written, Moves, Alone!Step
<1>7. ASSUME Queue!CancelWritten(x, y) PROVE Written(cx, cy) /\ Alone!Step(cx, cy)
  <2>1. PICK s \in {"cancelled", "cancel_requested"} : y = [x EXCEPT !.status = s]
    BY <1>7 DEF Queue!CancelWritten
  <2>2. cy = [cx EXCEPT !.status = s] /\ Queue!Present(cx) /\ Alone!Present(cx)
    BY <1>2, <1>3, <1>7, <2>1 DEF Queue!CancelWritten, Queue!Present, Alone!Present
  <2>3. Queue!CancelWritten(cx, cy) /\ Alone!CancelWritten(cx, cy)
    BY <2>2 DEF Queue!CancelWritten, Alone!CancelWritten
  <2> QED
    BY <1>3, <2>2, <2>3 DEF Written, Moves, Alone!Step
<1>8. ASSUME Queue!Requeued(x, y) PROVE Written(cx, cy)
  <2>1. cy = [cx EXCEPT !.status = "queued"] /\ Queue!Present(cx)
    BY <1>2, <1>3, <1>8 DEF Queue!Requeued
  <2>2. Queue!Requeued(cx, cy)
    BY <1>4, <2>1 DEF Queue!Requeued
  <2> QED
    BY <1>3, <2>1, <2>2 DEF Written, Moves
<1>9. ASSUME Queue!Reports(x, y) PROVE Written(cx, cy)
  <2>1. cy = y /\ Queue!Present(cx)
    BY <1>1, <1>2, <1>9 DEF Queue!Reports, Queue!Reported, Queue!Classified
  <2>2. Queue!Reports(cx, cy)
    BY <1>4, <1>9, <2>1 DEF Queue!Reports
  <2> QED
    BY <2>2 DEF Written
<1>10. ASSUME Queue!Fails(x, y) PROVE Written(cx, cy)
  <2>1. cy = [cx EXCEPT !.status = "failed"] /\ Queue!Present(cx)
    BY <1>2, <1>10 DEF Queue!Fails
  <2>2. Queue!Fails(cx, cy)
    BY <1>4, <2>1 DEF Queue!Fails
  <2> QED
    BY <1>4, <2>1, <2>2 DEF Written, Moves
<1>11. Written(cx, cy)
  BY <1>5, <1>6, <1>7, <1>8, <1>9, <1>10 DEF Queue!Step
<1>12. ASSUME Alone!Step(x, y) PROVE Alone!Step(cx, cy)
  <2>1. CASE Alone!Submitted(x, y)
    BY <1>5, <2>1
  <2>2. CASE Alone!Claimed(x, y) \/ Alone!CancelWritten(x, y)
    <3>1. Queue!Claimed(x, y) \/ Queue!CancelWritten(x, y)
      BY <2>2 DEF Queue!Claimed, Alone!Claimed, Queue!CancelWritten,
                  Alone!CancelWritten, Queue!Present, Alone!Present
    <3> QED
      BY <1>6, <1>7, <3>1
  <2>3. CASE Alone!Requeued(x, y)
    <3>1. cy = [cx EXCEPT !.status = "queued"] /\ Alone!Present(cx) /\ Alone!Open(cx)
      BY <1>2, <1>3, <2>3 DEF Alone!Requeued
    <3> QED
      BY <3>1 DEF Alone!Requeued, Alone!Step
  <2>4. CASE Alone!Reports(x, y)
    <3>1. cy = y /\ Alone!Present(cx) /\ Alone!Open(cx)
      BY <1>1, <1>2, <2>4 DEF Alone!Reports, Alone!Reported, Queue!Classified
    <3> QED
      BY <2>4, <3>1 DEF Alone!Reports, Alone!Step
  <2>5. CASE Alone!Fails(x, y)
    <3>1. cy = [cx EXCEPT !.status = "failed"] /\ Alone!Present(cx) /\ Alone!Open(cx)
      BY <1>2, <1>4, <2>5 DEF Alone!Fails
    <3> QED
      BY <1>4, <3>1 DEF Alone!Fails, Alone!Step
  <2> QED
    BY <1>12, <2>1, <2>2, <2>3, <2>4, <2>5 DEF Alone!Step
<1> QED
  BY <1>11, <1>12 DEF cx, cy
=============================================================================
