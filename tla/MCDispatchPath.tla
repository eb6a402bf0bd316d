--------------------------- MODULE MCDispatchPath ---------------------------
(***************************************************************************)
(* DispatchPath on small registers.  Set-points are counts of 0.1 kW; the  *)
(* sets say how they relate to SignedMax = 1 and RegisterMax = 2.          *)
(***************************************************************************)
EXTENDS DispatchPath, TLC

CONSTANT Crowd              \* requests that only come while no frame is sent

SmallSite == {-1, 1}        \* both directions, fit a signed register
WideSite == {1, 2, 3}       \* 2 is beyond a signed register, 3 beyond both
OneBeyond == {1, 3}         \* without the one beyond the signed register

(* Enough admissions for the replay cache to forget, at little cost: more  *)
(* requests than two come only when all of them are beyond the register    *)
(* range and still wait for their answer, so that each is admitted,        *)
(* remembered and refused without a frame.  Otherwise all the requests     *)
(* repeat an identifier or none does: one that repeats alone is as fresh.  *)
Submitted == {q \in Requests : api[q].pc # "new"}
Repeating == {q \in Submitted : command[q].id \in Ids}
Bound ==
    \/ Submitted \cap Crowd = {} /\ Repeating \in {{}, Submitted}
    \/ \A q \in Submitted : api[q].pc = "calling" /\ OutOfRange(q)

(* Next within the bound, which only steps of the API can leave. *)
CrowdNext ==
    \/ \E q \in Requests : (ApiStep(q) /\ Bound') \/ Admit(q) \/ GatewayStep(q)
    \/ \E f \in wire : Execute(f) \/ Lose(f)
    \/ (ApiRestart /\ Bound') \/ GatewayRestart \/ PlcRestart
CrowdSpec == Init /\ [][CrowdNext]_vars

Symmetry == Permutations(Requests \ Crowd)
=============================================================================
