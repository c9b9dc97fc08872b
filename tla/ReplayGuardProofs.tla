--------------------------- MODULE ReplayGuardProofs ---------------------------
(***************************************************************************)
(* Single use of a signed request, for any window, limit and retention     *)
(* that satisfy RetentionAssumption, any requests and any concurrency.     *)
(***************************************************************************)
EXTENDS ReplayGuard, TLAPS

Inv == TypeOK /\ RunningInTime /\ UsedStaysClaimed /\ SingleUse

\* Nothing runs, nothing is claimed, nothing was used.
LEMMA InitInv == Init => Inv
  BY TimeAssumption
     DEF Init, Inv, TypeOK, RunningInTime, UsedStaysClaimed, SingleUse, NoClaim

\* Every step keeps the invariant; the step that matters is the claim, which
\* outlives the last use of its request.
LEMMA StepInv == Inv /\ [Next]_vars => Inv'
<1> SUFFICES ASSUME Inv, [Next]_vars PROVE Inv'
  OBVIOUS
<1> USE TimeAssumption, RetentionAssumption DEF Inv, TypeOK
<1>1. ASSUME NEW i \in Invocation, NEW r \in Request, VerifyPeerRequest(i, r)
      PROVE  Inv'
  <2>1. TypeOK'
    BY <1>1 DEF VerifyPeerRequest, Verified
  <2>2. RunningInTime'
    BY <1>1 DEF VerifyPeerRequest, Verifiable, RunningInTime, Verified
  <2>3. QED
    BY <1>1, <2>1, <2>2 DEF VerifyPeerRequest, UsedStaysClaimed, SingleUse,
       Claimed, LastUse
<1>2. ASSUME NEW v \in running, ConsumeRequestId(v)
      PROVE  Inv'
  <2>1. /\ v.request \in Request /\ ClaimExpiry \in Nat
        /\ ClaimExpiry # NoClaim
        /\ ClaimExpiry > LastUse(v.request)
    BY DEF Verified, ClaimExpiry, NoClaim, RunningInTime, LastUse
  <2>2. TypeOK'
    BY <1>2, <2>1 DEF ConsumeRequestId, Claim
  <2>3. RunningInTime'
    BY <1>2 DEF ConsumeRequestId, RunningInTime
  <2>4. now <= LastUse(v.request)
    BY <2>1 DEF Verified, RunningInTime, LastUse
  <2>5. consumed[v.request] = 0
    BY <1>2, <2>1, <2>4 DEF ConsumeRequestId, UsedStaysClaimed, LastUse
  <2>6. SingleUse'
    BY <1>2, <2>1, <2>5 DEF ConsumeRequestId, SingleUse
  <2>7. UsedStaysClaimed'
    BY <1>2, <2>1
       DEF ConsumeRequestId, Claim, Claimed, UsedStaysClaimed, LastUse
  <2>8. QED
    BY <2>2, <2>3, <2>6, <2>7
<1>3. ASSUME NEW v \in running, DenyRequest(v)
      PROVE  Inv'
  <2>1. v.request \in Request /\ ClaimExpiry \in Nat
    BY DEF Verified, ClaimExpiry
  <2>2. TypeOK' /\ SingleUse'
    BY <1>3, <2>1 DEF DenyRequest, Claim, SingleUse
  <2>3. RunningInTime'
    BY <1>3 DEF DenyRequest, RunningInTime
  <2>4. UsedStaysClaimed'
    BY <1>3, <2>1 DEF DenyRequest, Claim, Claimed, UsedStaysClaimed, LastUse
  <2>5. QED
    BY <2>2, <2>3, <2>4
<1>4. ASSUME NEW r \in Request, ExpireClaim(r)
      PROVE  Inv'
  <2>1. TypeOK' /\ SingleUse' /\ RunningInTime'
    BY <1>4 DEF ExpireClaim, NoClaim, SingleUse, RunningInTime
  <2>2. UsedStaysClaimed'
    BY <1>4 DEF ExpireClaim, Claimed, UsedStaysClaimed, LastUse
  <2>3. QED
    BY <2>1, <2>2
<1>5. CASE Tick
  <2>1. TypeOK' /\ SingleUse'
    BY <1>5 DEF Tick, SingleUse
  <2>2. RunningInTime'
    BY <1>5 DEF Tick, RunningInTime, Verified
  <2>3. UsedStaysClaimed'
    BY <1>5 DEF Tick, Claimed, UsedStaysClaimed, LastUse
  <2>4. QED
    BY <2>1, <2>2, <2>3
<1>6. CASE UNCHANGED vars
  BY <1>6 DEF vars, RunningInTime, UsedStaysClaimed, SingleUse, Claimed, LastUse
<1>7. QED
  BY <1>1, <1>2, <1>3, <1>4, <1>5, <1>6 DEF Next

\* A signed request takes effect at most once: the retention that covers the
\* acceptance window and the run time of an invocation is enough.
THEOREM RequestsAreSingleUse == Spec => []SingleUse
<1>1. Inv => SingleUse
  BY DEF Inv
<1>2. QED
  BY <1>1, InitInv, StepInv, PTL DEF Spec

\* Every claim, stamp and invocation is one the receiver can hold.
THEOREM GuardTyped == Spec => []TypeOK
<1>1. Inv => TypeOK
  BY DEF Inv
<1>2. QED
  BY <1>1, InitInv, StepInv, PTL DEF Spec

\* A request that was used stays claimed until no invocation could use it.
THEOREM ClaimsOutliveUse == Spec => []UsedStaysClaimed
<1>1. Inv => UsedStaysClaimed
  BY DEF Inv
<1>2. QED
  BY <1>1, InitInv, StepInv, PTL DEF Spec
=============================================================================
