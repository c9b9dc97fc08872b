------------------------------ MODULE ReplayGuard ------------------------------
(***************************************************************************)
(* Single use of signed peer requests: verifyPeerRequest accepts a         *)
(* signature inside a time window, consumeRequestId claims the request ID  *)
(* under a KVS key that expires, and concurrent invocations of the web     *)
(* trigger may be handed the same captured request.                        *)
(*                                                                         *)
(* Time is the receiver's clock in any unit.  A request is its signed body *)
(* with its timestamp header, which may come from a clock that is ahead or *)
(* behind.  consumeRequestId's key is built from the receiver and from     *)
(* what the body says, so it is one key per request.  KVS itself is        *)
(* external: a conditional set is atomic, a key is there until its time to *)
(* live is over and may stay longer, and a call may fail having taken      *)
(* effect or not.                                                          *)
(***************************************************************************)
EXTENDS Naturals

CONSTANTS
  Request,      \* the signed requests under way
  Invocation,   \* slots for concurrent invocations of the receiver
  MaxAge,       \* maxAgeMilliseconds
  Skew,         \* maxFutureSkewMilliseconds
  Retention,    \* the time to live of a claim
  Limit,        \* how long Forge lets an invocation run
  MaxTime       \* bound: the clock stops here

ASSUME TimeAssumption ==
  /\ MaxAge \in Nat /\ Skew \in Nat /\ Retention \in Nat /\ Limit \in Nat
  /\ MaxTime \in Nat

\* A claim outlives every invocation that could still verify its request.
\* The code's ten minutes cover five minutes, thirty seconds and Forge's limit.
ASSUME RetentionAssumption == Retention > MaxAge + Skew + Limit

VARIABLES
  now,        \* the receiver's clock
  stamp,      \* the timestamp each request was signed with
  claim,      \* the expiry of each request's claim in KVS, NoClaim if absent
  running,    \* the invocations between verification and claim
  consumed    \* how often each request passed consumeRequestId

vars == <<now, stamp, claim, running, consumed>>

NoClaim == 0

\* An invocation that has verified a request and not yet claimed it.
Verified == [slot : Invocation, request : Request, since : Nat]

TypeOK ==
  /\ now \in Nat
  /\ stamp \in [Request -> Nat]
  /\ claim \in [Request -> Nat]
  /\ running \subseteq Verified
  /\ consumed \in [Request -> Nat]

Init ==
  /\ now = 0
  /\ stamp \in [Request -> 0 .. MaxTime]
  /\ claim = [r \in Request |-> NoClaim]
  /\ running = {}
  /\ consumed = [r \in Request |-> 0]

Claimed(r) == claim[r] # NoClaim

\* Mutants of ClaimExpiry: a claim lives as long as a signature; a claim
\* expires before it is made.
ClaimAsLongAsASignature == now + MaxAge
ClaimExpired == now - Retention

ClaimExpiry == now + Retention
Claim(r) == claim' = [claim EXCEPT ![r] = ClaimExpiry]

\* verifyPeerRequest's window, as its two comparisons have it.
Verifiable(r) == stamp[r] + MaxAge >= now /\ stamp[r] <= now + Skew

-----------------------------------------------------------------------------
\* An invocation is handed a request and verifies it.
VerifyPeerRequest(i, r) ==
  /\ \A v \in running : v.slot # i
  /\ Verifiable(r)
  /\ running' = running \cup {[slot |-> i, request |-> r, since |-> now]}
  /\ UNCHANGED <<now, stamp, claim, consumed>>

\* The conditional set succeeds: the request is consumed and its effect runs.
ConsumeRequestId(v) ==
  /\ ~Claimed(v.request)
  /\ Claim(v.request)
  /\ consumed' = [consumed EXCEPT ![v.request] = consumed[v.request] + 1]
  /\ running' = running \ {v}
  /\ UNCHANGED <<now, stamp>>

\* The set is refused by the key, or it fails, with or without having taken
\* effect, or the invocation is killed: the request is denied.
DenyRequest(v) ==
  /\ \/ UNCHANGED claim
     \/ ~Claimed(v.request) /\ Claim(v.request)
  /\ running' = running \ {v}
  /\ UNCHANGED <<now, stamp, consumed>>

\* KVS drops a claim some time after its time to live is over.
ExpireClaim(r) ==
  /\ Claimed(r) /\ now >= claim[r]
  /\ claim' = [claim EXCEPT ![r] = NoClaim]
  /\ UNCHANGED <<now, stamp, running, consumed>>

\* No invocation outlives Forge's limit.
Tick ==
  /\ now < MaxTime
  /\ \A v \in running : now < v.since + Limit
  /\ now' = now + 1
  /\ UNCHANGED <<stamp, claim, running, consumed>>

Next ==
  \/ \E i \in Invocation, r \in Request : VerifyPeerRequest(i, r)
  \/ \E v \in running : ConsumeRequestId(v) \/ DenyRequest(v)
  \/ \E r \in Request : ExpireClaim(r)
  \/ Tick

Spec == Init /\ [][Next]_vars

-----------------------------------------------------------------------------
\* However often a captured request is delivered, at the same time or as late
\* as its signature verifies, its effect runs at most once.
SingleUse == \A r \in Request : consumed[r] <= 1

\* The last instant at which an invocation that verified r can still claim it.
LastUse(r) == stamp[r] + MaxAge + Limit

\* Why: a request that was used is still claimed beyond its last use, or its
\* last use is over.
UsedStaysClaimed ==
  \A r \in Request :
    consumed[r] # 0 =>
      \/ Claimed(r) /\ claim[r] > LastUse(r)
      \/ now > LastUse(r)

\* An invocation at work verified its request inside the window, and is within
\* Forge's limit.
RunningInTime ==
  \A v \in running :
    /\ v.since <= now /\ now <= v.since + Limit
    /\ stamp[v.request] <= v.since + Skew
    /\ v.since <= stamp[v.request] + MaxAge
=============================================================================
