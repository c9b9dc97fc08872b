----------------------------- MODULE PeerDelivery -----------------------------
(***************************************************************************)
(* Delivery of one Epic's event from a source tenant to a destination,     *)
(* beneath PeerCXs that the handshake has activated at both.               *)
(* Administrators bind Pairings (resolvers/peer-cx.ts authorizePairing)    *)
(* and revoke PeerCXs; a publication queues its candidate, finds its       *)
(* Pairing, passes the send gate and posts (publication/automation-action  *)
(* and forge-automation-action); the receiver claims the request, passes   *)
(* the four checks of authorizePeerRoute against its own state and         *)
(* forwards to Automation (collaboration/forge-peer-event-receiver).       *)
(*                                                                         *)
(* Both tenants keep PeerCXs and Pairings under different KVS keys, so the *)
(* receiver's two reads are two instants.  A message can be late, lost   *)
(* (never handled) and delivered again.  A revocation is one step here;    *)
(* what other writers of the setup state do to it is in PeerCxHandshake.   *)
(* A claim never lapses while its request verifies: that is ReplayGuard.   *)
(* An event is sent once, with a fresh request ID and idempotency key, so  *)
(* the idempotency key of the publication stands for all three.            *)
(***************************************************************************)
EXTENDS Naturals

CONSTANTS
  PeerCxId, PairingId, Epic, Operation,
  Delivery,    \* the operation "starter.delivery"
  OnRecord,    \* the operations a handshake can leave on record at each site
  Key,         \* idempotency keys of publications
  Run,         \* slots for concurrent publications at the source
  Handler,     \* slots for concurrent invocations of the receiver
  Admin,       \* slots for concurrent invocations of authorizePairing
  Proposed,    \* the bindings administrators propose (all, but for a bound)
  Unread, NoPairing

Site == {"source", "destination"}

\* An active Pairing: one Source Epic and an allowlist, under one PeerCX.
Binding == [peerCxId : PeerCxId, sourceEpicKey : Epic,
            allowedOperations : SUBSET Operation]

ASSUME DeliveryAssumption ==
  /\ Delivery \in Operation
  /\ OnRecord \subseteq [Site -> SUBSET Operation]
  /\ Proposed \subseteq Binding

VARIABLES
  peerCx,      \* the status of each PeerCX in each tenant's setup state
  ended,       \* the PeerCXs whose lease is over on each tenant's clock
  agreed,      \* the operations of the terms each tenant has on record
  pairings,    \* each tenant's stored Pairings
  admin,       \* authorizations at work
  candidates,  \* the source's stored candidates, per Epic
  run,         \* publications at work
  sent,        \* the peer operation envelopes on the wire, for good
  claims,      \* the request IDs the destination has consumed
  handler,     \* the receiver's invocations at work
  queued,      \* history: the keys whose candidate was stored
  bound,       \* history: the bindings each tenant's administrator stored
  forwarded,   \* history: how often each key's event reached Automation
  barredAtSource,      \* history: the PeerCXs not in force at the source when
                       \* it began to publish a key
  barredAtDestination  \* history: those not in force at the destination when
                       \* it began to receive a key

vars == <<peerCx, ended, agreed, pairings, admin, candidates, run, sent, claims,
          handler, queued, bound, forwarded, barredAtSource, barredAtDestination>>

PeerPairingState == [PairingId -> Binding \cup {NoPairing}]
PeerCxStatus == {"active", "revoked"}

PeerOperationEnvelope ==
  [key : Key, pairingId : PairingId, peerCxId : PeerCxId, issueKey : Epic]

RunState ==
  [step : {"queueing"}, key : Key, epic : Epic, state : SUBSET Key]
    \cup [step : {"resolving"}, key : Key, epic : Epic]
    \cup [step : {"sending", "posting"}, key : Key, epic : Epic, pairingId : PairingId,
          pairing : Binding]
    \cup [step : {"idle"}]
HandlerState ==
  [step : {"reading"}, envelope : PeerOperationEnvelope, inLease : BOOLEAN,
   peerCx : PeerCxStatus \cup {Unread},
   pairing : Binding \cup {NoPairing, Unread}]
    \cup [step : {"idle"}]
AdminState ==
  [step : {"writing"}, site : Site, pairingId : PairingId, binding : Binding,
   pairings : PeerPairingState]
    \cup [step : {"idle"}]
Idle == [step |-> "idle"]

TypeOK ==
  /\ peerCx \in [Site -> [PeerCxId -> PeerCxStatus]]
  /\ ended \in [Site -> SUBSET PeerCxId]
  /\ agreed \in [Site -> SUBSET Operation]
  /\ pairings \in [Site -> PeerPairingState]
  /\ admin \in [Admin -> AdminState]
  /\ candidates \in [Epic -> SUBSET Key]
  /\ run \in [Run -> RunState]
  /\ sent \subseteq PeerOperationEnvelope
  /\ claims \subseteq Key
  /\ handler \in [Handler -> HandlerState]
  /\ queued \subseteq Key
  /\ bound \in [Site -> SUBSET (PairingId \X Binding)]
  /\ forwarded \in [Key -> Nat]
  /\ barredAtSource \in [Key -> SUBSET PeerCxId]
  /\ barredAtDestination \in [Key -> SUBSET PeerCxId]

Init ==
  /\ peerCx = [s \in Site |-> [x \in PeerCxId |-> "active"]]
  /\ ended = [s \in Site |-> {}]
  /\ agreed \in OnRecord
  /\ pairings = [s \in Site |-> [p \in PairingId |-> NoPairing]]
  /\ admin = [a \in Admin |-> Idle]
  /\ candidates = [e \in Epic |-> {}]
  /\ run = [r \in Run |-> Idle]
  /\ sent = {} /\ claims = {}
  /\ handler = [h \in Handler |-> Idle]
  /\ queued = {}
  /\ bound = [s \in Site |-> {}]
  /\ forwarded = [k \in Key |-> 0]
  /\ barredAtSource = [k \in Key |-> {}]
  /\ barredAtDestination = [k \in Key |-> {}]

source == <<candidates, run, sent, queued, barredAtSource>>
destination == <<claims, handler, forwarded, barredAtDestination>>
binding == <<pairings, admin, bound>>

AdminGoes(a, state) == admin' = [admin EXCEPT ![a] = state]
RunGoes(r, state) == run' = [run EXCEPT ![r] = state]
HandlerGoes(h, state) == handler' = [handler EXCEPT ![h] = state]

-----------------------------------------------------------------------------
(* The checks.                                                             *)

\* evaluatePeerCxAuthorization, of a status read and a lease judged.
PeerCxAuthorized(status, inLease) == status = "active" /\ inLease

InLease(site, x) == x \notin ended[site]

NotInForce(site) ==
  {x \in PeerCxId : ~PeerCxAuthorized(peerCx[site][x], InLease(site, x))}

\* Mutants of authorizePeerRoute: the PeerCX's status, the Pairing's Epic,
\* or its allowlist is not looked at.
RouteWithoutStatus(status, inLease, pairing, x, epic) ==
  /\ inLease
  /\ pairing # NoPairing /\ pairing.peerCxId = x
  /\ Delivery \in pairing.allowedOperations
  /\ pairing.sourceEpicKey = epic
RouteWithoutEpic(status, inLease, pairing, x, epic) ==
  /\ PeerCxAuthorized(status, inLease)
  /\ pairing # NoPairing /\ pairing.peerCxId = x
  /\ Delivery \in pairing.allowedOperations

\* Site trust, the exact Pairing, its allowlist, the one Epic it binds.
authorizePeerRoute(status, inLease, pairing, x, epic) ==
  /\ PeerCxAuthorized(status, inLease)
  /\ pairing # NoPairing /\ pairing.peerCxId = x
  /\ Delivery \in pairing.allowedOperations
  /\ pairing.sourceEpicKey = epic

\* Mutant of authorizePairing: the agreed scope is not consulted.
AuthorizeAnyScope(site, status, b) ==
  /\ PeerCxAuthorized(status, InLease(site, b.peerCxId))
  /\ b.allowedOperations # {}

\* A Pairing is authorized under an active PeerCX in lease, for operations the
\* terms this tenant has on record agree to.
authorizePairing(site, status, b) ==
  /\ PeerCxAuthorized(status, InLease(site, b.peerCxId))
  /\ b.allowedOperations # {}
  /\ b.allowedOperations \subseteq agreed[site]

-----------------------------------------------------------------------------
(* Administrators.                                                         *)

\* Reads the setup state and the Pairings, and decides; the Pairing replaces
\* one of its ID.  The two reads are one step here: between them another
\* authorization could be stored, which this one would then not undo.
AuthorizePairing(a, site, p, b) ==
  /\ admin[a].step = "idle"
  /\ authorizePairing(site, peerCx[site][b.peerCxId], b)
  /\ AdminGoes(a, [step |-> "writing", site |-> site, pairingId |-> p,
                   binding |-> b,
                   pairings |-> [pairings[site] EXCEPT ![p] = b]])
  /\ UNCHANGED <<peerCx, ended, agreed, pairings, bound, source, destination>>

WritePairing(a) ==
  LET at == admin[a] IN
  /\ at.step = "writing"
  /\ pairings' = [pairings EXCEPT ![at.site] = at.pairings]
  /\ bound' = [bound EXCEPT ![at.site] = @ \cup {<<at.pairingId, at.binding>>}]
  /\ AdminGoes(a, Idle)
  /\ UNCHANGED <<peerCx, ended, agreed, source, destination>>

\* Mutant of RevokePeerCx: the PeerCX is erased.
ErasePeerCx(site, x) ==
  /\ peerCx[site][x] = "active"
  /\ peerCx' = [peerCx EXCEPT ![site][x] = "none"]
  /\ UNCHANGED <<ended, agreed, binding, source, destination>>

RevokePeerCx(site, x) ==
  /\ peerCx[site][x] = "active"
  /\ peerCx' = [peerCx EXCEPT ![site][x] = "revoked"]
  /\ UNCHANGED <<ended, agreed, binding, source, destination>>

LeaseEnds(site, x) ==
  /\ InLease(site, x)
  /\ ended' = [ended EXCEPT ![site] = @ \cup {x}]
  /\ UNCHANGED <<peerCx, agreed, binding, source, destination>>

-----------------------------------------------------------------------------
(* Source: publishWorkPackage.                                             *)

\* A publication that passes preflight; every invocation has a key of its own.
QueueCandidate(r, key, epic) ==
  /\ run[r].step = "idle"
  /\ key \notin queued /\ \A q \in Run : run[q] # Idle => run[q].key # key
  /\ RunGoes(r, [step |-> "queueing", key |-> key, epic |-> epic,
                 state |-> candidates[epic] \cup {key}])
  /\ barredAtSource' = [barredAtSource EXCEPT ![key] = NotInForce("source")]
  /\ UNCHANGED <<peerCx, ended, agreed, binding, candidates, sent, queued, destination>>

\* The candidate is stored before anything is sent.
SaveCandidate(r) ==
  LET at == run[r] IN
  /\ at.step = "queueing"
  /\ candidates' = [candidates EXCEPT ![at.epic] = at.state]
  /\ queued' = queued \cup {at.key}
  /\ RunGoes(r, [step |-> "resolving", key |-> at.key, epic |-> at.epic])
  /\ UNCHANGED <<peerCx, ended, agreed, binding, sent, barredAtSource, destination>>

\* An active Pairing of the Epic, or the publication fails.
ResolveSourcePairing(r) ==
  LET at == run[r]
      own == pairings["source"]
      ofEpic == {p \in PairingId :
                   own[p] # NoPairing /\ own[p].sourceEpicKey = at.epic}
  IN /\ at.step = "resolving"
     /\ IF ofEpic = {} THEN RunGoes(r, Idle)
        ELSE \E p \in ofEpic :
               RunGoes(r, [step |-> "sending", key |-> at.key, epic |-> at.epic,
                           pairingId |-> p, pairing |-> own[p]])
     /\ UNCHANGED <<peerCx, ended, agreed, binding, candidates, sent, queued,
                    barredAtSource, destination>>

\* The send gate reads the setup state and judges.
EmitLeanEvent(r) ==
  LET at == run[r]
      x == at.pairing.peerCxId
      authorized == authorizePeerRoute(peerCx["source"][x], InLease("source", x),
                                       at.pairing, x, at.epic)
  IN /\ at.step = "sending"
     /\ RunGoes(r, IF authorized THEN [at EXCEPT !.step = "posting"] ELSE Idle)
     /\ UNCHANGED <<peerCx, ended, agreed, binding, candidates, sent, queued,
                    barredAtSource, destination>>

\* The post reaches the wire.  No answer changes the source's state.
PostEvent(r) ==
  LET at == run[r] IN
  /\ at.step = "posting"
  /\ RunGoes(r, Idle)
  /\ sent' = sent \cup {[key |-> at.key, pairingId |-> at.pairingId,
                         peerCxId |-> at.pairing.peerCxId, issueKey |-> at.epic]}
  /\ UNCHANGED <<peerCx, ended, agreed, binding, candidates, queued,
                 barredAtSource, destination>>

-----------------------------------------------------------------------------
(* Destination: receivePeerEvent.                                          *)

\* Mutant of ConsumeRequest: a request ID is not claimed.
ConsumeAnyRequest(h, e) ==
  /\ handler[h].step = "idle"
  /\ HandlerGoes(h, [step |-> "reading", envelope |-> e,
                     inLease |-> InLease("destination", e.peerCxId),
                     peerCx |-> Unread, pairing |-> Unread])
  /\ UNCHANGED <<peerCx, ended, agreed, binding, source, claims, forwarded,
                 barredAtDestination>>

\* The clock is read, then the request ID claimed; a request whose ID is
\* claimed is denied.
ConsumeRequest(h, e) ==
  /\ handler[h].step = "idle"
  /\ e.key \notin claims
  /\ claims' = claims \cup {e.key}
  /\ HandlerGoes(h, [step |-> "reading", envelope |-> e,
                     inLease |-> InLease("destination", e.peerCxId),
                     peerCx |-> Unread, pairing |-> Unread])
  /\ barredAtDestination' =
       [barredAtDestination EXCEPT ![e.key] = NotInForce("destination")]
  /\ UNCHANGED <<peerCx, ended, agreed, binding, source, forwarded>>

ReadForRoute(h) ==
  LET at == handler[h] IN
  /\ at.step = "reading"
  /\ \/ /\ at.peerCx = Unread
        /\ HandlerGoes(h, [at EXCEPT !.peerCx =
                             peerCx["destination"][at.envelope.peerCxId]])
     \/ /\ at.pairing = Unread
        /\ HandlerGoes(h, [at EXCEPT !.pairing =
                             pairings["destination"][at.envelope.pairingId]])
  /\ UNCHANGED <<peerCx, ended, agreed, binding, source, claims, forwarded,
                 barredAtDestination>>

\* Mutant of Granted: the Pairing alone is looked at.
GrantedByPairing(h) ==
  LET at == handler[h] IN
  /\ at.pairing # NoPairing /\ at.pairing.peerCxId = at.envelope.peerCxId
  /\ Delivery \in at.pairing.allowedOperations
  /\ at.pairing.sourceEpicKey = at.envelope.issueKey

\* What was read authorizes, or does not, and the event is posted at once.
Granted(h) ==
  LET at == handler[h] IN
  authorizePeerRoute(at.peerCx, at.inLease, at.pairing,
                     at.envelope.peerCxId, at.envelope.issueKey)

RouteRead(h) ==
  /\ handler[h].step = "reading"
  /\ handler[h].peerCx # Unread /\ handler[h].pairing # Unread

Forward(h) ==
  LET key == handler[h].envelope.key IN
  /\ RouteRead(h) /\ Granted(h)
  /\ forwarded' = [forwarded EXCEPT ![key] = @ + 1]
  /\ HandlerGoes(h, Idle)
  /\ UNCHANGED <<peerCx, ended, agreed, binding, source, claims, barredAtDestination>>

DenyRoute(h) ==
  /\ RouteRead(h) /\ ~Granted(h)
  /\ HandlerGoes(h, Idle)
  /\ UNCHANGED <<peerCx, ended, agreed, binding, source, claims, forwarded,
                 barredAtDestination>>

-----------------------------------------------------------------------------
(* A failed await, or Forge, ends an invocation where it is.               *)

KillAdmin(a) ==
  /\ admin[a].step # "idle"
  /\ AdminGoes(a, Idle)
  /\ UNCHANGED <<peerCx, ended, agreed, pairings, bound, source, destination>>
KillRun(r) ==
  /\ run[r].step # "idle"
  /\ RunGoes(r, Idle)
  /\ UNCHANGED <<peerCx, ended, agreed, binding, candidates, sent, queued,
                 barredAtSource, destination>>
KillHandler(h) ==
  /\ handler[h].step # "idle"
  /\ HandlerGoes(h, Idle)
  /\ UNCHANGED <<peerCx, ended, agreed, binding, source, claims, forwarded,
                 barredAtDestination>>

Authorizing(a) ==
  \/ \E site \in Site, p \in PairingId, b \in Proposed :
       AuthorizePairing(a, site, p, b)
  \/ WritePairing(a)
  \/ KillAdmin(a)

Publishing(r) ==
  \/ \E key \in Key, epic \in Epic : QueueCandidate(r, key, epic)
  \/ SaveCandidate(r)
  \/ ResolveSourcePairing(r)
  \/ EmitLeanEvent(r)
  \/ PostEvent(r)
  \/ KillRun(r)

Receiving(h) ==
  \/ \E e \in sent : ConsumeRequest(h, e)
  \/ ReadForRoute(h)
  \/ Forward(h)
  \/ DenyRoute(h)
  \/ KillHandler(h)

Next ==
  \/ \E a \in Admin : Authorizing(a)
  \/ \E r \in Run : Publishing(r)
  \/ \E h \in Handler : Receiving(h)
  \/ \E site \in Site, x \in PeerCxId : RevokePeerCx(site, x) \/ LeaseEnds(site, x)

Spec == Init /\ [][Next]_vars

-----------------------------------------------------------------------------
\* A publication's event reaches Automation at most once, and only after its
\* candidate was stored, however often its envelope is delivered.
AtMostOnce == \A k \in Key : forwarded[k] <= (IF k \in queued THEN 1 ELSE 0)

\* Both administrators stood behind every event that reached Automation: each
\* bound, at some time, this Pairing under this PeerCX to this Epic and allowed
\* the operation.  Neither site's word, nor another Pairing's, is enough.
BothAdministratorsBound ==
  \A e \in sent : forwarded[e.key] > 0 =>
    \A site \in Site : \E b \in Binding :
      /\ <<e.pairingId, b>> \in bound[site]
      /\ b.peerCxId = e.peerCxId
      /\ b.sourceEpicKey = e.issueKey
      /\ Delivery \in b.allowedOperations \cap agreed[site]

\* What begins after a revocation, or after the lease, comes to nothing: a
\* publication begun when its PeerCX was not in force at the source sends no
\* envelope under it, and a receiver handed an envelope when its PeerCX was not
\* in force at the destination does not forward it, whatever was on the wire
\* and whichever Pairings remain.  One at work before may still send or forward:
\* it acts on what it read.
RevocationStops ==
  \A e \in sent :
    /\ e.peerCxId \notin barredAtSource[e.key]
    /\ forwarded[e.key] > 0 => e.peerCxId \notin barredAtDestination[e.key]
=============================================================================
