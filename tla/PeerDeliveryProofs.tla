-------------------------- MODULE PeerDeliveryProofs ---------------------------
(***************************************************************************)
(* Delivery under any PeerCXs, Pairings, Epics and operations, and any     *)
(* number of publications, invocations of the receiver and administrators  *)
(* at once: an event is forwarded at most once, on both administrators'    *)
(* word, and not after a revocation.                                       *)
(***************************************************************************)
EXTENDS PeerDelivery, TLAPS

(* A key names one publication, one envelope and one forwarding.           *)

\* No two publications at work have the same key.
RunsApart ==
  \A q, r \in Run :
    run[q] # Idle /\ run[r] # Idle /\ run[q].key = run[r].key => q = r

\* A publication's key is new until its candidate is stored, and until it ends
\* nothing was sent under it.
RunsUnsent ==
  \A r \in Run :
    /\ run[r].step = "queueing" => run[r].key \notin queued
    /\ run[r].step \in {"resolving", "sending", "posting"} =>
         /\ run[r].key \in queued
         /\ \A e \in sent : e.key # run[r].key

SentOnce ==
  \A e \in sent : e.key \in queued /\ \A f \in sent : f.key = e.key => f = e

\* A claimed request is in one handler, or it has been handled.
ClaimedOnce ==
  /\ \A h \in Handler : handler[h] # Idle =>
       /\ handler[h].envelope \in sent
       /\ handler[h].envelope.key \in claims
       /\ forwarded[handler[h].envelope.key] = 0
       /\ \A i \in Handler :
            handler[i] # Idle /\ handler[i].envelope.key = handler[h].envelope.key
              => i = h
  /\ \A k \in claims : k \in queued /\ \E e \in sent : e.key = k
  /\ \A k \in Key : forwarded[k] <= 1 /\ (forwarded[k] > 0 => k \in claims)

Keys == RunsApart /\ RunsUnsent /\ SentOnce /\ ClaimedOnce

(* A Pairing in use is one its site's administrator bound.                  *)

BoundAgreed ==
  \A site \in Site, p \in PairingId, b \in Binding :
    <<p, b>> \in bound[site] => b.allowedOperations \subseteq agreed[site]

PairingsBound ==
  \A site \in Site, p \in PairingId :
    pairings[site][p] # NoPairing => <<p, pairings[site][p]>> \in bound[site]

\* An authorization about to write holds stored Pairings and its own.
AdminsBound ==
  \A a \in Admin : admin[a].step = "writing" =>
    /\ admin[a].binding.allowedOperations \subseteq agreed[admin[a].site]
    /\ \A p \in PairingId :
         \/ admin[a].pairings[p] = NoPairing
         \/ <<p, admin[a].pairings[p]>> \in
              bound[admin[a].site] \cup {<<admin[a].pairingId, admin[a].binding>>}

\* A publication posts only what its site's gate let through.
RunsBound ==
  \A r \in Run :
    /\ run[r].step \in {"sending", "posting"} =>
         <<run[r].pairingId, run[r].pairing>> \in bound["source"]
    /\ run[r].step = "posting" =>
         /\ Delivery \in run[r].pairing.allowedOperations
         /\ run[r].pairing.sourceEpicKey = run[r].epic

HandlersBound ==
  \A h \in Handler :
    handler[h].step = "reading" /\ handler[h].pairing \notin {Unread, NoPairing} =>
      <<handler[h].envelope.pairingId, handler[h].pairing>> \in bound["destination"]

\* The site's administrator bound what the envelope asks for.
Vouched(site, e) ==
  \E b \in Binding :
    /\ <<e.pairingId, b>> \in bound[site]
    /\ b.peerCxId = e.peerCxId
    /\ b.sourceEpicKey = e.issueKey
    /\ Delivery \in b.allowedOperations \cap agreed[site]

Bindings ==
  /\ BoundAgreed /\ PairingsBound /\ AdminsBound /\ RunsBound /\ HandlersBound
  /\ \A e \in sent : Vouched("source", e)
  /\ \A e \in sent : forwarded[e.key] > 0 => Vouched("destination", e)

(* What was barred when work on a key began stays barred to it.            *)

\* A PeerCX never comes back into force, so the gate stops what was barred.
SourceBars ==
  /\ \A k \in Key : barredAtSource[k] \subseteq NotInForce("source")
  /\ \A r \in Run : run[r].step = "posting" =>
       run[r].pairing.peerCxId \notin barredAtSource[run[r].key]

\* A handler judged the lease when it began, and reads a status that is final.
DestinationBars ==
  \A h \in Handler :
    /\ handler[h] # Idle
    /\ handler[h].envelope.peerCxId \in barredAtDestination[handler[h].envelope.key]
    => \/ ~handler[h].inLease
       \/ /\ peerCx["destination"][handler[h].envelope.peerCxId] = "revoked"
          /\ handler[h].peerCx \in {Unread, "revoked"}

Bars == SourceBars /\ DestinationBars /\ RevocationStops

-----------------------------------------------------------------------------
LEMMA InitType == Init => TypeOK
<1> SUFFICES ASSUME Init PROVE TypeOK
  OBVIOUS
<1>1. /\ admin \in [Admin -> AdminState]
      /\ run \in [Run -> RunState]
      /\ handler \in [Handler -> HandlerState]
  BY DEF Init, AdminState, RunState, HandlerState, Idle
<1>2. pairings \in [Site -> PeerPairingState]
  BY DEF Init, PeerPairingState
<1>3. agreed \in [Site -> SUBSET Operation]
  BY DeliveryAssumption DEF Init
<1>4. peerCx \in [Site -> [PeerCxId -> PeerCxStatus]]
  BY DEF Init, PeerCxStatus
<1>5. QED
  BY <1>1, <1>2, <1>3, <1>4 DEF Init, TypeOK

\* An authorization holds and writes a Pairing state.
LEMMA AuthorizingType ==
  ASSUME TypeOK, NEW a \in Admin, Authorizing(a)
  PROVE  TypeOK'
<1>1. ASSUME NEW site \in Site, NEW p \in PairingId, NEW b \in Proposed,
             AuthorizePairing(a, site, p, b)
      PROVE  TypeOK'
  <2>1. b \in Binding
    BY DeliveryAssumption
  <2>2. [pairings[site] EXCEPT ![p] = b] \in PeerPairingState
    BY <2>1 DEF TypeOK, PeerPairingState
  <2>3. admin' \in [Admin -> AdminState]
    BY <1>1, <2>1, <2>2 DEF AuthorizePairing, AdminGoes, TypeOK, AdminState
  <2>4. QED
    BY <1>1, <2>3 DEF AuthorizePairing, TypeOK, source, destination
<1>2. CASE WritePairing(a)
  <2>1. /\ admin[a].site \in Site /\ admin[a].pairings \in PeerPairingState
        /\ admin[a].pairingId \in PairingId /\ admin[a].binding \in Binding
    BY <1>2 DEF WritePairing, TypeOK, AdminState
  <2>2. admin' \in [Admin -> AdminState]
    BY <1>2 DEF WritePairing, AdminGoes, TypeOK, AdminState, Idle
  <2>3. pairings' \in [Site -> PeerPairingState]
    BY <1>2, <2>1 DEF WritePairing, TypeOK
  <2>4. bound' \in [Site -> SUBSET (PairingId \X Binding)]
    BY <1>2, <2>1 DEF WritePairing, TypeOK
  <2>5. QED
    BY <1>2, <2>2, <2>3, <2>4 DEF WritePairing, TypeOK, source, destination
<1>3. CASE KillAdmin(a)
  <2>1. admin' \in [Admin -> AdminState]
    BY <1>3 DEF KillAdmin, AdminGoes, TypeOK, AdminState, Idle
  <2>2. QED
    BY <1>3, <2>1 DEF KillAdmin, TypeOK, source, destination
<1>4. QED
  BY <1>1, <1>2, <1>3 DEF Authorizing

LEMMA PublishingType ==
  ASSUME TypeOK, NEW r \in Run, Publishing(r)
  PROVE  TypeOK'
<1>1. ASSUME NEW key \in Key, NEW epic \in Epic, QueueCandidate(r, key, epic)
      PROVE  TypeOK'
  <2>1. candidates[epic] \cup {key} \in SUBSET Key
    BY DEF TypeOK
  <2>2. run' \in [Run -> RunState]
    BY <1>1, <2>1 DEF QueueCandidate, RunGoes, TypeOK, RunState
  <2>3. barredAtSource' \in [Key -> SUBSET PeerCxId]
    BY <1>1 DEF QueueCandidate, NotInForce, TypeOK
  <2>4. QED
    BY <1>1, <2>2, <2>3 DEF QueueCandidate, TypeOK, binding, destination
<1>2. CASE SaveCandidate(r)
  <2>1. run[r].key \in Key /\ run[r].epic \in Epic /\ run[r].state \in SUBSET Key
    BY <1>2 DEF SaveCandidate, TypeOK, RunState
  <2>2. run' \in [Run -> RunState]
    BY <1>2, <2>1 DEF SaveCandidate, RunGoes, TypeOK, RunState
  <2>3. QED
    BY <1>2, <2>1, <2>2 DEF SaveCandidate, TypeOK, binding, destination
<1>3. CASE ResolveSourcePairing(r)
  <2>1. run[r].key \in Key /\ run[r].epic \in Epic
    BY <1>3 DEF ResolveSourcePairing, TypeOK, RunState
  <2>2. \A p \in PairingId :
          pairings["source"][p] # NoPairing => pairings["source"][p] \in Binding
    BY DEF TypeOK, Site, PeerPairingState
  <2>3. run' \in [Run -> RunState]
    <3>1. ASSUME NEW p \in PairingId, NEW b \in Binding
          PROVE  [step |-> "sending", key |-> run[r].key, epic |-> run[r].epic,
                  pairingId |-> p, pairing |-> b] \in RunState
      BY <2>1 DEF RunState
    <3>2. Idle \in RunState
      BY DEF RunState, Idle
    <3>3. \E state \in RunState : run' = [run EXCEPT ![r] = state]
      BY <1>3, <2>2, <3>1, <3>2 DEF ResolveSourcePairing, RunGoes
    <3>4. QED
      BY <3>3 DEF TypeOK
  <2>4. QED
    BY <1>3, <2>3 DEF ResolveSourcePairing, TypeOK, binding, destination
<1>4. CASE EmitLeanEvent(r)
  <2> DEFINE Gate == [step : {"sending", "posting"}, key : Key, epic : Epic,
                      pairingId : PairingId, pairing : Binding]
  <2>1. run[r] \in Gate
    BY <1>4 DEF EmitLeanEvent, TypeOK, RunState
  <2>2. [run[r] EXCEPT !.step = "posting"] \in Gate /\ Gate \subseteq RunState
    BY <2>1 DEF RunState
  <2>3. run' \in [Run -> RunState]
    <3>1. \/ run' = [run EXCEPT ![r] = [run[r] EXCEPT !.step = "posting"]]
          \/ run' = [run EXCEPT ![r] = Idle]
      BY <1>4 DEF EmitLeanEvent, RunGoes
    <3>2. Idle \in RunState
      BY DEF RunState, Idle
    <3>3. QED
      BY <2>2, <3>1, <3>2 DEF TypeOK
  <2>4. QED
    BY <1>4, <2>3 DEF EmitLeanEvent, TypeOK, binding, destination
<1>5. CASE PostEvent(r)
  <2>1. /\ run[r].key \in Key /\ run[r].epic \in Epic
        /\ run[r].pairingId \in PairingId /\ run[r].pairing \in Binding
    BY <1>5 DEF PostEvent, TypeOK, RunState
  <2>2. run[r].pairing.peerCxId \in PeerCxId
    BY <2>1 DEF Binding
  <2>3. run' \in [Run -> RunState]
    BY <1>5 DEF PostEvent, RunGoes, TypeOK, RunState, Idle
  <2>4. sent' \subseteq PeerOperationEnvelope
    BY <1>5, <2>1, <2>2 DEF PostEvent, TypeOK, PeerOperationEnvelope
  <2>5. QED
    BY <1>5, <2>3, <2>4 DEF PostEvent, TypeOK, binding, destination
<1>6. CASE KillRun(r)
  <2>1. run' \in [Run -> RunState]
    BY <1>6 DEF KillRun, RunGoes, TypeOK, RunState, Idle
  <2>2. QED
    BY <1>6, <2>1 DEF KillRun, TypeOK, binding, destination
<1>7. QED
  BY <1>1, <1>2, <1>3, <1>4, <1>5, <1>6 DEF Publishing

LEMMA ReceivingType ==
  ASSUME TypeOK, NEW h \in Handler, Receiving(h)
  PROVE  TypeOK'
<1>1. ASSUME NEW e \in sent, ConsumeRequest(h, e)
      PROVE  TypeOK'
  <2>1. e \in PeerOperationEnvelope /\ e.key \in Key
    BY DEF TypeOK, PeerOperationEnvelope
  <2>2. InLease("destination", e.peerCxId) \in BOOLEAN
    BY DEF InLease
  <2>3. handler' \in [Handler -> HandlerState]
    BY <1>1, <2>1, <2>2 DEF ConsumeRequest, HandlerGoes, TypeOK, HandlerState
  <2>4. barredAtDestination' \in [Key -> SUBSET PeerCxId]
    BY <1>1, <2>1 DEF ConsumeRequest, NotInForce, TypeOK
  <2>5. QED
    BY <1>1, <2>1, <2>3, <2>4 DEF ConsumeRequest, TypeOK, binding, source
<1>2. CASE ReadForRoute(h)
  <2>1. /\ handler[h].envelope \in PeerOperationEnvelope
        /\ handler[h] \in HandlerState /\ handler[h].step = "reading"
    BY <1>2 DEF ReadForRoute, TypeOK, HandlerState
  <2>2. /\ peerCx["destination"][handler[h].envelope.peerCxId] \in PeerCxStatus
        /\ pairings["destination"][handler[h].envelope.pairingId]
             \in Binding \cup {NoPairing}
    BY <2>1 DEF TypeOK, Site, PeerPairingState, PeerOperationEnvelope
  <2>3. /\ [handler[h] EXCEPT !.peerCx =
               peerCx["destination"][handler[h].envelope.peerCxId]] \in HandlerState
        /\ [handler[h] EXCEPT !.pairing =
               pairings["destination"][handler[h].envelope.pairingId]] \in HandlerState
    BY <2>1, <2>2 DEF HandlerState
  <2>4. handler' \in [Handler -> HandlerState]
    BY <1>2, <2>3 DEF ReadForRoute, HandlerGoes, TypeOK
  <2>5. QED
    BY <1>2, <2>4 DEF ReadForRoute, TypeOK, binding, source
<1>3. CASE Forward(h)
  <2>1. handler[h].envelope.key \in Key
    BY <1>3 DEF Forward, RouteRead, TypeOK, HandlerState, PeerOperationEnvelope
  <2>2. handler' \in [Handler -> HandlerState]
    BY <1>3 DEF Forward, HandlerGoes, TypeOK, HandlerState, Idle
  <2>3. forwarded' \in [Key -> Nat]
    BY <1>3, <2>1 DEF Forward, TypeOK
  <2>4. QED
    BY <1>3, <2>2, <2>3 DEF Forward, TypeOK, binding, source
<1>4. CASE DenyRoute(h) \/ KillHandler(h)
  <2>1. handler' \in [Handler -> HandlerState]
    <3>1. handler' = [handler EXCEPT ![h] = Idle]
      BY <1>4 DEF DenyRoute, KillHandler, HandlerGoes
    <3>2. Idle \in HandlerState
      BY DEF HandlerState, Idle
    <3>3. QED
      BY <3>1, <3>2 DEF TypeOK
  <2>2. QED
    BY <1>4, <2>1 DEF DenyRoute, KillHandler, TypeOK, binding, source
<1>5. QED
  BY <1>1, <1>2, <1>3, <1>4 DEF Receiving

\* A revocation and the end of a lease change nothing but themselves.
LEMMA Ending ==
  ASSUME TypeOK, NEW site \in Site, NEW x \in PeerCxId,
         RevokePeerCx(site, x) \/ LeaseEnds(site, x)
  PROVE  /\ TypeOK'
         /\ UNCHANGED <<agreed, pairings, admin, bound>>
         /\ UNCHANGED <<candidates, run, sent, queued, barredAtSource>>
         /\ UNCHANGED <<claims, handler, forwarded, barredAtDestination>>
<1>1. /\ UNCHANGED <<agreed, pairings, admin, bound>>
      /\ UNCHANGED <<candidates, run, sent, queued, barredAtSource>>
      /\ UNCHANGED <<claims, handler, forwarded, barredAtDestination>>
  BY DEF RevokePeerCx, LeaseEnds, binding, source, destination
<1>2. peerCx' \in [Site -> [PeerCxId -> PeerCxStatus]]
  <2>1. CASE RevokePeerCx(site, x)
    <3>1. [peerCx[site] EXCEPT ![x] = "revoked"] \in [PeerCxId -> PeerCxStatus]
      BY DEF TypeOK, PeerCxStatus
    <3>2. peerCx' = [peerCx EXCEPT ![site] = [peerCx[site] EXCEPT ![x] = "revoked"]]
      BY <2>1 DEF RevokePeerCx
    <3>3. QED
      BY <3>1, <3>2 DEF TypeOK
  <2>2. CASE LeaseEnds(site, x)
    BY <2>2 DEF LeaseEnds, TypeOK
  <2>3. QED
    BY <2>1, <2>2
<1>3. ended' \in [Site -> SUBSET PeerCxId]
  BY DEF RevokePeerCx, LeaseEnds, TypeOK
<1>4. QED
  BY <1>1, <1>2, <1>3 DEF TypeOK

LEMMA StepType == TypeOK /\ [Next]_vars => TypeOK'
<1> SUFFICES ASSUME TypeOK, [Next]_vars PROVE TypeOK'
  OBVIOUS
<1>1. CASE UNCHANGED vars
  BY <1>1 DEF vars, TypeOK
<1>2. QED
  BY <1>1, AuthorizingType, PublishingType, ReceivingType, Ending DEF Next

-----------------------------------------------------------------------------
LEMMA InitKeys == Init => Keys
  BY DEF Init, Keys, RunsApart, RunsUnsent, SentOnce, ClaimedOnce, Idle

\* What handlers hold is unaffected by what is queued and sent besides.
LEMMA ClaimsKept ==
  ASSUME ClaimedOnce, UNCHANGED <<claims, handler, forwarded>>,
         sent \subseteq sent', queued \subseteq queued'
  PROVE  ClaimedOnce'
  BY DEF ClaimedOnce

\* The send gate keeps what the publication holds, or ends it.
LEMMA GateStep ==
  ASSUME TypeOK, NEW r \in Run, EmitLeanEvent(r)
  PROVE  /\ run[r].step = "sending" /\ run[r] # Idle
         /\ \/ run'[r] = Idle
            \/ /\ run'[r].step = "posting" /\ run'[r].key = run[r].key
               /\ run'[r].epic = run[r].epic
               /\ run'[r].pairingId = run[r].pairingId
               /\ run'[r].pairing = run[r].pairing
               /\ authorizePeerRoute(
                    peerCx["source"][run[r].pairing.peerCxId],
                    InLease("source", run[r].pairing.peerCxId),
                    run[r].pairing, run[r].pairing.peerCxId, run[r].epic)
<1> DEFINE at == run[r]
           authorized == authorizePeerRoute(
             peerCx["source"][at.pairing.peerCxId],
             InLease("source", at.pairing.peerCxId),
             at.pairing, at.pairing.peerCxId, at.epic)
<1>1. at \in [step : {"sending", "posting"}, key : Key, epic : Epic,
              pairingId : PairingId, pairing : Binding] /\ at.step = "sending"
  BY DEF EmitLeanEvent, TypeOK, RunState
<1>2. run'[r] = IF authorized THEN [at EXCEPT !.step = "posting"] ELSE Idle
  BY DEF EmitLeanEvent, RunGoes, TypeOK
<1>3. at # Idle
  BY <1>1 DEF Idle
<1> HIDE DEF at, authorized
<1>4. \/ run'[r] = Idle
      \/ /\ run'[r].step = "posting" /\ run'[r].key = at.key
         /\ run'[r].epic = at.epic /\ run'[r].pairingId = at.pairingId
         /\ run'[r].pairing = at.pairing /\ authorized
  BY <1>1, <1>2
<1>5. QED
  BY <1>1, <1>3, <1>4 DEF at, authorized

\* A publication takes a new key through its steps, and sends once under it.
LEMMA PublishingKeys ==
  ASSUME TypeOK, Keys, NEW r \in Run, Publishing(r)
  PROVE  Keys'
<1>1. UNCHANGED <<claims, handler, forwarded>>
  BY DEF Publishing, QueueCandidate, SaveCandidate, ResolveSourcePairing,
     EmitLeanEvent, PostEvent, KillRun, destination
<1>2. \A q \in Run \ {r} : run'[q] = run[q]
  BY DEF Publishing, QueueCandidate, SaveCandidate, ResolveSourcePairing,
     EmitLeanEvent, PostEvent, KillRun, RunGoes, TypeOK
<1>3. ASSUME NEW key \in Key, NEW epic \in Epic, QueueCandidate(r, key, epic)
      PROVE  Keys'
  <2>1. /\ run'[r].key = key /\ run'[r].step = "queueing"
        /\ key \notin queued /\ \A q \in Run : run[q] # Idle => run[q].key # key
        /\ UNCHANGED <<sent, queued>>
    BY <1>3 DEF QueueCandidate, RunGoes, TypeOK
  <2>2. RunsApart' /\ RunsUnsent'
    BY <1>2, <2>1 DEF Keys, RunsApart, RunsUnsent, TypeOK
  <2>3. SentOnce' /\ ClaimedOnce'
    BY <1>1, <2>1, ClaimsKept DEF Keys, SentOnce
  <2>4. QED
    BY <2>2, <2>3 DEF Keys
<1>4. CASE SaveCandidate(r)
  <2>1. /\ run[r] # Idle /\ run[r].step = "queueing"
        /\ run'[r].key = run[r].key /\ run'[r].step = "resolving"
        /\ queued' = queued \cup {run[r].key} /\ sent' = sent
    BY <1>4 DEF SaveCandidate, RunGoes, TypeOK, Idle
  <2>2. RunsApart'
    BY <1>2, <2>1 DEF Keys, RunsApart
  <2>3. RunsUnsent'
    <3>1. \A q \in Run \ {r} : run[q].step = "queueing" => run[q].key # run[r].key
      BY <2>1 DEF Keys, RunsApart, Idle
    <3>2. \A e \in sent : e.key # run[r].key
      BY <2>1 DEF Keys, RunsUnsent, SentOnce
    <3>3. QED
      BY <1>2, <2>1, <3>1, <3>2 DEF Keys, RunsUnsent
  <2>4. SentOnce' /\ ClaimedOnce'
    BY <1>1, <2>1, ClaimsKept DEF Keys, SentOnce
  <2>5. QED
    BY <2>2, <2>3, <2>4 DEF Keys
<1>5. CASE ResolveSourcePairing(r)
  <2>1. /\ run[r] # Idle /\ run[r].step = "resolving"
        /\ \/ run'[r] = Idle
           \/ run'[r].key = run[r].key /\ run'[r].step = "sending"
        /\ UNCHANGED <<sent, queued>>
    BY <1>5 DEF ResolveSourcePairing, RunGoes, TypeOK, Idle
  <2>2. RunsApart' /\ RunsUnsent'
    BY <1>2, <2>1 DEF Keys, RunsApart, RunsUnsent, Idle
  <2>3. SentOnce' /\ ClaimedOnce'
    BY <1>1, <2>1, ClaimsKept DEF Keys, SentOnce
  <2>4. QED
    BY <2>2, <2>3 DEF Keys
<1>6. CASE EmitLeanEvent(r)
  <2>1. UNCHANGED <<sent, queued>>
    BY <1>6 DEF EmitLeanEvent
  <2>2. RunsApart' /\ RunsUnsent'
    BY <1>2, <1>6, <2>1, GateStep DEF Keys, RunsApart, RunsUnsent, Idle
  <2>3. SentOnce' /\ ClaimedOnce'
    BY <1>1, <2>1, ClaimsKept DEF Keys, SentOnce
  <2>4. QED
    BY <2>2, <2>3 DEF Keys
<1>7. CASE PostEvent(r) \/ KillRun(r)
  <2>1. PICK new : /\ sent' = sent \cup new /\ run'[r] = Idle /\ run[r] # Idle
                   /\ UNCHANGED queued
                   /\ \/ new = {}
                      \/ run[r].step = "posting"
                         /\ \E e : new = {e} /\ e.key = run[r].key
    <3>1. CASE PostEvent(r)
      <4> DEFINE envelope == [key |-> run[r].key, pairingId |-> run[r].pairingId,
                              peerCxId |-> run[r].pairing.peerCxId,
                              issueKey |-> run[r].epic]
      <4>1. sent' = sent \cup {envelope}
        BY <3>1 DEF PostEvent
      <4>2. run'[r] = Idle /\ run[r] # Idle /\ run[r].step = "posting"
            /\ queued' = queued
        BY <3>1 DEF PostEvent, RunGoes, TypeOK, Idle
      <4>3. envelope.key = run[r].key
        OBVIOUS
      <4> HIDE DEF envelope
      <4>4. QED
        BY <4>1, <4>2, <4>3
    <3>2. CASE KillRun(r)
      <4>1. sent' = sent \cup {} /\ run'[r] = Idle /\ run[r] # Idle
            /\ queued' = queued
        BY <3>2 DEF KillRun, RunGoes, TypeOK, Idle
      <4>2. QED
        BY <4>1
    <3>3. QED
      BY <1>7, <3>1, <3>2
  <2>2. RunsApart'
    BY <1>2, <2>1 DEF Keys, RunsApart
  <2>3. RunsUnsent'
    <3>1. \A q \in Run \ {r} : run[q] # Idle => run[q].key # run[r].key
      BY <2>1 DEF Keys, RunsApart
    <3>2. \A q \in Run \ {r} : run[q] # Idle => \A e \in sent' \ sent : e.key # run[q].key
      BY <2>1, <3>1
    <3>3. QED
      BY <1>2, <2>1, <3>2 DEF Keys, RunsUnsent, Idle
  <2>4. SentOnce'
    BY <2>1 DEF Keys, RunsUnsent, SentOnce
  <2>5. ClaimedOnce'
    BY <1>1, <2>1, ClaimsKept DEF Keys
  <2>6. QED
    BY <2>2, <2>3, <2>4, <2>5 DEF Keys
<1>8. QED
  BY <1>3, <1>4, <1>5, <1>6, <1>7 DEF Publishing

\* A read for the route leaves the envelope alone, and what was read before.
LEMMA ReadingKeeps ==
  ASSUME NEW at \in HandlerState, at.step = "reading", NEW value
  PROVE  /\ [at EXCEPT !.peerCx = value].envelope = at.envelope
         /\ [at EXCEPT !.peerCx = value].pairing = at.pairing
         /\ [at EXCEPT !.peerCx = value].peerCx = value
         /\ [at EXCEPT !.peerCx = value].inLease = at.inLease
         /\ [at EXCEPT !.peerCx = value].step = "reading"
         /\ [at EXCEPT !.pairing = value].envelope = at.envelope
         /\ [at EXCEPT !.pairing = value].pairing = value
         /\ [at EXCEPT !.pairing = value].peerCx = at.peerCx
         /\ [at EXCEPT !.pairing = value].inLease = at.inLease
         /\ [at EXCEPT !.pairing = value].step = "reading"
<1>1. at \in [step : {"reading"}, envelope : PeerOperationEnvelope,
              inLease : BOOLEAN, peerCx : PeerCxStatus \cup {Unread},
              pairing : Binding \cup {NoPairing, Unread}]
  BY DEF HandlerState
<1>2. QED
  BY <1>1

LEMMA ReadStep ==
  ASSUME TypeOK, NEW h \in Handler, ReadForRoute(h)
  PROVE  /\ handler[h].step = "reading" /\ handler'[h].step = "reading"
         /\ handler'[h].envelope = handler[h].envelope
         /\ handler'[h].inLease = handler[h].inLease
         /\ \/ handler'[h].peerCx = handler[h].peerCx
            \/ handler'[h].peerCx =
                 peerCx["destination"][handler[h].envelope.peerCxId]
         /\ \/ handler'[h].pairing = handler[h].pairing
            \/ handler'[h].pairing =
                 pairings["destination"][handler[h].envelope.pairingId]
<1> DEFINE at == handler[h]
           status == peerCx["destination"][at.envelope.peerCxId]
           pairing == pairings["destination"][at.envelope.pairingId]
<1>1. at \in HandlerState /\ at.step = "reading"
  BY DEF ReadForRoute, TypeOK
<1>2. \/ handler' = [handler EXCEPT ![h] = [at EXCEPT !.peerCx = status]]
      \/ handler' = [handler EXCEPT ![h] = [at EXCEPT !.pairing = pairing]]
  BY DEF ReadForRoute, HandlerGoes
<1>3. DOMAIN handler = Handler
  BY DEF TypeOK
<1> HIDE DEF at, status, pairing
<1>4. \/ handler'[h] = [at EXCEPT !.peerCx = status]
      \/ handler'[h] = [at EXCEPT !.pairing = pairing]
  BY <1>2, <1>3
<1>5. CASE handler'[h] = [at EXCEPT !.peerCx = status]
  <2>1. /\ handler'[h].envelope = at.envelope /\ handler'[h].step = "reading"
        /\ handler'[h].pairing = at.pairing /\ handler'[h].peerCx = status
        /\ handler'[h].inLease = at.inLease
    BY <1>1, <1>5, ReadingKeeps
  <2>2. QED
    BY <1>1, <2>1 DEF at, status
<1>6. CASE handler'[h] = [at EXCEPT !.pairing = pairing]
  <2>1. /\ handler'[h].envelope = at.envelope /\ handler'[h].step = "reading"
        /\ handler'[h].pairing = pairing /\ handler'[h].peerCx = at.peerCx
        /\ handler'[h].inLease = at.inLease
    BY <1>1, <1>6, ReadingKeeps
  <2>2. QED
    BY <1>1, <2>1 DEF at, pairing
<1>7. QED
  BY <1>4, <1>5, <1>6

\* The receiver claims a request before it handles it, and handles it once.
LEMMA ReceivingKeys ==
  ASSUME TypeOK, Keys, NEW h \in Handler, Receiving(h)
  PROVE  Keys'
<1>1. UNCHANGED <<run, sent, queued>>
  BY DEF Receiving, ConsumeRequest, ReadForRoute, Forward, DenyRoute,
     KillHandler, source
<1>2. RunsApart' /\ RunsUnsent' /\ SentOnce'
  BY <1>1 DEF Keys, RunsApart, RunsUnsent, SentOnce
<1>3. \A i \in Handler \ {h} : handler'[i] = handler[i]
  BY DEF Receiving, ConsumeRequest, ReadForRoute, Forward, DenyRoute,
     KillHandler, HandlerGoes, TypeOK
<1>4. ASSUME NEW e \in sent, ConsumeRequest(h, e)
      PROVE  ClaimedOnce'
  <2>1. /\ handler'[h].envelope = e /\ e.key \notin claims
        /\ claims' = claims \cup {e.key} /\ forwarded' = forwarded
    BY <1>4 DEF ConsumeRequest, HandlerGoes, TypeOK
  <2>2. e.key \in Key /\ e.key \in queued
    BY DEF TypeOK, PeerOperationEnvelope, Keys, SentOnce
  <2>3. forwarded[e.key] = 0
    BY <2>1, <2>2 DEF Keys, ClaimedOnce, TypeOK
  <2>4. QED
    BY <1>1, <1>3, <2>1, <2>2, <2>3 DEF Keys, ClaimedOnce
<1>5. CASE ReadForRoute(h)
  <2>1. /\ handler[h] # Idle /\ handler'[h].envelope = handler[h].envelope
        /\ UNCHANGED <<claims, forwarded>>
    BY <1>5, ReadStep DEF ReadForRoute, Idle
  <2>2. QED
    BY <1>1, <1>2, <1>3, <2>1 DEF Keys, ClaimedOnce
<1>6. CASE Forward(h)
  <2>1. /\ handler[h] # Idle /\ handler'[h] = Idle /\ claims' = claims
        /\ forwarded' = [forwarded EXCEPT ![handler[h].envelope.key] = @ + 1]
    BY <1>6 DEF Forward, RouteRead, HandlerGoes, TypeOK, Idle
  <2>2. /\ forwarded[handler[h].envelope.key] = 0
        /\ handler[h].envelope.key \in claims
    BY <2>1 DEF Keys, ClaimedOnce
  <2>3. \A k \in Key : forwarded'[k] <= 1 /\ (forwarded'[k] > 0 => k \in claims)
    <3> SUFFICES ASSUME NEW k \in Key
                 PROVE  forwarded'[k] <= 1 /\ (forwarded'[k] > 0 => k \in claims)
      OBVIOUS
    <3>1. CASE k = handler[h].envelope.key
      BY <2>1, <2>2, <3>1 DEF TypeOK
    <3>2. CASE k # handler[h].envelope.key
      BY <2>1, <3>2 DEF Keys, ClaimedOnce, TypeOK
    <3>3. QED
      BY <3>1, <3>2
  <2>4. \A i \in Handler \ {h} : handler[i] # Idle =>
          forwarded'[handler[i].envelope.key] = forwarded[handler[i].envelope.key]
    BY <2>1 DEF Keys, ClaimedOnce, TypeOK
  <2>5. QED
    BY <1>1, <1>2, <1>3, <2>1, <2>3, <2>4 DEF Keys, ClaimedOnce
<1>7. CASE DenyRoute(h) \/ KillHandler(h)
  <2>1. handler'[h] = Idle /\ UNCHANGED <<claims, forwarded>>
    BY <1>7 DEF DenyRoute, KillHandler, HandlerGoes, TypeOK
  <2>2. QED
    BY <1>1, <1>2, <1>3, <2>1 DEF Keys, ClaimedOnce
<1>8. QED
  BY <1>2, <1>4, <1>5, <1>6, <1>7 DEF Receiving, Keys

LEMMA StepKeys == TypeOK /\ Keys /\ [Next]_vars => Keys'
<1> SUFFICES ASSUME TypeOK, Keys, [Next]_vars PROVE Keys'
  OBVIOUS
<1>1. ASSUME UNCHANGED <<run, sent, queued>>, UNCHANGED <<claims, handler, forwarded>>
      PROVE  Keys'
  BY <1>1 DEF Keys, RunsApart, RunsUnsent, SentOnce, ClaimedOnce
<1>2. ASSUME NEW a \in Admin, Authorizing(a) PROVE Keys'
  BY <1>1, <1>2 DEF Authorizing, AuthorizePairing, WritePairing, KillAdmin,
     source, destination
<1>3. CASE UNCHANGED vars
  BY <1>1, <1>3 DEF vars
<1>4. QED
  BY <1>1, <1>2, <1>3, PublishingKeys, ReceivingKeys, Ending DEF Next

-----------------------------------------------------------------------------
LEMMA InitBindings == Init => Bindings
<1> SUFFICES ASSUME Init PROVE Bindings
  OBVIOUS
<1>1. BoundAgreed /\ PairingsBound
  BY DEF Init, BoundAgreed, PairingsBound
<1>2. AdminsBound /\ RunsBound /\ HandlersBound
  BY DEF Init, AdminsBound, RunsBound, HandlersBound, Idle
<1>3. sent = {}
  BY DEF Init
<1>4. QED
  BY <1>1, <1>2, <1>3 DEF Bindings

\* What a site's administrator bound stays bound, and the terms stay agreed.
LEMMA BoundGrows ==
  ASSUME TypeOK, [Next]_vars
  PROVE  agreed' = agreed /\ \A site \in Site : bound[site] \subseteq bound'[site]
<1>1. agreed' = agreed
  BY Ending DEF Next, vars, Authorizing, AuthorizePairing, WritePairing, KillAdmin,
     Publishing, QueueCandidate, SaveCandidate, ResolveSourcePairing,
     EmitLeanEvent, PostEvent, KillRun, Receiving, ConsumeRequest, ReadForRoute, Forward,
     DenyRoute, KillHandler
<1>2. bound' = bound \/ \E a \in Admin : WritePairing(a)
  BY Ending DEF Next, vars, Authorizing, AuthorizePairing, KillAdmin,
     Publishing, QueueCandidate, SaveCandidate, ResolveSourcePairing,
     EmitLeanEvent, PostEvent, KillRun, Receiving, ConsumeRequest, ReadForRoute, Forward,
     DenyRoute, KillHandler, binding
<1>3. ASSUME NEW a \in Admin, WritePairing(a), NEW site \in Site
      PROVE  bound[site] \subseteq bound'[site]
  BY <1>3 DEF WritePairing, TypeOK
<1>4. QED
  BY <1>1, <1>2, <1>3

LEMMA StillVouched ==
  ASSUME TypeOK, [Next]_vars, NEW site \in Site, NEW e, Vouched(site, e)
  PROVE  Vouched(site, e)'
  BY BoundGrows DEF Vouched

\* Authorizations bind what they write, within the terms agreed.
LEMMA AuthorizingBindings ==
  ASSUME TypeOK, Bindings, NEW a \in Admin, Authorizing(a), [Next]_vars
  PROVE  Bindings'
<1>1. UNCHANGED <<run, sent, handler, forwarded, agreed>>
  BY DEF Authorizing, AuthorizePairing, WritePairing, KillAdmin, source, destination
<1>2. \A site \in Site : bound[site] \subseteq bound'[site]
  BY BoundGrows
<1>3. /\ RunsBound' /\ HandlersBound'
      /\ \A e \in sent' : Vouched("source", e)'
      /\ \A e \in sent' : forwarded'[e.key] > 0 => Vouched("destination", e)'
  <2>1. RunsBound' /\ HandlersBound'
    BY <1>1, <1>2 DEF Bindings, RunsBound, HandlersBound, Site
  <2>2. QED
    BY <1>1, <2>1, StillVouched DEF Bindings, Site
<1>4. \A x \in Admin \ {a} : admin'[x] = admin[x]
  BY DEF Authorizing, AuthorizePairing, WritePairing, KillAdmin, AdminGoes, TypeOK
<1>5. ASSUME NEW site \in Site, NEW p \in PairingId, NEW b \in Proposed,
             AuthorizePairing(a, site, p, b)
      PROVE  BoundAgreed' /\ PairingsBound' /\ AdminsBound'
  <2>1. /\ admin'[a] = [step |-> "writing", site |-> site, pairingId |-> p,
                        binding |-> b,
                        pairings |-> [pairings[site] EXCEPT ![p] = b]]
        /\ b.allowedOperations \subseteq agreed[site]
        /\ UNCHANGED <<pairings, bound>>
    BY <1>5 DEF AuthorizePairing, authorizePairing, AdminGoes, TypeOK
  <2>2. \A q \in PairingId :
          [pairings[site] EXCEPT ![p] = b][q] = (IF q = p THEN b ELSE pairings[site][q])
    BY DEF TypeOK, PeerPairingState
  <2>3. \A q \in PairingId :
          \/ admin'[a].pairings[q] = NoPairing
          \/ <<q, admin'[a].pairings[q]>> \in bound[site] \cup {<<p, b>>}
    <3>1. admin'[a].pairings = [pairings[site] EXCEPT ![p] = b]
      BY <2>1
    <3>2. \A q \in PairingId : pairings[site][q] # NoPairing =>
            <<q, pairings[site][q]>> \in bound[site]
      BY DEF Bindings, PairingsBound
    <3>3. QED
      BY <2>2, <3>1, <3>2
  <2>4. AdminsBound'
    <3>1. /\ admin'[a].binding = b /\ admin'[a].site = site
          /\ admin'[a].pairingId = p
      BY <2>1
    <3>2. \A q \in PairingId :
            \/ admin'[a].pairings[q] = NoPairing
            \/ <<q, admin'[a].pairings[q]>> \in
                 bound'[admin'[a].site]
                   \cup {<<admin'[a].pairingId, admin'[a].binding>>}
      BY <2>1, <2>3, <3>1
    <3>3. admin'[a].binding.allowedOperations \subseteq agreed'[admin'[a].site]
      BY <1>1, <2>1, <3>1
    <3>4. ASSUME NEW x \in Admin \ {a}, admin[x].step = "writing"
          PROVE  /\ admin[x].binding.allowedOperations \subseteq agreed'[admin[x].site]
                 /\ \A q \in PairingId :
                      \/ admin[x].pairings[q] = NoPairing
                      \/ <<q, admin[x].pairings[q]>> \in
                           bound'[admin[x].site]
                             \cup {<<admin[x].pairingId, admin[x].binding>>}
      BY <1>1, <2>1, <3>4 DEF Bindings, AdminsBound
    <3>5. QED
      BY <1>4, <3>2, <3>3, <3>4 DEF AdminsBound
  <2>5. QED
    BY <1>1, <2>1, <2>4 DEF Bindings, BoundAgreed, PairingsBound
<1>6. CASE WritePairing(a)
  <2> DEFINE own == admin[a]
  <2>1. /\ own.step = "writing" /\ admin'[a] = Idle
        /\ pairings' = [pairings EXCEPT ![own.site] = own.pairings]
        /\ bound' = [bound EXCEPT ![own.site] =
                       @ \cup {<<own.pairingId, own.binding>>}]
    BY <1>6 DEF WritePairing, AdminGoes, TypeOK
  <2>2. own.site \in Site /\ own.binding \in Binding
    BY <2>1 DEF TypeOK, AdminState
  <2>3. /\ own.binding.allowedOperations \subseteq agreed[own.site]
        /\ \A p \in PairingId :
             \/ own.pairings[p] = NoPairing
             \/ <<p, own.pairings[p]>> \in
                  bound[own.site] \cup {<<own.pairingId, own.binding>>}
    BY <2>1 DEF Bindings, AdminsBound
  <2> HIDE DEF own
  <2>4. /\ bound'[own.site] = bound[own.site] \cup {<<own.pairingId, own.binding>>}
        /\ pairings'[own.site] = own.pairings
        /\ \A s \in Site \ {own.site} :
             bound'[s] = bound[s] /\ pairings'[s] = pairings[s]
    BY <2>1, <2>2 DEF TypeOK
  <2>5. BoundAgreed'
    BY <1>1, <2>2, <2>3, <2>4 DEF Bindings, BoundAgreed
  <2>6. PairingsBound'
    BY <2>2, <2>3, <2>4 DEF Bindings, PairingsBound
  <2>7. AdminsBound'
    <3>1. ASSUME NEW x \in Admin, admin'[x].step = "writing"
          PROVE  x # a /\ admin'[x] = admin[x] /\ admin[x].site \in Site
      BY <1>4, <2>1, <3>1 DEF Idle, TypeOK, AdminState
    <3>2. QED
      BY <1>1, <1>2, <3>1 DEF Bindings, AdminsBound
  <2>8. QED
    BY <1>3, <2>5, <2>6, <2>7 DEF Bindings
<1>7. CASE KillAdmin(a)
  <2>1. admin'[a] = Idle /\ UNCHANGED <<pairings, bound>>
    BY <1>7 DEF KillAdmin, AdminGoes, TypeOK
  <2>2. QED
    BY <1>1, <1>3, <1>4, <2>1 DEF Bindings, BoundAgreed, PairingsBound, AdminsBound, Idle
<1>8. QED
  BY <1>3, <1>5, <1>6, <1>7 DEF Authorizing, Bindings

\* Nothing is forwarded under a key before its envelope is sent.
LEMMA NothingForwardedYet ==
  ASSUME TypeOK, Keys, NEW r \in Run, run[r].step = "posting"
  PROVE  forwarded[run[r].key] = 0
<1>1. run[r].key \in Key
  BY DEF TypeOK, RunState
<1>2. run[r].key \notin claims
  BY <1>1 DEF Keys, RunsUnsent, ClaimedOnce
<1>3. QED
  BY <1>1, <1>2 DEF Keys, ClaimedOnce, TypeOK

\* A publication sends under a Pairing its own administrator bound.
LEMMA PublishingBindings ==
  ASSUME TypeOK, Keys, Bindings, NEW r \in Run, Publishing(r), [Next]_vars
  PROVE  Bindings'
<1>1. UNCHANGED <<agreed, pairings, admin, bound, handler, forwarded>>
  BY DEF Publishing, QueueCandidate, SaveCandidate, ResolveSourcePairing,
     EmitLeanEvent, PostEvent, KillRun, binding, destination
<1>2. BoundAgreed' /\ PairingsBound' /\ AdminsBound' /\ HandlersBound'
  BY <1>1 DEF Bindings, BoundAgreed, PairingsBound, AdminsBound, HandlersBound
<1>3. \A q \in Run \ {r} : run'[q] = run[q]
  BY DEF Publishing, QueueCandidate, SaveCandidate, ResolveSourcePairing,
     EmitLeanEvent, PostEvent, KillRun, RunGoes, TypeOK
<1>4. RunsBound'
  <2>1. /\ run'[r].step \in {"sending", "posting"} =>
             <<run'[r].pairingId, run'[r].pairing>> \in bound["source"]
        /\ run'[r].step = "posting" =>
             /\ Delivery \in run'[r].pairing.allowedOperations
             /\ run'[r].pairing.sourceEpicKey = run'[r].epic
    <3>1. CASE ResolveSourcePairing(r)
      <4>1. \/ run'[r] = Idle
            \/ \E p \in PairingId :
                 /\ pairings["source"][p] # NoPairing
                 /\ run'[r].step = "sending"
                 /\ run'[r].pairingId = p /\ run'[r].pairing = pairings["source"][p]
        BY <3>1 DEF ResolveSourcePairing, RunGoes, TypeOK
      <4>2. QED
        BY <4>1 DEF Bindings, PairingsBound, Site, Idle
    <3>2. CASE \E key \in Key, epic \in Epic : QueueCandidate(r, key, epic)
      BY <3>2 DEF QueueCandidate, RunGoes, TypeOK
    <3>3. CASE EmitLeanEvent(r)
      BY <3>3, GateStep DEF Bindings, RunsBound, authorizePeerRoute, Idle
    <3>4. CASE SaveCandidate(r) \/ PostEvent(r) \/ KillRun(r)
      BY <3>4 DEF SaveCandidate, PostEvent, KillRun, RunGoes, TypeOK, Idle
    <3>5. QED
      BY <3>1, <3>2, <3>3, <3>4 DEF Publishing
  <2>2. QED
    BY <1>1, <1>3, <2>1 DEF Bindings, RunsBound
<1>5. ASSUME NEW e \in sent' \ sent
      PROVE  Vouched("source", e) /\ forwarded[e.key] = 0
  <2>1. PostEvent(r)
    BY <1>5 DEF Publishing, QueueCandidate, SaveCandidate, ResolveSourcePairing,
       EmitLeanEvent, KillRun
  <2>2. /\ run[r].step = "posting"
        /\ e = [key |-> run[r].key, pairingId |-> run[r].pairingId,
                peerCxId |-> run[r].pairing.peerCxId, issueKey |-> run[r].epic]
        /\ Delivery \in run[r].pairing.allowedOperations
        /\ run[r].pairing.sourceEpicKey = run[r].epic
    BY <1>5, <2>1 DEF PostEvent, Bindings, RunsBound
  <2>3. run[r].pairing \in Binding /\ run[r].pairingId \in PairingId
        /\ run[r].key \in Key
    BY <2>2 DEF TypeOK, RunState
  <2>4. <<run[r].pairingId, run[r].pairing>> \in bound["source"]
    BY <2>2 DEF Bindings, RunsBound
  <2>5. run[r].pairing.allowedOperations \subseteq agreed["source"]
    BY <2>3, <2>4 DEF Bindings, BoundAgreed, Site
  <2>6. Vouched("source", e)
    BY <2>2, <2>3, <2>4, <2>5 DEF Vouched
  <2>7. forwarded[e.key] = 0
    BY <2>2, NothingForwardedYet
  <2>8. QED
    BY <2>6, <2>7
<1>6. /\ \A e \in sent' : Vouched("source", e)'
      /\ \A e \in sent' : forwarded'[e.key] > 0 => Vouched("destination", e)'
  BY <1>1, <1>5, StillVouched DEF Bindings, Site
<1>7. QED
  BY <1>2, <1>4, <1>6 DEF Bindings

\* A handler forwards under the Pairing its own administrator bound.
LEMMA ReceivingBindings ==
  ASSUME TypeOK, Keys, Bindings, NEW h \in Handler, Receiving(h), [Next]_vars
  PROVE  Bindings'
<1>1. UNCHANGED <<agreed, pairings, admin, bound, run, sent>>
  BY DEF Receiving, ConsumeRequest, ReadForRoute, Forward, DenyRoute,
     KillHandler, binding, source
<1>2. BoundAgreed' /\ PairingsBound' /\ AdminsBound' /\ RunsBound'
  BY <1>1 DEF Bindings, BoundAgreed, PairingsBound, AdminsBound, RunsBound
<1>3. \A i \in Handler \ {h} : handler'[i] = handler[i]
  BY DEF Receiving, ConsumeRequest, ReadForRoute, Forward, DenyRoute,
     KillHandler, HandlerGoes, TypeOK
<1>4. HandlersBound'
  <2>1. handler'[h].step = "reading" /\ handler'[h].pairing \notin {Unread, NoPairing} =>
          <<handler'[h].envelope.pairingId, handler'[h].pairing>> \in bound["destination"]
    <3>1. ASSUME NEW e \in sent, ConsumeRequest(h, e)
          PROVE  handler'[h].pairing = Unread
      BY <3>1 DEF ConsumeRequest, HandlerGoes, TypeOK
    <3>2. CASE ReadForRoute(h)
      <4>1. handler[h].envelope.pairingId \in PairingId
        BY <3>2, ReadStep DEF TypeOK, HandlerState, PeerOperationEnvelope
      <4>2. QED
        BY <3>2, <4>1, ReadStep DEF Bindings, HandlersBound, PairingsBound, Site
    <3>3. CASE Forward(h) \/ DenyRoute(h) \/ KillHandler(h)
      BY <3>3 DEF Forward, DenyRoute, KillHandler, HandlerGoes, TypeOK, Idle
    <3>4. QED
      BY <3>1, <3>2, <3>3 DEF Receiving
  <2>2. QED
    BY <1>1, <1>3, <2>1 DEF Bindings, HandlersBound
<1>5. ASSUME NEW e \in sent, forwarded'[e.key] > 0
      PROVE  Vouched("destination", e)
  <2>1. CASE forwarded'[e.key] = forwarded[e.key]
    BY <1>5, <2>1 DEF Bindings
  <2>2. CASE forwarded'[e.key] # forwarded[e.key]
    <3>1. Forward(h)
      BY <2>2 DEF Receiving, ConsumeRequest, ReadForRoute, DenyRoute, KillHandler
    <3>2. /\ handler[h] # Idle /\ handler[h].step = "reading"
          /\ handler[h].pairing \notin {Unread, NoPairing}
          /\ handler[h].pairing.peerCxId = handler[h].envelope.peerCxId
          /\ handler[h].pairing.sourceEpicKey = handler[h].envelope.issueKey
          /\ Delivery \in handler[h].pairing.allowedOperations
      BY <3>1 DEF Forward, RouteRead, Granted, authorizePeerRoute, Idle
    <3>3. e = handler[h].envelope
      <4>1. e.key = handler[h].envelope.key
        BY <2>2, <3>1 DEF Forward, TypeOK
      <4>2. QED
        BY <3>2, <4>1 DEF Keys, SentOnce, ClaimedOnce
    <3>4. handler[h].pairing \in Binding /\ e.pairingId \in PairingId
      BY <3>2, <3>3 DEF TypeOK, HandlerState, PeerOperationEnvelope
    <3>5. <<e.pairingId, handler[h].pairing>> \in bound["destination"]
      BY <3>2, <3>3 DEF Bindings, HandlersBound
    <3>6. handler[h].pairing.allowedOperations \subseteq agreed["destination"]
      BY <3>4, <3>5 DEF Bindings, BoundAgreed, Site
    <3>7. QED
      BY <3>2, <3>3, <3>4, <3>5, <3>6 DEF Vouched
  <2>3. QED
    BY <2>1, <2>2
<1>6. /\ \A e \in sent' : Vouched("source", e)'
      /\ \A e \in sent' : forwarded'[e.key] > 0 => Vouched("destination", e)'
  BY <1>1, <1>5, StillVouched DEF Bindings, Site
<1>7. QED
  BY <1>2, <1>4, <1>6 DEF Bindings

LEMMA StepBindings == TypeOK /\ Keys /\ Bindings /\ [Next]_vars => Bindings'
<1> SUFFICES ASSUME TypeOK, Keys, Bindings, [Next]_vars PROVE Bindings'
  OBVIOUS
<1>1. ASSUME UNCHANGED <<agreed, pairings, admin, bound>>,
             UNCHANGED <<run, sent, handler, forwarded>>
      PROVE  Bindings'
  <2>1. BoundAgreed' /\ PairingsBound' /\ AdminsBound' /\ RunsBound' /\ HandlersBound'
    BY <1>1 DEF Bindings, BoundAgreed, PairingsBound, AdminsBound, RunsBound,
       HandlersBound
  <2>2. QED
    BY <1>1, <2>1, StillVouched DEF Bindings, Site
<1>2. ASSUME NEW site \in Site, NEW x \in PeerCxId,
             RevokePeerCx(site, x) \/ LeaseEnds(site, x)
      PROVE  Bindings'
  BY <1>1, <1>2, Ending
<1>3. CASE UNCHANGED vars
  BY <1>1, <1>3 DEF vars
<1>4. QED
  BY <1>2, <1>3, AuthorizingBindings, PublishingBindings, ReceivingBindings DEF Next

-----------------------------------------------------------------------------
LEMMA InitBars == Init => Bars
  BY DEF Init, Bars, SourceBars, DestinationBars, RevocationStops, Idle

\* A revoked PeerCX stays revoked, and a lease that is over stays over.
LEMMA OutOfForce ==
  ASSUME TypeOK, [Next]_vars, NEW site \in Site
  PROVE  /\ NotInForce(site) \subseteq NotInForce(site)'
         /\ \A x \in PeerCxId :
              peerCx[site][x] = "revoked" => peerCx'[site][x] = "revoked"
<1>1. \/ UNCHANGED <<peerCx, ended>>
      \/ \E at \in Site, x \in PeerCxId : RevokePeerCx(at, x) \/ LeaseEnds(at, x)
  BY DEF Next, vars, Authorizing, AuthorizePairing, WritePairing, KillAdmin,
     Publishing, QueueCandidate, SaveCandidate, ResolveSourcePairing,
     EmitLeanEvent, PostEvent, KillRun, Receiving, ConsumeRequest, ReadForRoute,
     Forward, DenyRoute, KillHandler
<1>2. /\ \A x \in PeerCxId :
           peerCx'[site][x] = peerCx[site][x] \/ peerCx'[site][x] = "revoked"
      /\ ended[site] \subseteq ended'[site]
  <2>1. CASE UNCHANGED <<peerCx, ended>>
    BY <2>1
  <2>2. ASSUME NEW at \in Site, NEW x \in PeerCxId, RevokePeerCx(at, x)
        PROVE  <1>2!1 /\ <1>2!2
    BY <2>2 DEF RevokePeerCx, TypeOK
  <2>3. ASSUME NEW at \in Site, NEW x \in PeerCxId, LeaseEnds(at, x)
        PROVE  <1>2!1 /\ <1>2!2
    BY <2>3 DEF LeaseEnds, TypeOK
  <2>4. QED
    BY <1>1, <2>1, <2>2, <2>3
<1>3. QED
  BY <1>2 DEF NotInForce, PeerCxAuthorized, InLease

\* A publication that begins sees nothing barred come back into force.
LEMMA PublishingBars ==
  ASSUME TypeOK, Keys, Bars, NEW r \in Run, Publishing(r)
  PROVE  Bars'
<1>1. UNCHANGED <<peerCx, ended, handler, forwarded, barredAtDestination>>
  BY DEF Publishing, QueueCandidate, SaveCandidate, ResolveSourcePairing,
     EmitLeanEvent, PostEvent, KillRun, destination
<1>2. DestinationBars' /\ NotInForce("source")' = NotInForce("source")
  BY <1>1 DEF Bars, DestinationBars, NotInForce, PeerCxAuthorized, InLease
<1>3. \A q \in Run \ {r} : run'[q] = run[q]
  BY DEF Publishing, QueueCandidate, SaveCandidate, ResolveSourcePairing,
     EmitLeanEvent, PostEvent, KillRun, RunGoes, TypeOK
<1>4. ASSUME NEW key \in Key, NEW epic \in Epic, QueueCandidate(r, key, epic)
      PROVE  Bars'
  <2>1. /\ run'[r].step = "queueing" /\ sent' = sent /\ key \notin queued
        /\ \A q \in Run : run[q] # Idle => run[q].key # key
        /\ \A k \in Key : barredAtSource'[k] =
             IF k = key THEN NotInForce("source") ELSE barredAtSource[k]
    BY <1>4 DEF QueueCandidate, RunGoes, TypeOK
  <2>2. \A q \in Run : run[q].step = "posting" => run[q] # Idle /\ run[q].key \in Key
    BY DEF TypeOK, RunState, Idle
  <2>3. SourceBars'
    BY <1>2, <1>3, <2>1, <2>2 DEF Bars, SourceBars
  <2>4. \A e \in sent : e.key \in Key /\ e.key # key
    BY <2>1 DEF TypeOK, PeerOperationEnvelope, Keys, SentOnce
  <2>5. QED
    BY <1>1, <1>2, <2>1, <2>3, <2>4 DEF Bars, RevocationStops
<1>5. CASE EmitLeanEvent(r)
  <2>1. UNCHANGED <<sent, barredAtSource>>
    BY <1>5 DEF EmitLeanEvent
  <2>2. run[r].pairing.peerCxId \in PeerCxId /\ run[r].key \in Key
    BY <1>5, GateStep DEF TypeOK, RunState, Binding
  <2>3. run'[r].step = "posting" =>
          run'[r].pairing.peerCxId \notin barredAtSource[run'[r].key]
    BY <1>5, <2>2, GateStep
       DEF Bars, SourceBars, NotInForce, authorizePeerRoute, Idle
  <2>4. SourceBars'
    BY <1>2, <1>3, <2>1, <2>3 DEF Bars, SourceBars
  <2>5. QED
    BY <1>1, <1>2, <2>1, <2>4 DEF Bars, RevocationStops
<1>6. CASE PostEvent(r)
  <2> DEFINE envelope == [key |-> run[r].key, pairingId |-> run[r].pairingId,
                          peerCxId |-> run[r].pairing.peerCxId,
                          issueKey |-> run[r].epic]
  <2>1. /\ run[r].step = "posting" /\ run'[r] = Idle
        /\ sent' = sent \cup {envelope} /\ UNCHANGED barredAtSource
    BY <1>6 DEF PostEvent, RunGoes, TypeOK
  <2>2. SourceBars'
    BY <1>2, <1>3, <2>1 DEF Bars, SourceBars, Idle
  <2>3. /\ envelope.key = run[r].key
        /\ envelope.peerCxId = run[r].pairing.peerCxId
    OBVIOUS
  <2>4. forwarded[envelope.key] = 0
    BY <2>1, <2>3, NothingForwardedYet
  <2>5. envelope.peerCxId \notin barredAtSource[envelope.key]
    BY <2>1, <2>3 DEF Bars, SourceBars
  <2> HIDE DEF envelope
  <2>6. RevocationStops'
    BY <1>1, <2>1, <2>4, <2>5 DEF Bars, RevocationStops
  <2>7. QED
    BY <1>2, <2>2, <2>6 DEF Bars
<1>7. CASE SaveCandidate(r) \/ ResolveSourcePairing(r) \/ KillRun(r)
  <2>1. UNCHANGED <<sent, barredAtSource>> /\ run'[r].step # "posting"
    BY <1>7 DEF SaveCandidate, ResolveSourcePairing, KillRun, RunGoes, TypeOK, Idle
  <2>2. SourceBars'
    BY <1>2, <1>3, <2>1 DEF Bars, SourceBars
  <2>3. QED
    BY <1>1, <1>2, <2>1, <2>2 DEF Bars, RevocationStops
<1>8. QED
  BY <1>4, <1>5, <1>6, <1>7 DEF Publishing

\* What a handler reads is no better than when it began.
LEMMA ReceivingBars ==
  ASSUME TypeOK, Keys, Bars, NEW h \in Handler, Receiving(h)
  PROVE  Bars'
<1>1. UNCHANGED <<peerCx, ended, run, sent, barredAtSource>>
  BY DEF Receiving, ConsumeRequest, ReadForRoute, Forward, DenyRoute,
     KillHandler, source
<1>2. SourceBars'
  BY <1>1 DEF Bars, SourceBars, NotInForce, PeerCxAuthorized, InLease
<1>3. \A i \in Handler \ {h} : handler'[i] = handler[i]
  BY DEF Receiving, ConsumeRequest, ReadForRoute, Forward, DenyRoute,
     KillHandler, HandlerGoes, TypeOK
<1>4. \A e \in sent : e.key \in Key /\ e.peerCxId \in PeerCxId
  BY DEF TypeOK, PeerOperationEnvelope
<1>5. \A i \in Handler : handler[i] # Idle => handler[i].envelope \in sent
  BY DEF Keys, ClaimedOnce
<1>6. ASSUME NEW e \in sent, ConsumeRequest(h, e)
      PROVE  Bars'
  <2>1. /\ handler'[h].envelope = e /\ handler'[h].peerCx = Unread
        /\ handler'[h].inLease = InLease("destination", e.peerCxId)
        /\ e.key \notin claims /\ forwarded' = forwarded
        /\ \A k \in Key : barredAtDestination'[k] =
             IF k = e.key THEN NotInForce("destination") ELSE barredAtDestination[k]
    BY <1>6 DEF ConsumeRequest, HandlerGoes, TypeOK
  <2>2. e.peerCxId \in barredAtDestination'[e.key] =>
          ~handler'[h].inLease \/ peerCx["destination"][e.peerCxId] = "revoked"
    <3>1. barredAtDestination'[e.key] = NotInForce("destination")
      BY <1>4, <2>1
    <3>2. peerCx["destination"][e.peerCxId] \in {"active", "revoked"}
      BY <1>4 DEF TypeOK, PeerCxStatus, Site
    <3>3. QED
      BY <2>1, <3>1, <3>2 DEF NotInForce, PeerCxAuthorized, InLease
  <2>3. \A i \in Handler \ {h} : handler[i] # Idle => handler[i].envelope.key # e.key
    BY <2>1 DEF Keys, ClaimedOnce
  <2>4. DestinationBars'
    BY <1>1, <1>3, <1>4, <1>5, <2>1, <2>2, <2>3 DEF Bars, DestinationBars
  <2>5. ~ forwarded[e.key] > 0
    BY <1>4, <2>1 DEF Keys, ClaimedOnce
  <2>6. RevocationStops'
    BY <1>1, <1>4, <2>1, <2>5 DEF Bars, RevocationStops
  <2>7. QED
    BY <1>2, <2>4, <2>6 DEF Bars
<1>7. CASE ReadForRoute(h)
  <2>1. handler[h] # Idle /\ UNCHANGED <<forwarded, barredAtDestination>>
    BY <1>7 DEF ReadForRoute, Idle
  <2>2. DestinationBars'
    BY <1>1, <1>3, <1>7, <2>1, ReadStep DEF Bars, DestinationBars
  <2>3. QED
    BY <1>1, <1>2, <2>1, <2>2 DEF Bars, RevocationStops
<1>8. CASE Forward(h)
  <2>1. /\ handler[h] # Idle /\ handler'[h] = Idle
        /\ handler[h].inLease /\ handler[h].peerCx = "active"
        /\ forwarded' = [forwarded EXCEPT ![handler[h].envelope.key] = @ + 1]
        /\ UNCHANGED barredAtDestination
    BY <1>8 DEF Forward, RouteRead, Granted, authorizePeerRoute,
       PeerCxAuthorized, HandlerGoes, TypeOK, Idle
  <2>2. DestinationBars'
    BY <1>1, <1>3, <2>1 DEF Bars, DestinationBars
  <2>3. ASSUME NEW e \in sent, forwarded'[e.key] > 0
        PROVE  e.peerCxId \notin barredAtDestination[e.key]
    <3>1. CASE e.key = handler[h].envelope.key
      <4>1. e = handler[h].envelope
        BY <1>5, <2>1, <3>1 DEF Keys, SentOnce
      <4>2. "active" # "revoked" /\ (Unread = "active" => handler[h].peerCx = Unread)
        BY <2>1
      <4>3. handler[h].peerCx # Unread
        BY <1>8 DEF Forward, RouteRead
      <4>4. QED
        BY <2>1, <4>1, <4>2, <4>3 DEF Bars, DestinationBars
    <3>2. CASE e.key # handler[h].envelope.key
      <4>1. forwarded[e.key] > 0
        BY <1>4, <2>1, <2>3, <3>2 DEF TypeOK
      <4>2. QED
        BY <4>1 DEF Bars, RevocationStops
    <3>3. QED
      BY <3>1, <3>2
  <2>4. RevocationStops'
    BY <1>1, <2>1, <2>3 DEF Bars, RevocationStops
  <2>5. QED
    BY <1>2, <2>2, <2>4 DEF Bars
<1>9. CASE DenyRoute(h) \/ KillHandler(h)
  <2>1. handler'[h] = Idle /\ UNCHANGED <<forwarded, barredAtDestination>>
    BY <1>9 DEF DenyRoute, KillHandler, HandlerGoes, TypeOK
  <2>2. DestinationBars'
    BY <1>1, <1>3, <2>1 DEF Bars, DestinationBars
  <2>3. QED
    BY <1>1, <1>2, <2>1, <2>2 DEF Bars, RevocationStops
<1>10. QED
  BY <1>6, <1>7, <1>8, <1>9 DEF Receiving

LEMMA StepBars == TypeOK /\ Keys /\ Bars /\ [Next]_vars => Bars'
<1> SUFFICES ASSUME TypeOK, Keys, Bars, [Next]_vars PROVE Bars'
  OBVIOUS
<1>1. ASSUME UNCHANGED <<run, sent, barredAtSource>>,
             UNCHANGED <<handler, forwarded, barredAtDestination>>
      PROVE  Bars'
  <2>1. SourceBars'
    BY <1>1, OutOfForce DEF Bars, SourceBars, Site
  <2>2. \A h \in Handler : handler[h] # Idle =>
          handler[h].envelope.peerCxId \in PeerCxId
    BY DEF TypeOK, PeerOperationEnvelope, Keys, ClaimedOnce
  <2>3. DestinationBars'
    BY <1>1, <2>2, OutOfForce DEF Bars, DestinationBars, Site
  <2>4. QED
    BY <1>1, <2>1, <2>3 DEF Bars, RevocationStops
<1>2. ASSUME NEW a \in Admin, Authorizing(a) PROVE Bars'
  BY <1>1, <1>2 DEF Authorizing, AuthorizePairing, WritePairing, KillAdmin,
     source, destination
<1>3. ASSUME NEW site \in Site, NEW x \in PeerCxId,
             RevokePeerCx(site, x) \/ LeaseEnds(site, x)
      PROVE  Bars'
  BY <1>1, <1>3, Ending
<1>4. CASE UNCHANGED vars
  BY <1>1, <1>4 DEF vars
<1>5. QED
  BY <1>2, <1>3, <1>4, PublishingBars, ReceivingBars DEF Next

-----------------------------------------------------------------------------
Inv == TypeOK /\ Keys /\ Bindings /\ Bars

LEMMA InitInv == Init => Inv
  BY InitType, InitKeys, InitBindings, InitBars DEF Inv

LEMMA StepInv == Inv /\ [Next]_vars => Inv'
  BY StepType, StepKeys, StepBindings, StepBars DEF Inv

\* The stored states and what every invocation holds are the ones the code
\* passes around.
THEOREM DeliveryTyped == Spec => []TypeOK
<1>1. Inv => TypeOK
  BY DEF Inv
<1>2. QED
  BY <1>1, InitInv, StepInv, PTL DEF Spec

\* However often an envelope is delivered and however many handlers run at
\* once, its event reaches Automation at most once, after its candidate was
\* stored.
THEOREM ForwardedAtMostOnce == Spec => []AtMostOnce
<1>1. Inv => AtMostOnce
  <2> SUFFICES ASSUME Inv, NEW k \in Key
               PROVE  forwarded[k] <= (IF k \in queued THEN 1 ELSE 0)
    BY DEF AtMostOnce
  <2>1. forwarded[k] \in Nat
    BY DEF Inv, TypeOK
  <2>2. forwarded[k] <= 1 /\ (forwarded[k] > 0 => k \in queued)
    BY DEF Inv, Keys, ClaimedOnce
  <2>3. QED
    BY <2>1, <2>2
<1>2. QED
  BY <1>1, InitInv, StepInv, PTL DEF Spec

\* Both sites' administrators bound the Pairing, the PeerCX, the Epic and the
\* operation of every event that reached Automation, within the terms each
\* tenant has on record.
THEOREM NeitherSiteAlone == Spec => []BothAdministratorsBound
<1>1. Inv => BothAdministratorsBound
  BY DEF Inv, Bindings, Vouched, BothAdministratorsBound, Site
<1>2. QED
  BY <1>1, InitInv, StepInv, PTL DEF Spec

\* A revocation, or the end of a lease, stops whatever begins after it at the
\* tenant it is on record at: a publication begun then never sends under the
\* PeerCX, and a handler begun then never forwards, however many envelopes are
\* on the wire and whatever is revoked, rebound or killed in between.
THEOREM RevokedForGood == Spec => []RevocationStops
<1>1. Inv => RevocationStops
  BY DEF Inv, Bars
<1>2. QED
  BY <1>1, InitInv, StepInv, PTL DEF Spec
=============================================================================
